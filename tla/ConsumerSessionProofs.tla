----------------------- MODULE ConsumerSessionProofs -----------------------
(***************************************************************************)
(* Proofs about ConsumerSession, for any number of connections and of      *)
(* requests.  Three inductive invariants build on each other: AccessInv    *)
(* (types, who has the extension, who has to release the replica) holds    *)
(* whatever the suppliers do; SessionInv describes a session as long as    *)
(* nobody has upset it; ImportInv describes total updates as long as no    *)
(* session was upset at all.                                               *)
(***************************************************************************)
EXTENDS ConsumerSession, TLAPS

(* A Start or an End that has taken the extension of its connection.       *)
TakenPcs == {"mark", "acquire", "begin", "disable", "stop", "install", "release"}
UsesExt(c, o) ==
  op[c][o].pc \in TakenPcs \/ (op[c][o].pc = "reply" /\ op[c][o].connext)

(* Only one operation of a connection has the extension at a time          *)
(* (consumer_connection_extension_acquire_exclusive_access), and a Start   *)
(* that was just read does not have it.                                    *)
ExtUser == \A c \in Conns, o \in Slots :
  /\ UsesExt(c, o) => ext[c].user = o
  /\ op[c][o].pc = "start" => ~op[c][o].connext

(* The instance is busy for the thread that has to take it online again.   *)
ImportMeans ==
  /\ task # "none" => import = "task"
  /\ task = "running" => enabled = FALSE
  /\ \A c \in Conns, o \in Slots : op[c][o].pc = "disable" => import = c

(* A connection that is being destroyed has no operations.                 *)
Quiet == \A c \in Conns : conn[c] \in {"destroying", "gone"} => Running(c) = {}

(* INC and TOTAL are set only with IN_USE, and one of them at a time.      *)
FlagsShape ==
  /\ ~InUse => "INC" \notin flags /\ "TOTAL" \notin flags
  /\ "INC" \in flags => "TOTAL" \notin flags

(* A connection serves one of the protocols.                               *)
OneKind ==
  \A c \in Conns :
    /\ import = c => sup[c].kind = "total"
    /\ ext[c].version # "unknown" => ext[c].version = sup[c].kind
    /\ sup[c].kind = "none" => sup[c].st \in {"idle", "gone"}
    /\ \A o \in Slots : ~Free(c, o) =>
         /\ op[c][o].kind = sup[c].kind
         /\ op[c][o].pc = "update" => op[c][o].kind = "inc"

(* Who has to give the replica back: the connection that knows it holds    *)
(* it, or the server, which took it when it took the backend offline.      *)
HeldBy == InUse => IF locker = "server" THEN offline ELSE ext[locker].acquired

AccessInv ==
  TypeOK /\ ExtUser /\ ImportMeans /\ Quiet /\ FlagsShape /\ OneKind /\ HeldBy

-----------------------------------------------------------------------------
Holds(c) == InUse /\ locker = c /\ ext[c].acquired

Session(c) == Holds(c) /\ flagged[c] /\ ext[c].session

(* The operations of a connection run one at a time.                       *)
Single(c) == \A o, p \in Slots : ~Free(c, o) /\ ~Free(c, p) => o = p

(* A connection that believes to hold the replica does, until End or the   *)
(* destructor has taken the backend online.                                *)
Owned(c) ==
  ext[c].acquired => \/ Holds(c) \/ conn[c] = "destroying"
                     \/ \E o \in Slots : op[c][o].pc \in {"install", "release"}

(* What a supplier that was told to go on relies on.                       *)
Told(c) ==
  sup[c].st = "in" =>
    /\ conn[c] = "open" => Session(c)
    /\ \A o \in Slots : op[c][o].pc \in {"free", "update", "entry"}

(* Start, as far as it has come.                                           *)
StartedOp(c, o) ==
  /\ op[c][o].pc \in {"begin", "disable"} => Holds(c)
  /\ op[c][o].pc = "reply" /\ op[c][o].resp = "READY" => Session(c)
  /\ op[c][o].pc \in {"mark", "acquire", "begin", "disable"} =>
       op[c][o].connext /\ op[c][o].replica /\ ext[c].version = op[c][o].kind
  /\ op[c][o].pc = "mark" => op[c][o].kind = "total"
  /\ op[c][o].pc = "reply" /\ op[c][o].connext /\ op[c][o].replica =>
       ext[c].version = op[c][o].kind

(* The changes of a session are received while it lasts.                   *)
ChangeOp(c, o) ==
  op[c][o].pc \in {"update", "entry"} => Holds(c) /\ op[c][o].serial /\ op[c][o].replicated

(* The session of a connection that nobody has upset.                      *)
Sound(c) ==
  Single(c) /\ Owned(c) /\ Told(c) /\ \A o \in Slots : StartedOp(c, o) /\ ChangeOp(c, o)

SessionInv == \A c \in Conns \ upset : Sound(c)

-----------------------------------------------------------------------------
(* Before a total Start has begun the import, after it was refused, and    *)
(* after the end of the import, nothing is imported for a connection.      *)
NoImport(c, o) ==
  \/ op[c][o].pc \in {"start", "mark", "acquire", "begin", "cleanup", "install", "release"}
  \/ op[c][o].pc = "reply" /\ op[c][o].resp # "READY"

TotalOp(c, o) ==
  /\ NoImport(c, o) => import # c
  /\ op[c][o].kind = "total" /\ op[c][o].pc \in {"start", "mark", "acquire"} => ~ext[c].acquired
  /\ op[c][o].kind = "total" /\ op[c][o].pc = "begin" => "TOTAL" \in flags

(* An import that runs for a connection is that of the holder, with TOTAL  *)
(* set, until End or the destructor stops it.                              *)
ImportHeld(c) == import = c =>
  /\ conn[c] \notin {"destroying", "gone"}
  /\ \/ Holds(c) /\ "TOTAL" \in flags /\ ext[c].version = "total"
     \/ \E o \in Slots : op[c][o].pc = "stop"

(* The Start that has marked a total update will remove the mark.          *)
Marker(c, o) ==
  /\ op[c][o].kind = "total" /\ op[c][o].connext /\ op[c][o].replica
  /\ op[c][o].pc \in {"acquire", "begin", "disable", "reply"}

MarkOwned ==
  "TOTAL_EXCL_RECV" \in flags => \E c \in Conns, o \in Slots : Marker(c, o)

ImportOrder ==
  /\ \A c \in Conns : ImportHeld(c) /\ \A o \in Slots : TotalOp(c, o)
  /\ MarkOwned /\ CutShortNotSupplied

ImportInv == upset = {} => ImportOrder

-----------------------------------------------------------------------------
(* What the assignments do, variable by variable                           *)

OpType == [Conns -> [Slots -> OpRec]]
ExtType == [Conns -> ExtRec]
SupType == [Conns -> SupRec]

(* The operation in slot o of c becomes r, the others are left alone; the  *)
(* same for the extension of c and for the supplier behind c.              *)
OpBecomes(c, o, r) ==
  /\ op' \in OpType /\ op'[c][o] = r
  /\ \A d \in Conns, p \in Slots : d # c \/ p # o => op'[d][p] = op[d][p]

ExtBecomes(c, r) ==
  ext' \in ExtType /\ ext'[c] = r /\ \A d \in Conns : d # c => ext'[d] = ext[d]

SupBecomes(c, r) ==
  sup' \in SupType /\ sup'[c] = r /\ \A d \in Conns : d # c => sup'[d] = sup[d]

LEMMA OpSet ==
  ASSUME op \in OpType, NEW c \in Conns, NEW o \in Slots, NEW r \in OpRec,
         op' = [op EXCEPT ![c][o] = r]
  PROVE  OpBecomes(c, o, r)
<1>1. op[c] \in [Slots -> OpRec]
  BY DEF OpType
<1>2. [op[c] EXCEPT ![o] = r] \in [Slots -> OpRec]
  BY <1>1
<1>3. op' \in OpType /\ op'[c] = [op[c] EXCEPT ![o] = r]
  BY <1>2 DEF OpType
<1>4. op'[c][o] = r
  BY <1>1, <1>3
<1>5. \A d \in Conns, p \in Slots : d # c \/ p # o => op'[d][p] = op[d][p]
  BY <1>1, <1>3 DEF OpType
<1>6. QED
  BY <1>3, <1>4, <1>5 DEF OpBecomes

LEMMA ExtSet ==
  ASSUME ext \in ExtType, NEW c \in Conns, NEW r \in ExtRec, ext' = [ext EXCEPT ![c] = r]
  PROVE  ExtBecomes(c, r)
BY DEF ExtType, ExtBecomes

LEMMA SupSet ==
  ASSUME sup \in SupType, NEW c \in Conns, NEW r \in SupRec, sup' = [sup EXCEPT ![c] = r]
  PROVE  SupBecomes(c, r)
BY DEF SupType, SupBecomes

(* The handler goes on.                                                    *)
LEMMA GoEffect ==
  ASSUME op \in OpType, NEW c \in Conns, NEW o \in Slots, NEW pc \in Pcs, Go(c, o, pc)
  PROVE  OpBecomes(c, o, [op[c][o] EXCEPT !.pc = pc])
<1>1. op[c][o] \in OpRec
  BY DEF OpType
<1>2. [op[c][o] EXCEPT !.pc = pc] \in OpRec
  BY <1>1 DEF OpRec
<1>3. op' = [op EXCEPT ![c][o] = [op[c][o] EXCEPT !.pc = pc]]
  BY DEF Go
<1>4. QED
  BY <1>2, <1>3, OpSet

(* Start is answered.                                                      *)
LEMMA AnswerEffect ==
  ASSUME op \in OpType, NEW c \in Conns, NEW o \in Slots,
         NEW resp \in {"READY", "BUSY", "ERROR"}, Answer(c, o, resp)
  PROVE  OpBecomes(c, o, [op[c][o] EXCEPT !.pc = "reply", !.resp = resp])
<1> DEFINE r == [op[c][o] EXCEPT !.pc = "reply", !.resp = resp]
<1>1. op[c][o] \in OpRec
  BY DEF OpType
<1>2. r \in OpRec
  BY <1>1 DEF OpRec, Pcs, StartPcs
<1>3. op' = [op EXCEPT ![c][o] = r]
  BY DEF Answer
<1> HIDE DEF r
<1>4. OpBecomes(c, o, r)
  BY <1>2, <1>3, OpSet
<1>5. QED
  BY <1>4 DEF r

(* An operation is read.                                                   *)
NewOp(c, pc, kind) ==
  [Idle EXCEPT !.pc = pc, !.kind = kind, !.serial = flagged[c], !.replicated = ext[c].session]

LEMMA ReadEffect ==
  ASSUME TypeOK, NEW c \in Conns, NEW o \in Slots, NEW pc \in Pcs,
         NEW kind \in {"inc", "total"}, Read(c, o, pc, kind)
  PROVE  OpBecomes(c, o, NewOp(c, pc, kind))
<1>1. flagged[c] \in BOOLEAN /\ ext[c].session \in BOOLEAN /\ op \in OpType
  BY DEF TypeOK, ConnTypeOK, ExtRec, OpType
<1>2. NewOp(c, pc, kind) \in OpRec
  BY <1>1 DEF NewOp, OpRec, Idle
<1>3. op' = [op EXCEPT ![c][o] = NewOp(c, pc, kind)]
  BY DEF Read, NewOp
<1>4. QED
  BY <1>1, <1>2, <1>3, OpSet

(* The handler returns.                                                    *)
LEMMA ReturnEffect ==
  ASSUME op \in OpType, NEW c \in Conns, NEW o \in Slots, Return(c, o)
  PROVE  OpBecomes(c, o, Idle)
<1>1. Idle \in OpRec
  BY DEF OpRec, Idle, Pcs
<1>2. QED
  BY <1>1, OpSet DEF Return

(* The answer reaches the supplier, or does not.                           *)
LEMMA DeliverEffect ==
  ASSUME sup \in SupType, NEW c \in Conns, NEW o \in Slots, NEW st \in {"in", "idle"},
         Deliver(c, o, st)
  PROVE  \E s \in {st, sup[c].st} :
           /\ SupBecomes(c, [sup[c] EXCEPT !.st = s])
           /\ s # sup[c].st => conn[c] = "open" /\ sup[c].st \in {"starting", "ending"}
<1>1. sup[c] \in SupRec
  BY DEF SupType
<1>2. CASE sup' = [sup EXCEPT ![c].st = st] /\ conn[c] = "open"
           /\ sup[c].st \in {"starting", "ending"}
  <2>1. [sup[c] EXCEPT !.st = st] \in SupRec
    BY <1>1 DEF SupRec
  <2>2. SupBecomes(c, [sup[c] EXCEPT !.st = st])
    BY <1>2, <2>1, SupSet
  <2>3. QED
    BY <1>2, <2>2
<1>3. CASE sup' = sup
  <2>1. [sup[c] EXCEPT !.st = sup[c].st] = sup[c]
    BY <1>1 DEF SupRec
  <2>2. SupBecomes(c, [sup[c] EXCEPT !.st = sup[c].st])
    BY <1>3, <2>1 DEF SupBecomes
  <2>3. QED
    BY <2>2
<1>4. QED
  BY <1>2, <1>3 DEF Deliver

(* Whoever holds the replica loses it, and is known to if it is another.   *)
LEMMA FreedEffect ==
  ASSUME ReplicaTypeOK, FlagsShape
  PROVE  /\ "IN_USE" \notin Freed /\ "INC" \notin Freed /\ "TOTAL" \notin Freed
         /\ Freed \subseteq flags
         /\ "TOTAL_EXCL_RECV" \in flags => "TOTAL_EXCL_RECV" \in Freed
BY DEF Freed, InUse, FlagsShape, ReplicaTypeOK, Flags

LEMMA RelinquishEffect ==
  ASSUME TypeOK, FlagsShape, NEW c, Relinquish(c)
  PROVE  /\ ReplicaTypeOK' /\ FlagsShape' /\ ~InUse'
         /\ "TOTAL_EXCL_RECV" \in flags' <=> "TOTAL_EXCL_RECV" \in flags
         /\ upset \subseteq upset' /\ upset' \subseteq Conns
         /\ InUse /\ locker \in Conns /\ locker # c => locker \in upset'
<1>1. ReplicaTypeOK' /\ ~InUse' /\ FlagsShape'
  BY FreedEffect DEF Relinquish, TypeOK, ReplicaTypeOK, InUse, FlagsShape
<1>2. "TOTAL_EXCL_RECV" \in flags' <=> "TOTAL_EXCL_RECV" \in flags
  BY FreedEffect DEF Relinquish, TypeOK
<1>3. upset \subseteq upset' /\ upset' \subseteq Conns
  BY DEF Relinquish, Robbed, TypeOK, BackendTypeOK, ReplicaTypeOK
<1>4. InUse /\ locker \in Conns /\ locker # c => locker \in upset'
  BY SessionAssumption DEF Relinquish, Robbed
<1>5. QED
  BY <1>1, <1>2, <1>3, <1>4

(* The replica is free and is taken.                                       *)
LEMMA TakeEffect ==
  ASSUME TypeOK, FlagsShape, NEW who \in Conns \cup {"server"},
         NEW kind \in {{}, {"INC"}, {"TOTAL"}}, Take(who, kind)
  PROVE  /\ ReplicaTypeOK' /\ FlagsShape' /\ InUse' /\ locker' = who /\ ~InUse
         /\ flags \subseteq flags'
         /\ "TOTAL_EXCL_RECV" \in flags' <=> "TOTAL_EXCL_RECV" \in flags
<1>1. ReplicaTypeOK'
  BY DEF Take, TypeOK, ReplicaTypeOK, Flags
<1>2. FlagsShape'
  BY DEF Take, TypeOK, ReplicaTypeOK, FlagsShape, InUse
<1>3. QED
  BY <1>1, <1>2 DEF Take, InUse

(* The replica is refused: nothing but abort_session may change.           *)
LEMMA RefusedEffect ==
  ASSUME TypeOK, NEW who, Refused(who)
  PROVE  ReplicaTypeOK' /\ InUse /\ UNCHANGED <<flags, locker>>
BY DEF Refused, TypeOK, ReplicaTypeOK

(* Replication is disabled, with or without the lock.                      *)
LEMMA DisableEffect ==
  ASSUME TypeOK, FlagsShape, DisableReplication
  PROVE  /\ ReplicaTypeOK' /\ FlagsShape' /\ enabled' = FALSE /\ offline' = TRUE
         /\ \/ InUse /\ UNCHANGED <<flags, locker>>
            \/ ~InUse /\ InUse' /\ locker' = "server"
         /\ flags \subseteq flags'
         /\ "TOTAL_EXCL_RECV" \in flags' <=> "TOTAL_EXCL_RECV" \in flags
<1>1. CASE Take("server", {})
  BY <1>1, TakeEffect DEF DisableReplication
<1>2. CASE TakeAgain("server")
  BY <1>2 DEF DisableReplication, TakeAgain, replica, TypeOK, ReplicaTypeOK, FlagsShape, InUse
<1>3. CASE Refused("server")
  BY <1>3, RefusedEffect DEF DisableReplication, FlagsShape, InUse
<1>4. QED
  BY <1>1, <1>2, <1>3 DEF DisableReplication

(* It waits.                                                               *)
LEMMA DisableWaitsEffect ==
  ASSUME TypeOK, FlagsShape, DisableWaits
  PROVE  /\ ReplicaTypeOK' /\ FlagsShape' /\ enabled' = FALSE /\ offline' = TRUE
         /\ InUse /\ UNCHANGED <<flags, locker>>
BY RefusedEffect DEF DisableWaits, FlagsShape, InUse

(* Closing a connection.                                                   *)
LEMMA DisconnectEffect ==
  ASSUME ConnTypeOK, NEW c \in Conns, Disconnect(c)
  PROVE  /\ conn' \in [Conns -> {"open", "closing", "destroying", "gone"}]
         /\ conn'[c] # "open" /\ (conn'[c] # conn[c] => conn'[c] = "closing")
         /\ \A d \in Conns : d # c => conn'[d] = conn[d]
BY DEF Disconnect, ConnTypeOK

(* The parts of the type invariant as the lemmas above need them.          *)
LEMMA Types ==
  ASSUME TypeOK
  PROVE  /\ op \in OpType /\ ext \in ExtType /\ sup \in SupType
         /\ ReplicaTypeOK /\ DataTypeOK /\ BackendTypeOK /\ ConnTypeOK
         /\ \A c \in Conns : ext[c] \in ExtRec /\ sup[c] \in SupRec
         /\ \A c \in Conns, o \in Slots : op[c][o] \in OpRec
BY DEF TypeOK, OpType, ExtType, SupType


-----------------------------------------------------------------------------
(* How a step that concerns one operation of one connection keeps the      *)
(* parts of AccessInv                                                      *)

OthersOp(c, o) ==
  op' \in OpType /\ \A d \in Conns, p \in Slots : d # c \/ p # o => op'[d][p] = op[d][p]

OthersExt(c) == ext' \in ExtType /\ \A d \in Conns : d # c => ext'[d] = ext[d]

OthersSup(c) == sup' \in SupType /\ \A d \in Conns : d # c => sup'[d] = sup[d]

LEMMA ExtUserStep ==
  ASSUME ExtUser, NEW c \in Conns, NEW o \in Slots, OthersOp(c, o), OthersExt(c),
         UsesExt(c, o)' => ext'[c].user = o,
         op'[c][o].pc = "start" => ~op'[c][o].connext,
         ext'[c].user # ext[c].user => ext[c].user \in {NoSlot, o}
  PROVE  ExtUser'
<1>1. NoSlot \notin Slots
  BY DEF NoSlot, Slots
<1>2. ASSUME NEW d \in Conns, NEW p \in Slots, d # c \/ p # o
      PROVE  /\ UsesExt(d, p)' => ext'[d].user = p
             /\ op'[d][p].pc = "start" => ~op'[d][p].connext
  <2>1. op'[d][p] = op[d][p]
    BY <1>2 DEF OthersOp
  <2>2. UsesExt(d, p)' => ext[d].user = p
    BY <2>1 DEF ExtUser, UsesExt
  <2>3. CASE d # c
    BY <2>1, <2>2, <2>3 DEF OthersExt, ExtUser
  <2>4. CASE d = c
    BY <1>1, <1>2, <2>1, <2>2, <2>4 DEF ExtUser
  <2>5. QED
    BY <2>3, <2>4
<1>3. QED
  BY <1>2 DEF ExtUser

LEMMA ImportStep ==
  ASSUME ImportMeans, NEW c \in Conns, NEW o \in Slots, OthersOp(c, o),
         UNCHANGED <<import, task, enabled>>, op'[c][o].pc # "disable"
  PROVE  ImportMeans'
BY DEF ImportMeans, OthersOp

LEMMA QuietStep ==
  ASSUME Quiet, NEW c \in Conns, NEW o \in Slots, OthersOp(c, o),
         ~Free(c, o) \/ conn[c] = "open",
         \A d \in Conns : conn'[d] # conn[d] => conn'[d] = "closing"
  PROVE  Quiet'
<1> SUFFICES ASSUME NEW d \in Conns, conn'[d] \in {"destroying", "gone"}
             PROVE  \A p \in Slots : Free(d, p)'
  BY DEF Quiet, Running
<1>1. conn[d] = conn'[d]
  OBVIOUS
<1>2. \A p \in Slots : Free(d, p)
  BY <1>1 DEF Quiet, Running
<1>3. d # c
  BY <1>1, <1>2
<1>4. QED
  BY <1>2, <1>3 DEF OthersOp, Free

LEMMA OneKindStep ==
  ASSUME TypeOK, OneKind, NEW c \in Conns, NEW o \in Slots,
         OthersOp(c, o), OthersExt(c), OthersSup(c),
         import' # import => \/ import' \in {"nobody", "task"}
                             \/ import' = c /\ sup'[c].kind = "total",
         sup[c].kind = "none" \/ sup'[c].kind = sup[c].kind,
         ext'[c].version \in {"unknown", ext[c].version, sup'[c].kind},
         sup'[c].kind = "none" => sup'[c].st \in {"idle", "gone"},
         ~Free(c, o)' => /\ op'[c][o].kind = sup'[c].kind
                         /\ op'[c][o].pc = "update" => op'[c][o].kind = "inc"
  PROVE  OneKind'
<1>0. ASSUME NEW d \in Conns, import' = d PROVE import = d \/ (d = c /\ sup'[c].kind = "total")
  BY <1>0, SessionAssumption
<1>1. ASSUME NEW d \in Conns, d # c
      PROVE  /\ import' = d => sup'[d].kind = "total"
             /\ ext'[d].version # "unknown" => ext'[d].version = sup'[d].kind
             /\ sup'[d].kind = "none" => sup'[d].st \in {"idle", "gone"}
             /\ \A p \in Slots : ~Free(d, p)' =>
                  /\ op'[d][p].kind = sup'[d].kind
                  /\ op'[d][p].pc = "update" => op'[d][p].kind = "inc"
  <2>1. ext'[d] = ext[d] /\ sup'[d] = sup[d] /\ \A p \in Slots : op'[d][p] = op[d][p]
    BY <1>1 DEF OthersExt, OthersSup, OthersOp
  <2>2. import' = d => import = d
    BY <1>0, <1>1
  <2>3. QED
    BY <2>1, <2>2 DEF OneKind, Free
<1>2. \A p \in Slots : op[c][p].kind # "none"
  BY Types DEF OpRec
<1>3. sup[c].kind = "none" => /\ ext[c].version = "unknown" /\ import # c
                              /\ \A p \in Slots : Free(c, p)
  <2>1. ext[c].version # "none"
    BY Types DEF ExtRec
  <2>2. QED
    BY <1>2, <2>1 DEF OneKind
<1>4. import' = c => sup'[c].kind = "total"
  BY <1>0, <1>3 DEF OneKind
<1>5. ext'[c].version # "unknown" => ext'[c].version = sup'[c].kind
  BY <1>3 DEF OneKind
<1>6. ASSUME NEW p \in Slots, ~Free(c, p)'
      PROVE  op'[c][p].kind = sup'[c].kind /\ (op'[c][p].pc = "update" => op'[c][p].kind = "inc")
  <2>1. CASE p = o
    BY <1>6, <2>1
  <2>2. CASE p # o
    <3>1. op'[c][p] = op[c][p] /\ ~Free(c, p)
      BY <1>6, <2>2 DEF OthersOp, Free
    <3>2. QED
      BY <1>3, <3>1 DEF OneKind
  <2>3. QED
    BY <2>1, <2>2
<1>7. QED
  BY <1>1, <1>4, <1>5, <1>6 DEF OneKind

(* The replica stays with its holder, who still knows of it.               *)
LEMMA HeldByStep ==
  ASSUME TypeOK, HeldBy,
         InUse' => InUse /\ locker' = locker,
         InUse' /\ offline => offline',
         \A d \in Conns : InUse' /\ locker = d /\ ext[d].acquired => ext'[d].acquired
  PROVE  HeldBy'
<1>1. locker \in Conns \cup {"server"}
  BY DEF TypeOK, ReplicaTypeOK
<1>2. QED
  BY <1>1 DEF HeldBy
-----------------------------------------------------------------------------
(* What each action does to the operations, the extensions, the suppliers  *)
(* and the connections                                                     *)

SendStartDoes(c, o, k) ==
  /\ OpBecomes(c, o, NewOp(c, "start", k)) /\ k \in {"inc", "total"}
  /\ SupBecomes(c, [st |-> "starting", slot |-> o, kind |-> k, told |-> FALSE])

LEMMA SendStartEffect ==
  ASSUME TypeOK, NEW c \in Conns, NEW o \in Slots,
         NEW k \in Kinds \ {"task"}, SendStart(c, o, k)
  PROVE  SendStartDoes(c, o, k)
<1> USE DEF SendStartDoes
<1>1. k \in {"inc", "total"}
  BY SessionAssumption
<1>2. OpBecomes(c, o, NewOp(c, "start", k))
  BY <1>1, ReadEffect DEF SendStart, Pcs, StartPcs
<1>3. [st |-> "starting", slot |-> o, kind |-> k, told |-> FALSE] \in SupRec
  BY <1>1 DEF SupRec
<1>4. SupBecomes(c, [st |-> "starting", slot |-> o, kind |-> k, told |-> FALSE])
  BY <1>3, Types, SupSet DEF SendStart
<1>5. QED
  BY <1>1, <1>2, <1>4

GiveUpDoes(c) ==
  SupBecomes(c, [sup[c] EXCEPT !.st = "idle"])

LEMMA GiveUpEffect ==
  ASSUME TypeOK, NEW c \in Conns, GiveUp(c)
  PROVE  GiveUpDoes(c)
<1> USE DEF GiveUpDoes
<1>1. [sup[c] EXCEPT !.st = "idle"] \in SupRec
  BY Types DEF SupRec
<1>2. QED
  BY <1>1, Types, SupSet DEF GiveUp

SendChangeDoes(c, o) ==
  OpBecomes(c, o, NewOp(c, IF sup[c].kind = "inc" THEN "update" ELSE "entry", sup[c].kind))

LEMMA SendChangeEffect ==
  ASSUME TypeOK, OneKind, NEW c \in Conns, NEW o \in Slots, SendChange(c, o)
  PROVE  SendChangeDoes(c, o)
<1> USE DEF SendChangeDoes
<1>1. sup[c].kind \in {"inc", "total"}
  BY Types DEF SupRec, OneKind, SendChange
<1>2. QED
  BY <1>1, ReadEffect DEF SendChange, Pcs

SendEndDoes(c, o) ==
  /\ SupBecomes(c, [sup[c] EXCEPT !.st = "ending", !.slot = o])
  /\ OpBecomes(c, o, NewOp(c, "end", sup[c].kind))

LEMMA SendEndEffect ==
  ASSUME TypeOK, OneKind, NEW c \in Conns, NEW o \in Slots, SendEnd(c, o)
  PROVE  SendEndDoes(c, o)
<1> USE DEF SendEndDoes
<1> DEFINE r == [sup[c] EXCEPT !.st = "ending", !.slot = o]
<1>1. r \in SupRec
  BY Types DEF SupRec
<1>2. sup' = [sup EXCEPT ![c] = r]
  BY DEF SendEnd
<1> HIDE DEF r
<1>3. SupBecomes(c, r)
  BY <1>1, <1>2, Types, SupSet
<1>4. sup[c].kind \in {"inc", "total"}
  BY Types DEF SupRec, OneKind, SendEnd
<1>5. OpBecomes(c, o, NewOp(c, "end", sup[c].kind))
  BY <1>4, ReadEffect DEF SendEnd, Pcs, EndPcs
<1>6. QED
  BY <1>3, <1>5 DEF r

StartCheckDoes(c, o) ==
  \/ OpBecomes(c, o, [op[c][o] EXCEPT !.pc = "reply", !.resp = "ERROR"]) /\ UNCHANGED ext
  \/ OpBecomes(c, o, [op[c][o] EXCEPT !.pc = "reply", !.resp = "BUSY"]) /\ UNCHANGED ext
  \/ /\ ext[c].user = NoSlot
     /\ \E pc \in {"mark", "acquire", "reply"}, resp \in {"BUSY", "ERROR"}, found \in BOOLEAN :
          /\ OpBecomes(c, o, [op[c][o] EXCEPT !.pc = pc, !.resp = resp, !.connext = TRUE,
                                              !.replica = found])
          /\ \/ /\ ~found /\ pc = "reply" /\ ExtBecomes(c, [ext[c] EXCEPT !.user = o])
             \/ /\ ExtBecomes(c, [ext[c] EXCEPT !.user = o, !.version = op[c][o].kind])
                /\ pc # "reply" => found
                /\ pc = "mark" => op[c][o].kind = "total"
                /\ pc = "acquire" => op[c][o].kind = "inc"

LEMMA StartCheckEffect ==
  ASSUME TypeOK, NEW c \in Conns, NEW o \in Slots, StartCheck(c, o)
  PROVE  StartCheckDoes(c, o)
<1> USE DEF StartCheckDoes
<1> DEFINE Continue(pc, resp, found) ==
             op' = [op EXCEPT ![c][o].pc = pc, ![c][o].resp = resp, ![c][o].connext = TRUE,
                              ![c][o].replica = found]
           r(pc, resp, found) == [op[c][o] EXCEPT !.pc = pc, !.resp = resp, !.connext = TRUE,
                                                  !.replica = found]
           taken == [ext[c] EXCEPT !.user = o]
           stored == [ext[c] EXCEPT !.user = o, !.version = op[c][o].kind]
<1>1. ASSUME NEW pc \in {"mark", "acquire", "reply"}, NEW resp \in {"BUSY", "ERROR"},
             NEW found \in BOOLEAN, Continue(pc, resp, found)
      PROVE  OpBecomes(c, o, r(pc, resp, found))
  <2>1. r(pc, resp, found) \in OpRec
    BY Types DEF OpRec, Pcs, StartPcs
  <2>2. op' = [op EXCEPT ![c][o] = r(pc, resp, found)]
    BY <1>1
  <2> HIDE DEF r
  <2>3. QED
    BY <2>1, <2>2, Types, OpSet
<1>2. ASSUME ext' = [ext EXCEPT ![c].user = o] PROVE ExtBecomes(c, taken)
  <2>1. taken \in ExtRec
    BY Types DEF ExtRec
  <2>2. QED
    BY <1>2, <2>1, Types, ExtSet
<1>3. ASSUME ext' = [[ext EXCEPT ![c].user = o] EXCEPT ![c].version = op[c][o].kind]
      PROVE  ExtBecomes(c, stored)
  <2>1. stored \in ExtRec
    BY Types DEF ExtRec, OpRec
  <2>2. ext' = [ext EXCEPT ![c] = stored]
    BY <1>3, Types DEF ExtType
  <2> HIDE DEF stored
  <2>3. QED
    BY <2>1, <2>2, Types, ExtSet
<1>4. op[c][o].kind \in {"inc", "total"}
  BY Types DEF OpRec
<1>5. \/ Answer(c, o, "ERROR") /\ UNCHANGED ext
      \/ Answer(c, o, "BUSY") /\ UNCHANGED ext
      \/ ext[c].user = NoSlot /\ Continue("reply", "ERROR", FALSE)
           /\ ext' = [ext EXCEPT ![c].user = o]
      \/ /\ ext[c].user = NoSlot
         /\ ext' = [[ext EXCEPT ![c].user = o] EXCEPT ![c].version = op[c][o].kind]
         /\ \/ Continue("reply", "BUSY", FALSE) \/ Continue("reply", "BUSY", TRUE)
            \/ op[c][o].kind = "total" /\ Continue("mark", "ERROR", TRUE)
            \/ op[c][o].kind # "total" /\ Continue("acquire", "ERROR", TRUE)
  BY DEF StartCheck
<1>6. CASE Answer(c, o, "ERROR") /\ UNCHANGED ext
  BY <1>6, AnswerEffect, Types
<1>7. CASE Answer(c, o, "BUSY") /\ UNCHANGED ext
  BY <1>7, AnswerEffect, Types
<1> HIDE DEF Continue, r, taken, stored
<1>8. CASE ext[c].user = NoSlot /\ Continue("reply", "ERROR", FALSE)
             /\ ext' = [ext EXCEPT ![c].user = o]
  <2>1. OpBecomes(c, o, r("reply", "ERROR", FALSE)) /\ ExtBecomes(c, taken)
    BY <1>1, <1>2, <1>8
  <2>2. QED
    BY <1>8, <2>1 DEF r, taken
<1>9. CASE /\ ext[c].user = NoSlot
           /\ ext' = [[ext EXCEPT ![c].user = o] EXCEPT ![c].version = op[c][o].kind]
           /\ \/ Continue("reply", "BUSY", FALSE) \/ Continue("reply", "BUSY", TRUE)
              \/ op[c][o].kind = "total" /\ Continue("mark", "ERROR", TRUE)
              \/ op[c][o].kind # "total" /\ Continue("acquire", "ERROR", TRUE)
  <2>1. ExtBecomes(c, stored)
    BY <1>3, <1>9
  <2>2. \/ OpBecomes(c, o, r("reply", "BUSY", FALSE)) \/ OpBecomes(c, o, r("reply", "BUSY", TRUE))
        \/ op[c][o].kind = "total" /\ OpBecomes(c, o, r("mark", "ERROR", TRUE))
        \/ op[c][o].kind = "inc" /\ OpBecomes(c, o, r("acquire", "ERROR", TRUE))
    BY <1>1, <1>4, <1>9
  <2>3. QED
    BY <1>9, <2>1, <2>2 DEF r, stored
<1>10. QED
  BY <1>5, <1>6, <1>7, <1>8, <1>9

StartMarkDoes(c, o) ==
  OpBecomes(c, o, [op[c][o] EXCEPT !.pc = "acquire"])

LEMMA StartMarkEffect ==
  ASSUME TypeOK, NEW c \in Conns, NEW o \in Slots, StartMark(c, o)
  PROVE  StartMarkDoes(c, o)
BY GoEffect, Types DEF StartMark, Pcs, StartPcs, StartMarkDoes

StartAcquireDoes(c, o) ==
  \/ OpBecomes(c, o, [op[c][o] EXCEPT !.pc = "reply", !.resp = "ERROR"]) /\ UNCHANGED <<replica, ext>>
  \/ OpBecomes(c, o, [op[c][o] EXCEPT !.pc = "reply", !.resp = "BUSY"]) /\ Refused(c) /\ UNCHANGED ext
  \/ /\ Take(c, {IF op[c][o].kind = "inc" THEN "INC" ELSE "TOTAL"}) \/ TakeAgain(c)
     /\ ExtBecomes(c, [ext[c] EXCEPT !.acquired = TRUE])
     /\ OpBecomes(c, o, [op[c][o] EXCEPT !.pc = "begin"])

LEMMA StartAcquireEffect ==
  ASSUME TypeOK, NEW c \in Conns, NEW o \in Slots, StartAcquire(c, o)
  PROVE  StartAcquireDoes(c, o)
<1> USE DEF StartAcquireDoes
<1>1. CASE Answer(c, o, "ERROR") /\ UNCHANGED <<replica, ext>>
  BY <1>1, AnswerEffect, Types
<1>2. CASE Refused(c) /\ Answer(c, o, "BUSY") /\ UNCHANGED ext
  BY <1>2, AnswerEffect, Types
<1>3. CASE /\ Take(c, {IF op[c][o].kind = "inc" THEN "INC" ELSE "TOTAL"}) \/ TakeAgain(c)
           /\ ext' = [ext EXCEPT ![c].acquired = TRUE]
           /\ Go(c, o, "begin")
  <2>1. [ext[c] EXCEPT !.acquired = TRUE] \in ExtRec
    BY Types DEF ExtRec
  <2>2. ExtBecomes(c, [ext[c] EXCEPT !.acquired = TRUE])
    BY <1>3, <2>1, Types, ExtSet
  <2>3. OpBecomes(c, o, [op[c][o] EXCEPT !.pc = "begin"])
    BY <1>3, GoEffect, Types DEF Pcs, StartPcs
  <2>4. QED
    BY <1>3, <2>2, <2>3
<1>4. QED
  BY <1>1, <1>2, <1>3 DEF StartAcquire

LEMMA ReadyEffect ==
  ASSUME TypeOK, NEW c \in Conns, NEW o \in Slots, Ready(c, o)
  PROVE  /\ OpBecomes(c, o, [op[c][o] EXCEPT !.pc = "reply", !.resp = "READY"])
         /\ ExtBecomes(c, [ext[c] EXCEPT !.session = TRUE])
         /\ flagged' \in [Conns -> BOOLEAN] /\ flagged'[c] = TRUE
         /\ \A d \in Conns : d # c => flagged'[d] = flagged[d]
<1>1. OpBecomes(c, o, [op[c][o] EXCEPT !.pc = "reply", !.resp = "READY"])
  BY AnswerEffect, Types DEF Ready
<1>2. [ext[c] EXCEPT !.session = TRUE] \in ExtRec
  BY Types DEF ExtRec
<1>3. ExtBecomes(c, [ext[c] EXCEPT !.session = TRUE])
  BY <1>2, ExtSet, Types DEF Ready
<1>4. QED
  BY <1>1, <1>3, Types DEF Ready, ConnTypeOK

StartBeginDoes(c, o) ==
  \/ /\ ext[c].version = "inc" /\ UNCHANGED <<reapStop, import>>
     /\ OpBecomes(c, o, [op[c][o] EXCEPT !.pc = "reply", !.resp = "READY"])
     /\ ExtBecomes(c, [ext[c] EXCEPT !.session = TRUE])
     /\ flagged' \in [Conns -> BOOLEAN] /\ flagged'[c] = TRUE
     /\ \A d \in Conns : d # c => flagged'[d] = flagged[d]
  \/ /\ ext[c].version = "total" /\ import = "nobody" /\ import' = c /\ reapStop' = TRUE
     /\ OpBecomes(c, o, [op[c][o] EXCEPT !.pc = "disable"]) /\ UNCHANGED <<ext, flagged>>
  \/ /\ OpBecomes(c, o, [op[c][o] EXCEPT !.pc = "reply", !.resp = "ERROR"]) /\ UNCHANGED <<ext, flagged, import>>
     /\ reapStop' \in {reapStop, TRUE}

LEMMA StartBeginEffect ==
  ASSUME TypeOK, NEW c \in Conns, NEW o \in Slots, StartBegin(c, o)
  PROVE  StartBeginDoes(c, o)
<1> USE DEF StartBeginDoes
<1>1. CASE ext[c].version = "inc" /\ Ready(c, o) /\ UNCHANGED <<reapStop, import>>
  BY <1>1, ReadyEffect
<1>2. CASE /\ ext[c].version = "total" /\ import # "nobody" /\ reapStop' = TRUE
           /\ Answer(c, o, "ERROR") /\ UNCHANGED <<ext, flagged, import>>
  BY <1>2, AnswerEffect, Types
<1>3. CASE /\ ext[c].version = "total" /\ import = "nobody" /\ reapStop' = TRUE /\ import' = c
           /\ Go(c, o, "disable") /\ UNCHANGED <<ext, flagged>>
  BY <1>3, GoEffect, Types DEF Pcs, StartPcs
<1>4. CASE Answer(c, o, "ERROR") /\ UNCHANGED <<ext, flagged, reapStop, import>>
  BY <1>4, AnswerEffect, Types
<1>5. QED
  BY <1>1, <1>2, <1>3, <1>4 DEF StartBegin

StartDisableDoes(c, o) ==
  \/ DisableWaits /\ UNCHANGED <<partial, import, op, ext, flagged>>
  \/ /\ DisableReplication /\ partial' = TRUE /\ import' = "nobody"
     /\ OpBecomes(c, o, [op[c][o] EXCEPT !.pc = "reply", !.resp = "ERROR"])
     /\ UNCHANGED <<ext, flagged>>
  \/ /\ DisableReplication /\ partial' = TRUE /\ UNCHANGED import
     /\ OpBecomes(c, o, [op[c][o] EXCEPT !.pc = "reply", !.resp = "READY"])
     /\ ExtBecomes(c, [ext[c] EXCEPT !.session = TRUE])
     /\ flagged' \in [Conns -> BOOLEAN] /\ flagged'[c] = TRUE
     /\ \A d \in Conns : d # c => flagged'[d] = flagged[d]

LEMMA StartDisableEffect ==
  ASSUME TypeOK, NEW c \in Conns, NEW o \in Slots, StartDisable(c, o)
  PROVE  StartDisableDoes(c, o)
<1> USE DEF StartDisableDoes
<1>1. CASE DisableWaits /\ UNCHANGED <<partial, import, op, ext, flagged>>
  BY <1>1
<1>2. CASE DisableReplication /\ partial' = TRUE /\ Ready(c, o) /\ UNCHANGED import
  BY <1>2, ReadyEffect
<1>3. CASE /\ DisableReplication /\ partial' = TRUE /\ import' = "nobody"
           /\ Answer(c, o, "ERROR") /\ UNCHANGED <<ext, flagged>>
  BY <1>3, AnswerEffect, Types
<1>4. QED
  BY <1>1, <1>2, <1>3 DEF StartDisable

StartReplyDoes(c, o) ==
  /\ ext' \in ExtType /\ \A d \in Conns : d # c => ext'[d] = ext[d]
  /\ ext'[c] = IF op[c][o].connext THEN [ext[c] EXCEPT !.user = NoSlot] ELSE ext[c]
  /\ \E resp \in {op[c][o].resp, "ERROR"}, s \in {"in", "idle", sup[c].st} :
       /\ upset' = IF resp # op[c][o].resp /\ op[c][o].resp = "READY"
                   THEN upset \cup {c} ELSE upset
       /\ IF resp = "READY" THEN OpBecomes(c, o, Idle)
          ELSE OpBecomes(c, o, [op[c][o] EXCEPT !.pc = "cleanup"])
       /\ SupBecomes(c, [sup[c] EXCEPT !.st = s])
       /\ s # sup[c].st => conn[c] = "open" /\ sup[c].st \in {"starting", "ending"}
       /\ s = "in" /\ s # sup[c].st => resp = "READY"

LEMMA StartReplyEffect ==
  ASSUME TypeOK, NEW c \in Conns, NEW o \in Slots, StartReply(c, o)
  PROVE  StartReplyDoes(c, o)
<1> USE DEF StartReplyDoes
<1>1. ext' \in ExtType /\ (\A d \in Conns : d # c => ext'[d] = ext[d])
        /\ ext'[c] = IF op[c][o].connext THEN [ext[c] EXCEPT !.user = NoSlot] ELSE ext[c]
  <2>1. [ext[c] EXCEPT !.user = NoSlot] \in ExtRec
    BY Types DEF ExtRec
  <2>2. CASE op[c][o].connext /\ ext' = [ext EXCEPT ![c].user = NoSlot]
    <3>1. ExtBecomes(c, [ext[c] EXCEPT !.user = NoSlot])
      BY <2>1, <2>2, Types, ExtSet
    <3>2. QED
      BY <2>2, <3>1 DEF ExtBecomes
  <2>3. CASE ~op[c][o].connext /\ ext' = ext
    BY <2>3, Types
  <2>4. QED
    BY <2>2, <2>3 DEF StartReply
<1>2. PICK resp \in {op[c][o].resp, "ERROR"} :
        /\ upset' = IF resp # op[c][o].resp /\ op[c][o].resp = "READY"
                    THEN upset \cup {c} ELSE upset
        /\ Deliver(c, o, IF resp = "READY" THEN "in" ELSE "idle")
        /\ IF resp = "READY" THEN Return(c, o) ELSE Go(c, o, "cleanup")
  BY DEF StartReply
<1>3. IF resp = "READY" THEN OpBecomes(c, o, Idle)
      ELSE OpBecomes(c, o, [op[c][o] EXCEPT !.pc = "cleanup"])
  BY <1>2, ReturnEffect, GoEffect, Types DEF Pcs, StartPcs
<1>4. PICK s \in {IF resp = "READY" THEN "in" ELSE "idle", sup[c].st} :
        /\ SupBecomes(c, [sup[c] EXCEPT !.st = s])
        /\ s # sup[c].st => conn[c] = "open" /\ sup[c].st \in {"starting", "ending"}
  BY <1>2, DeliverEffect, Types
<1>5. s \in {"in", "idle", sup[c].st} /\ (s = "in" /\ s # sup[c].st => resp = "READY")
  OBVIOUS
<1>6. QED
  BY <1>1, <1>2, <1>3, <1>4, <1>5

StartCleanupDoes(c, o) ==
  /\ OpBecomes(c, o, Idle)
  /\ op[c][o].connext =>
       ExtBecomes(c, [ext[c] EXCEPT !.version = "unknown", !.session = FALSE,
                                    !.acquired = ext[c].acquired /\ locker # c])
  /\ ~op[c][o].connext => UNCHANGED ext
  /\ conn' \in [Conns -> {"open", "closing", "destroying", "gone"}]
  /\ \A d \in Conns : conn'[d] # conn[d] => d = c /\ conn'[d] = "closing"
  /\ flagged' \in [Conns -> BOOLEAN] /\ flagged'[c] = FALSE
  /\ \A d \in Conns : d # c => flagged'[d] = flagged[d]

LEMMA StartCleanupEffect ==
  ASSUME TypeOK, NEW c \in Conns, NEW o \in Slots, StartCleanup(c, o)
  PROVE  StartCleanupDoes(c, o)
<1> USE DEF StartCleanupDoes
<1>1. OpBecomes(c, o, Idle)
  BY ReturnEffect, Types DEF StartCleanup
<1>2. ASSUME op[c][o].connext
      PROVE  ExtBecomes(c, [ext[c] EXCEPT !.version = "unknown", !.session = FALSE,
                                          !.acquired = ext[c].acquired /\ locker # c])
  <2> DEFINE r == [ext[c] EXCEPT !.version = "unknown", !.session = FALSE,
                                 !.acquired = ext[c].acquired /\ locker # c]
  <2>1. r \in ExtRec
    BY Types DEF ExtRec
  <2>2. ext' = [ext EXCEPT ![c] = r]
    BY <1>2, Types DEF StartCleanup, ExtType
  <2> HIDE DEF r
  <2>3. ExtBecomes(c, r)
    BY <2>1, <2>2, Types, ExtSet
  <2>4. QED
    BY <2>3 DEF r
<1>3. ~op[c][o].connext => UNCHANGED ext
  BY DEF StartCleanup
<1>4. /\ conn' \in [Conns -> {"open", "closing", "destroying", "gone"}]
      /\ \A d \in Conns : conn'[d] # conn[d] => d = c /\ conn'[d] = "closing"
  BY DisconnectEffect, Types DEF StartCleanup, ConnTypeOK
<1>5. /\ flagged' \in [Conns -> BOOLEAN] /\ flagged'[c] = FALSE
      /\ \A d \in Conns : d # c => flagged'[d] = flagged[d]
  BY Types DEF StartCleanup, ConnTypeOK
<1>6. QED
  BY <1>1, <1>2, <1>3, <1>4, <1>5

EndConnextDoes(c, o) ==
  \/ /\ ext[c].user = NoSlot /\ ext[c].acquired /\ UNCHANGED sup
     /\ ExtBecomes(c, [ext[c] EXCEPT !.user = o])
     /\ \/ /\ ext[c].version = "total" /\ flags' = flags \ {"TOTAL"}
           /\ OpBecomes(c, o, [op[c][o] EXCEPT !.pc = "stop"])
        \/ /\ ext[c].version # "total" /\ UNCHANGED flags
           /\ OpBecomes(c, o, [op[c][o] EXCEPT !.pc = "release"])
  \/ /\ OpBecomes(c, o, Idle) /\ UNCHANGED <<ext, flags>>
     /\ \E s \in {"idle", sup[c].st} : SupBecomes(c, [sup[c] EXCEPT !.st = s])

LEMMA EndConnextEffect ==
  ASSUME TypeOK, NEW c \in Conns, NEW o \in Slots, EndConnext(c, o)
  PROVE  EndConnextDoes(c, o)
<1> USE DEF EndConnextDoes
<1>1. CASE /\ ext[c].user = NoSlot /\ ext[c].acquired /\ UNCHANGED sup
           /\ ext' = [ext EXCEPT ![c].user = o]
           /\ IF ext[c].version = "total"
              THEN flags' = flags \ {"TOTAL"} /\ Go(c, o, "stop")
              ELSE UNCHANGED flags /\ Go(c, o, "release")
  <2>1. [ext[c] EXCEPT !.user = o] \in ExtRec
    BY Types DEF ExtRec
  <2>2. ExtBecomes(c, [ext[c] EXCEPT !.user = o])
    BY <1>1, <2>1, Types, ExtSet
  <2>3. CASE ext[c].version = "total"
    BY <1>1, <2>2, <2>3, GoEffect, Types DEF Pcs, EndPcs
  <2>4. CASE ext[c].version # "total"
    BY <1>1, <2>2, <2>4, GoEffect, Types DEF Pcs, EndPcs
  <2>5. QED
    BY <2>3, <2>4
<1>2. CASE Deliver(c, o, "idle") /\ Return(c, o) /\ UNCHANGED <<ext, flags>>
  BY <1>2, DeliverEffect, ReturnEffect, Types
<1>3. QED
  BY <1>1, <1>2 DEF EndConnext

EndStopDoes(c, o) ==
  OpBecomes(c, o, [op[c][o] EXCEPT !.pc = "install"])

LEMMA EndStopEffect ==
  ASSUME TypeOK, NEW c \in Conns, NEW o \in Slots, EndStop(c, o)
  PROVE  EndStopDoes(c, o)
BY GoEffect, Types DEF EndStop, Pcs, EndPcs, EndStopDoes

EndInstallDoes(c, o) ==
  OpBecomes(c, o, [op[c][o] EXCEPT !.pc = "release"])

LEMMA EndInstallEffect ==
  ASSUME TypeOK, NEW c \in Conns, NEW o \in Slots, EndInstall(c, o)
  PROVE  EndInstallDoes(c, o)
BY GoEffect, Types DEF EndInstall, Pcs, EndPcs, EndInstallDoes

EndReleaseDoes(c, o) ==
  /\ OpBecomes(c, o, Idle)
  /\ ExtBecomes(c, [ext[c] EXCEPT !.acquired = FALSE, !.session = FALSE, !.user = NoSlot])
  /\ \E s \in {"idle", sup[c].st} : SupBecomes(c, [sup[c] EXCEPT !.st = s])
  /\ flagged' \in [Conns -> BOOLEAN]
  /\ \A d \in Conns : d # c => flagged'[d] = flagged[d]

LEMMA EndReleaseEffect ==
  ASSUME TypeOK, NEW c \in Conns, NEW o \in Slots, EndRelease(c, o)
  PROVE  EndReleaseDoes(c, o)
<1> USE DEF EndReleaseDoes
<1> DEFINE r == [ext[c] EXCEPT !.acquired = FALSE, !.session = FALSE, !.user = NoSlot]
<1>1. r \in ExtRec
  BY Types DEF ExtRec
<1>2. ext' = [ext EXCEPT ![c] = r]
  BY Types DEF EndRelease, ExtType
<1> HIDE DEF r
<1>3. ExtBecomes(c, r)
  BY <1>1, <1>2, Types, ExtSet
<1>4. OpBecomes(c, o, Idle) /\ \E s \in {"idle", sup[c].st} : SupBecomes(c, [sup[c] EXCEPT !.st = s])
  BY DeliverEffect, ReturnEffect, Types DEF EndRelease
<1>5. flagged' \in [Conns -> BOOLEAN] /\ \A d \in Conns : d # c => flagged'[d] = flagged[d]
  BY Types DEF EndRelease, ConnTypeOK
<1>6. QED
  BY <1>3, <1>4, <1>5 DEF r

UpdateAppliedDoes(c, o) ==
  /\ OpBecomes(c, o, Idle)
  /\ \E t \in BOOLEAN : SupBecomes(c, [sup[c] EXCEPT !.told = t])

LEMMA UpdateAppliedEffect ==
  ASSUME TypeOK, NEW c \in Conns, NEW o \in Slots, UpdateApplied(c, o)
  PROVE  UpdateAppliedDoes(c, o)
<1> USE DEF UpdateAppliedDoes
<1>1. OpBecomes(c, o, Idle)
  BY ReturnEffect, Types DEF UpdateApplied
<1>2. CASE sup' = [sup EXCEPT ![c].told = TRUE]
  <2>1. [sup[c] EXCEPT !.told = TRUE] \in SupRec
    BY Types DEF SupRec
  <2>2. SupBecomes(c, [sup[c] EXCEPT !.told = TRUE])
    BY <1>2, <2>1, Types, SupSet
  <2>3. QED
    BY <1>1, <2>2
<1>3. CASE sup' = sup
  <2>1. [sup[c] EXCEPT !.told = sup[c].told] = sup[c] /\ sup[c].told \in BOOLEAN
    BY Types DEF SupRec
  <2>2. SupBecomes(c, [sup[c] EXCEPT !.told = sup[c].told])
    BY <1>3, <2>1, Types DEF SupBecomes
  <2>3. QED
    BY <1>1, <2>1, <2>2
<1>4. QED
  BY <1>2, <1>3 DEF UpdateApplied

UpdateFailedDoes(c, o) ==
  /\ OpBecomes(c, o, Idle)
  /\ \/ /\ op[c][o].replicated /\ Disconnect(c) /\ Relinquish(c)
        /\ ext[c].user = NoSlot /\ ext[c].acquired
        /\ ExtBecomes(c, [ext[c] EXCEPT !.acquired = FALSE, !.session = FALSE])
        /\ flagged' \in [Conns -> BOOLEAN]
        /\ \A d \in Conns : d # c => flagged'[d] = flagged[d]
     \/ op[c][o].replicated /\ Disconnect(c) /\ UNCHANGED <<replica, ext, flagged, upset>>
     \/ ~op[c][o].replicated /\ UNCHANGED <<replica, ext, flagged, conn, upset>>

LEMMA UpdateFailedEffect ==
  ASSUME TypeOK, NEW c \in Conns, NEW o \in Slots, UpdateFailed(c, o)
  PROVE  UpdateFailedDoes(c, o)
<1> USE DEF UpdateFailedDoes
<1>1. OpBecomes(c, o, Idle)
  BY ReturnEffect, Types DEF UpdateFailed
<1>2. CASE op[c][o].replicated /\ ext[c].user = NoSlot /\ ext[c].acquired
  <2> DEFINE r == [ext[c] EXCEPT !.acquired = FALSE, !.session = FALSE]
  <2>1. r \in ExtRec
    BY Types DEF ExtRec
  <2>2. ext' = [ext EXCEPT ![c] = r]
    BY <1>2, Types DEF UpdateFailed, ExtType
  <2> HIDE DEF r
  <2>3. ExtBecomes(c, r)
    BY <2>1, <2>2, Types, ExtSet
  <2>4. flagged' \in [Conns -> BOOLEAN] /\ \A d \in Conns : d # c => flagged'[d] = flagged[d]
    BY <1>2, Types DEF UpdateFailed, ConnTypeOK
  <2>5. Disconnect(c) /\ Relinquish(c)
    BY <1>2 DEF UpdateFailed
  <2>6. QED
    BY <1>1, <1>2, <2>3, <2>4, <2>5 DEF r
<1>3. CASE ~(op[c][o].replicated /\ ext[c].user = NoSlot /\ ext[c].acquired)
  BY <1>1, <1>3 DEF UpdateFailed
<1>4. QED
  BY <1>2, <1>3

EntryQueuedDoes(c, o) ==
  OpBecomes(c, o, Idle)

LEMMA EntryQueuedEffect ==
  ASSUME TypeOK, NEW c \in Conns, NEW o \in Slots, EntryQueued(c, o)
  PROVE  EntryQueuedDoes(c, o)
BY ReturnEffect, Types DEF EntryQueued, EntryQueuedDoes

EntryFailedDoes(c, o) ==
  OpBecomes(c, o, Idle)

LEMMA EntryFailedEffect ==
  ASSUME TypeOK, NEW c \in Conns, NEW o \in Slots, EntryFailed(c, o)
  PROVE  EntryFailedDoes(c, o)
BY ReturnEffect, Types DEF EntryFailed, EntryFailedDoes

DestroyDoes(c) ==
  /\ ExtBecomes(c, NewExt)
  /\ SupBecomes(c, [sup[c] EXCEPT !.st = "gone", !.told = FALSE])
  /\ conn' \in [Conns -> {"open", "closing", "destroying", "gone"}] /\ conn'[c] = "gone"
  /\ \A d \in Conns : d # c => conn'[d] = conn[d]
  /\ flagged' \in [Conns -> BOOLEAN]
  /\ \A d \in Conns : d # c => flagged'[d] = flagged[d]

LEMMA DestroyEffect ==
  ASSUME TypeOK, NEW c \in Conns, Destroy(c)
  PROVE  DestroyDoes(c)
<1> USE DEF DestroyDoes
<1>1. NewExt \in ExtRec
  BY DEF NewExt, ExtRec
<1>2. ExtBecomes(c, NewExt)
  BY <1>1, Types, ExtSet DEF Destroy
<1> DEFINE r == [sup[c] EXCEPT !.st = "gone", !.told = FALSE]
<1>3. r \in SupRec
  BY Types DEF SupRec
<1>4. sup' = [sup EXCEPT ![c] = r]
  BY Types DEF Destroy, SupType
<1> HIDE DEF r
<1>5. SupBecomes(c, r)
  BY <1>3, <1>4, Types, SupSet
<1>6. /\ conn' \in [Conns -> {"open", "closing", "destroying", "gone"}] /\ conn'[c] = "gone"
      /\ \A d \in Conns : d # c => conn'[d] = conn[d]
  BY Types DEF Destroy, ConnTypeOK
<1>7. flagged' \in [Conns -> BOOLEAN] /\ \A d \in Conns : d # c => flagged'[d] = flagged[d]
  BY Types DEF Destroy, ConnTypeOK
<1>8. QED
  BY <1>2, <1>5, <1>6, <1>7 DEF r

-----------------------------------------------------------------------------
(* The first state: no session, no operation.                              *)
THEOREM AccessInit == Init => AccessInv
<1> SUFFICES ASSUME Init PROVE AccessInv
  OBVIOUS
<1>1. ReplicaTypeOK /\ DataTypeOK /\ ConnTypeOK
  BY DEF Init, ReplicaTypeOK, DataTypeOK, ConnTypeOK
<1>2. BackendTypeOK
  BY SessionAssumption DEF Init, BackendTypeOK
<1>3. NewExt \in ExtRec /\ Idle \in OpRec
        /\ [st |-> "idle", slot |-> NoSlot, kind |-> "none", told |-> FALSE] \in SupRec
  BY DEF NewExt, ExtRec, Idle, OpRec, Pcs, SupRec
<1>4. TypeOK
  BY <1>1, <1>2, <1>3 DEF Init, TypeOK
<1>5. ExtUser /\ ImportMeans /\ Quiet /\ FlagsShape /\ HeldBy
  BY DEF Init, ExtUser, UsesExt, TakenPcs, Idle, ImportMeans, Quiet, Running, Free, FlagsShape,
         InUse, HeldBy
<1>6. OneKind
  BY SessionAssumption DEF Init, OneKind, Idle, NewExt, Free
<1>7. QED
  BY <1>4, <1>5, <1>6 DEF AccessInv

(* One step of a handler, a supplier, a connection or a task.              *)
THEOREM AccessNext == AccessInv /\ [Next]_vars => AccessInv'
<1> SUFFICES ASSUME AccessInv, [Next]_vars PROVE AccessInv'
  OBVIOUS
<1> TypeOK /\ FlagsShape
  BY DEF AccessInv
<1>1. ASSUME NEW c \in Conns, NEW o \in Slots, StartCheck(c, o) PROVE AccessInv'
  <2>1. StartCheckDoes(c, o)
    BY <1>1, StartCheckEffect
  <2>2. /\ op[c][o].pc = "start"
        /\ UNCHANGED <<flags, locker, abort, reapStop, enabled, offline, partial, import, task, flagged, conn, sup, requests, upset>>
    BY <1>1 DEF StartCheck, replica, data, backend
  <2>3. op[c][o] \in OpRec /\ ext[c] \in ExtRec /\ sup[c] \in SupRec
    BY Types
  <2>4. /\ OthersOp(c, o) /\ OthersExt(c)
        /\ op'[c][o].pc \in {"mark", "acquire", "reply"} /\ op'[c][o].kind = op[c][o].kind
        /\ UsesExt(c, o)' => ext'[c].user = o
        /\ ext'[c].user # ext[c].user => ext[c].user = NoSlot
        /\ ext'[c].acquired = ext[c].acquired
        /\ ext'[c].version \in {ext[c].version, op[c][o].kind}
    <3>1. ~op[c][o].connext
      BY <2>2 DEF AccessInv, ExtUser
    <3>2. CASE ext' = ext /\ OpBecomes(c, o, [op[c][o] EXCEPT !.pc = "reply", !.resp = "ERROR"])
      BY <2>3, <3>1, <3>2, Types DEF OpBecomes, OthersOp, OthersExt, UsesExt, TakenPcs, OpRec, ExtType
    <3>3. CASE ext' = ext /\ OpBecomes(c, o, [op[c][o] EXCEPT !.pc = "reply", !.resp = "BUSY"])
      BY <2>3, <3>1, <3>3, Types DEF OpBecomes, OthersOp, OthersExt, UsesExt, TakenPcs, OpRec, ExtType
    <3>4. ASSUME ext[c].user = NoSlot, NEW pc \in {"mark", "acquire", "reply"},
                 NEW resp \in {"BUSY", "ERROR"}, NEW found \in BOOLEAN,
                 OpBecomes(c, o, [op[c][o] EXCEPT !.pc = pc, !.resp = resp, !.connext = TRUE,
                                                  !.replica = found]),
                 \/ ExtBecomes(c, [ext[c] EXCEPT !.user = o])
                 \/ ExtBecomes(c, [ext[c] EXCEPT !.user = o, !.version = op[c][o].kind])
          PROVE  /\ OthersOp(c, o) /\ OthersExt(c)
                 /\ op'[c][o].pc \in {"mark", "acquire", "reply"} /\ op'[c][o].kind = op[c][o].kind
                 /\ UsesExt(c, o)' => ext'[c].user = o
                 /\ ext'[c].user # ext[c].user => ext[c].user = NoSlot
                 /\ ext'[c].acquired = ext[c].acquired
                 /\ ext'[c].version \in {ext[c].version, op[c][o].kind}
      <4>1. OthersOp(c, o) /\ op'[c][o].pc = pc /\ op'[c][o].kind = op[c][o].kind
        BY <2>3, <3>4 DEF OpBecomes, OthersOp, OpRec
      <4>2. /\ OthersExt(c) /\ ext'[c].user = o /\ ext'[c].acquired = ext[c].acquired
            /\ ext'[c].version \in {ext[c].version, op[c][o].kind}
        BY <2>3, <3>4 DEF ExtBecomes, OthersExt, ExtRec
      <4>3. QED
        BY <3>4, <4>1, <4>2
    <3>5. QED
      BY <2>1, <3>2, <3>3, <3>4 DEF StartCheckDoes
  <2>5. ReplicaTypeOK' /\ DataTypeOK' /\ BackendTypeOK' /\ ConnTypeOK' /\ FlagsShape'
    BY <2>2, Types DEF AccessInv, ReplicaTypeOK, DataTypeOK, BackendTypeOK, ConnTypeOK,
         FlagsShape, InUse
  <2>6. (ext' \in ExtType /\ op' \in OpType /\ sup' \in SupType)
    BY <2>1, <2>2, <2>3, Types DEF StartCheckDoes, AccessInv, OpBecomes, ExtBecomes
  <2>7. ExtUser'
    BY <2>4, ExtUserStep DEF AccessInv
  <2>8. ImportMeans'
    BY <2>2, <2>4, ImportStep DEF AccessInv
  <2>9. Quiet'
    BY <2>2, <2>4, QuietStep DEF AccessInv, Free
  <2>10. OneKind'
    <3>1. OthersSup(c)
      BY <2>2, Types DEF OthersSup
    <3>2. sup[c].kind = "none" => sup[c].st \in {"idle", "gone"}
      BY DEF AccessInv, OneKind
    <3>3. ~Free(c, o) => op[c][o].kind = sup[c].kind /\ (op[c][o].pc = "update" => op[c][o].kind = "inc")
      BY DEF AccessInv, OneKind
    <3>4. QED
      BY <2>2, <2>4, <3>1, <3>2, <3>3, OneKindStep DEF AccessInv, Free
  <2>11. HeldBy'
    BY <2>2, <2>4, HeldByStep DEF AccessInv, OthersExt, InUse
  <2>12. QED
    BY <2>5, <2>6, <2>7, <2>8, <2>9, <2>10, <2>11 DEF AccessInv, TypeOK, OpType, ExtType, SupType
<1>2. ASSUME NEW c \in Conns, NEW o \in Slots, StartMark(c, o) PROVE AccessInv'
  <2>1. StartMarkDoes(c, o)
    BY <1>2, StartMarkEffect
  <2>2. /\ op[c][o].pc = "mark" /\ flags' = flags \cup {"TOTAL_EXCL_RECV"}
        /\ UNCHANGED <<locker, abort, reapStop, enabled, offline, partial, import, task, ext, flagged, conn, sup, requests, upset>>
    BY <1>2 DEF StartMark, data, backend
  <2>3. op[c][o] \in OpRec /\ ext[c] \in ExtRec /\ sup[c] \in SupRec
    BY Types
  <2>4. DataTypeOK' /\ BackendTypeOK' /\ ConnTypeOK'
    BY <2>2, Types DEF AccessInv, DataTypeOK, BackendTypeOK, ConnTypeOK
  <2>5. ReplicaTypeOK'
    BY <2>2, Types DEF ReplicaTypeOK, Flags
  <2>6. (ext' \in ExtType /\ op' \in OpType /\ sup' \in SupType)
    BY <2>1, <2>2, <2>3, Types DEF StartMarkDoes, AccessInv, OpBecomes
  <2>7. ExtUser'
    BY <2>1, <2>2, <2>3, Types DEF StartMarkDoes, AccessInv, OpBecomes, ExtUser,
         UsesExt, TakenPcs, OpRec
  <2>8. ImportMeans'
    BY <2>1, <2>2, <2>3, Types, SessionAssumption DEF StartMarkDoes, AccessInv,
         OpBecomes, ImportMeans, OpRec
  <2>9. Quiet'
    BY <2>1, <2>2, <2>3, Types DEF StartMarkDoes, AccessInv, OpBecomes, Quiet, Running,
         Free, OpRec
  <2>10. FlagsShape'
    BY <2>1, <2>2, <2>3, Types DEF StartMarkDoes, AccessInv, FlagsShape, InUse
  <2>11. OneKind'
    BY <2>1, <2>2, <2>3, Types, SessionAssumption DEF StartMarkDoes, AccessInv,
         OpBecomes, OneKind, Free, OpRec
  <2>12. HeldBy'
    BY <2>1, <2>2, <2>3, Types, SessionAssumption DEF StartMarkDoes, AccessInv, HeldBy,
         InUse
  <2>13. QED
    BY <2>4, <2>5, <2>6, <2>7, <2>8, <2>9, <2>10, <2>11, <2>12 DEF AccessInv, TypeOK, OpType, ExtType, SupType
<1>3. ASSUME NEW c \in Conns, NEW o \in Slots, StartAcquire(c, o) PROVE AccessInv'
  <2>1. StartAcquireDoes(c, o)
    BY <1>3, StartAcquireEffect
  <2>2. /\ op[c][o].pc = "acquire"
        /\ UNCHANGED <<reapStop, enabled, offline, partial, import, task, flagged, conn, sup, requests, upset>>
    BY <1>3 DEF StartAcquire, replica, data, backend
  <2>3. op[c][o] \in OpRec /\ ext[c] \in ExtRec /\ sup[c] \in SupRec
    BY Types
  <2>4. /\ OthersOp(c, o) /\ OthersExt(c)
        /\ op'[c][o].pc \in {"begin", "reply"} /\ op'[c][o].kind = op[c][o].kind
        /\ ext'[c].user = ext[c].user /\ ext'[c].version = ext[c].version
        /\ \/ UNCHANGED replica /\ ext'[c] = ext[c]
           \/ Refused(c) /\ ext'[c] = ext[c]
           \/ /\ Take(c, {IF op[c][o].kind = "inc" THEN "INC" ELSE "TOTAL"}) \/ TakeAgain(c)
              /\ ext'[c].acquired
    <3>1. CASE /\ OpBecomes(c, o, [op[c][o] EXCEPT !.pc = "reply", !.resp = "ERROR"])
               /\ UNCHANGED <<replica, ext>>
      BY <2>3, <3>1, Types DEF OpBecomes, OthersOp, OthersExt, OpRec
    <3>2. CASE /\ OpBecomes(c, o, [op[c][o] EXCEPT !.pc = "reply", !.resp = "BUSY"])
               /\ Refused(c) /\ UNCHANGED ext
      BY <2>3, <3>2, Types DEF OpBecomes, OthersOp, OthersExt, OpRec
    <3>3. CASE /\ Take(c, {IF op[c][o].kind = "inc" THEN "INC" ELSE "TOTAL"}) \/ TakeAgain(c)
               /\ ExtBecomes(c, [ext[c] EXCEPT !.acquired = TRUE])
               /\ OpBecomes(c, o, [op[c][o] EXCEPT !.pc = "begin"])
      BY <2>3, <3>3 DEF OpBecomes, ExtBecomes, OthersOp, OthersExt, OpRec, ExtRec
    <3>4. QED
      BY <2>1, <3>1, <3>2, <3>3 DEF StartAcquireDoes
  <2>5. DataTypeOK' /\ BackendTypeOK' /\ ConnTypeOK'
    BY <2>2, Types DEF AccessInv, DataTypeOK, BackendTypeOK, ConnTypeOK
  <2>6. ReplicaTypeOK'
    <3> DEFINE kind == {IF op[c][o].kind = "inc" THEN "INC" ELSE "TOTAL"}
    <3>1. kind \in {{}, {"INC"}, {"TOTAL"}}
      OBVIOUS
    <3> HIDE DEF kind
    <3>2. CASE UNCHANGED replica
      BY <3>2, Types DEF replica, ReplicaTypeOK
    <3>3. CASE Refused(c)
      BY <3>3, RefusedEffect
    <3>4. CASE Take(c, kind)
      BY <3>1, <3>4, TakeEffect
    <3>5. CASE TakeAgain(c)
      BY <3>5, Types DEF TakeAgain, replica, ReplicaTypeOK
    <3>6. QED
      BY <2>4, <3>2, <3>3, <3>4, <3>5 DEF kind
  <2>7. (ext' \in ExtType /\ op' \in OpType /\ sup' \in SupType)
    BY <2>1, <2>2, <2>3, Types DEF StartAcquireDoes, AccessInv, OpBecomes, ExtBecomes,
         replica
  <2>8. ExtUser'
    <3>1. UsesExt(c, o)
      BY <2>2 DEF UsesExt, TakenPcs
    <3>2. ext[c].user = o
      BY <3>1 DEF AccessInv, ExtUser
    <3>3. QED
      BY <2>4, <3>2, ExtUserStep DEF AccessInv
  <2>9. ImportMeans'
    BY <2>2, <2>4, ImportStep DEF AccessInv
  <2>10. Quiet'
    BY <2>2, <2>4, QuietStep DEF AccessInv, Free
  <2>11. FlagsShape'
    <3> DEFINE kind == {IF op[c][o].kind = "inc" THEN "INC" ELSE "TOTAL"}
    <3>1. kind \in {{}, {"INC"}, {"TOTAL"}}
      OBVIOUS
    <3> HIDE DEF kind
    <3>2. CASE UNCHANGED replica
      BY <3>2 DEF replica, FlagsShape, InUse
    <3>3. CASE Refused(c)
      BY <3>3, RefusedEffect DEF FlagsShape, InUse
    <3>4. CASE Take(c, kind)
      BY <3>1, <3>4, TakeEffect
    <3>5. CASE TakeAgain(c)
      BY <3>5 DEF TakeAgain, replica, FlagsShape, InUse
    <3>6. QED
      BY <2>4, <3>2, <3>3, <3>4, <3>5 DEF kind
  <2>12. OneKind'
    <3>1. OthersSup(c)
      BY <2>2, Types DEF OthersSup
    <3>2. sup[c].kind = "none" => sup[c].st \in {"idle", "gone"}
      BY DEF AccessInv, OneKind
    <3>3. ~Free(c, o) => op[c][o].kind = sup[c].kind /\ (op[c][o].pc = "update" => op[c][o].kind = "inc")
      BY DEF AccessInv, OneKind
    <3>4. QED
      BY <2>2, <2>4, <3>1, <3>2, <3>3, OneKindStep DEF AccessInv, Free
  <2>13. HeldBy'
    <3> DEFINE kind == {IF op[c][o].kind = "inc" THEN "INC" ELSE "TOTAL"}
    <3>1. kind \in {{}, {"INC"}, {"TOTAL"}}
      OBVIOUS
    <3> HIDE DEF kind
    <3>2. CASE UNCHANGED replica /\ ext'[c] = ext[c]
      BY <2>2, <2>4, <3>2, HeldByStep DEF AccessInv, replica, OthersExt, InUse
    <3>3. CASE Refused(c) /\ ext'[c] = ext[c]
      BY <2>2, <2>4, <3>3, RefusedEffect, HeldByStep DEF AccessInv, OthersExt, InUse
    <3>4. CASE Take(c, kind) /\ ext'[c].acquired
      BY <3>1, <3>4, TakeEffect, SessionAssumption DEF HeldBy
    <3>5. CASE TakeAgain(c) /\ ext'[c].acquired
      BY <3>5, SessionAssumption DEF TakeAgain, replica, HeldBy
    <3>6. QED
      BY <2>4, <3>2, <3>3, <3>4, <3>5 DEF kind
  <2>14. QED
    BY <2>5, <2>6, <2>7, <2>8, <2>9, <2>10, <2>11, <2>12, <2>13 DEF AccessInv, TypeOK, OpType, ExtType, SupType
<1>4. ASSUME NEW c \in Conns, NEW o \in Slots, StartBegin(c, o) PROVE AccessInv'
  <2>1. StartBeginDoes(c, o)
    BY <1>4, StartBeginEffect
  <2>2. /\ op[c][o].pc = "begin"
        /\ UNCHANGED <<flags, locker, abort, enabled, offline, partial, task, conn, sup, requests, upset>>
    BY <1>4 DEF StartBegin, replica
  <2>3. op[c][o] \in OpRec /\ ext[c] \in ExtRec /\ sup[c] \in SupRec
    BY Types
  <2>4. /\ OthersOp(c, o) /\ OthersExt(c)
        /\ op'[c][o].pc \in {"disable", "reply"} /\ op'[c][o].kind = op[c][o].kind
        /\ ext'[c].user = ext[c].user /\ ext'[c].version = ext[c].version
        /\ ext'[c].acquired = ext[c].acquired
        /\ \/ op'[c][o].pc = "reply" /\ UNCHANGED import
           \/ ext[c].version = "total" /\ import = "nobody" /\ import' = c
    <3>1. CASE /\ ext[c].version = "inc" /\ UNCHANGED import
               /\ OpBecomes(c, o, [op[c][o] EXCEPT !.pc = "reply", !.resp = "READY"])
               /\ ExtBecomes(c, [ext[c] EXCEPT !.session = TRUE])
      BY <2>3, <3>1 DEF OpBecomes, ExtBecomes, OthersOp, OthersExt, OpRec, ExtRec
    <3>2. CASE /\ ext[c].version = "total" /\ import = "nobody" /\ import' = c /\ UNCHANGED ext
               /\ OpBecomes(c, o, [op[c][o] EXCEPT !.pc = "disable"])
      BY <2>3, <3>2, Types DEF OpBecomes, OthersOp, OthersExt, OpRec
    <3>3. CASE /\ OpBecomes(c, o, [op[c][o] EXCEPT !.pc = "reply", !.resp = "ERROR"])
               /\ UNCHANGED <<ext, import>>
      BY <2>3, <3>3, Types DEF OpBecomes, OthersOp, OthersExt, OpRec
    <3>4. QED
      BY <2>1, <3>1, <3>2, <3>3 DEF StartBeginDoes
  <2>5. ReplicaTypeOK' /\ FlagsShape'
    BY <2>2, Types DEF AccessInv, ReplicaTypeOK, FlagsShape, InUse
  <2>6. DataTypeOK'
    BY <2>1, <2>2, <2>3, Types DEF StartBeginDoes, AccessInv, DataTypeOK
  <2>7. BackendTypeOK'
    BY <2>1, <2>2, <2>3, Types, SessionAssumption DEF StartBeginDoes, AccessInv,
         BackendTypeOK
  <2>8. ConnTypeOK'
    BY <2>1, <2>2, <2>3, Types DEF StartBeginDoes, AccessInv, ConnTypeOK
  <2>9. (ext' \in ExtType /\ op' \in OpType /\ sup' \in SupType)
    BY <2>1, <2>2, <2>3, Types DEF StartBeginDoes, AccessInv, OpBecomes, ExtBecomes
  <2>10. ExtUser'
    <3>1. UsesExt(c, o)
      BY <2>2 DEF UsesExt, TakenPcs
    <3>2. ext[c].user = o
      BY <3>1 DEF AccessInv, ExtUser
    <3>3. QED
      BY <2>4, <3>2, ExtUserStep DEF AccessInv
  <2>11. ImportMeans'
    <3>1. CASE UNCHANGED import /\ op'[c][o].pc = "reply"
      BY <2>2, <2>4, <3>1, ImportStep DEF AccessInv
    <3>2. CASE import = "nobody" /\ import' = c
      <4>1. task = "none" /\ \A d \in Conns, p \in Slots : op[d][p].pc # "disable"
        BY <3>2, SessionAssumption DEF AccessInv, ImportMeans
      <4>2. QED
        BY <2>2, <2>4, <3>2, <4>1 DEF ImportMeans, OthersOp
    <3>3. QED
      BY <2>4, <3>1, <3>2
  <2>12. Quiet'
    BY <2>2, <2>4, QuietStep DEF AccessInv, Free
  <2>13. OneKind'
    <3>1. OthersSup(c)
      BY <2>2, Types DEF OthersSup
    <3>2. sup[c].kind = "none" => sup[c].st \in {"idle", "gone"}
      BY DEF AccessInv, OneKind
    <3>3. ~Free(c, o) => op[c][o].kind = sup[c].kind /\ (op[c][o].pc = "update" => op[c][o].kind = "inc")
      BY DEF AccessInv, OneKind
    <3>4. ext[c].version = "total" => sup[c].kind = "total"
      BY DEF AccessInv, OneKind
    <3>5. QED
      BY <3>4, <2>2, <2>4, <3>1, <3>2, <3>3, OneKindStep DEF AccessInv, Free
  <2>14. HeldBy'
    BY <2>2, <2>4, SessionAssumption, HeldByStep DEF AccessInv, OthersExt, InUse
  <2>15. QED
    BY <2>5, <2>6, <2>7, <2>8, <2>9, <2>10, <2>11, <2>12, <2>13, <2>14 DEF AccessInv, TypeOK, OpType, ExtType, SupType
<1>5. ASSUME NEW c \in Conns, NEW o \in Slots, StartDisable(c, o) PROVE AccessInv'
  <2>1. StartDisableDoes(c, o)
    BY <1>5, StartDisableEffect
  <2>2. /\ op[c][o].pc = "disable"
        /\ UNCHANGED <<reapStop, task, conn, sup, requests, upset>>
    BY <1>5 DEF StartDisable
  <2>3. op[c][o] \in OpRec /\ ext[c] \in ExtRec /\ sup[c] \in SupRec
    BY Types
  <2>4. /\ OthersOp(c, o) /\ OthersExt(c)
        /\ op'[c][o].pc \in {"disable", "reply"} /\ op'[c][o].kind = op[c][o].kind
        /\ ext'[c].user = ext[c].user /\ ext'[c].version = ext[c].version
        /\ ext'[c].acquired = ext[c].acquired
        /\ DisableWaits \/ DisableReplication
        /\ \/ UNCHANGED import
           \/ import' = "nobody" /\ op'[c][o].pc = "reply"
    <3>1. CASE DisableWaits /\ UNCHANGED <<import, op, ext>>
      BY <2>2, <3>1, Types DEF OthersOp, OthersExt
    <3>2. CASE /\ DisableReplication /\ UNCHANGED import
               /\ OpBecomes(c, o, [op[c][o] EXCEPT !.pc = "reply", !.resp = "READY"])
               /\ ExtBecomes(c, [ext[c] EXCEPT !.session = TRUE])
      BY <2>3, <3>2 DEF OpBecomes, ExtBecomes, OthersOp, OthersExt, OpRec, ExtRec
    <3>3. CASE /\ DisableReplication /\ import' = "nobody" /\ UNCHANGED ext
               /\ OpBecomes(c, o, [op[c][o] EXCEPT !.pc = "reply", !.resp = "ERROR"])
      BY <2>3, <3>3, Types DEF OpBecomes, OthersOp, OthersExt, OpRec
    <3>4. QED
      BY <2>1, <3>1, <3>2, <3>3 DEF StartDisableDoes
  <2>5. ReplicaTypeOK'
    BY <2>1, <2>2, <2>3, DisableEffect, DisableWaitsEffect, Types DEF StartDisableDoes,
         AccessInv, ReplicaTypeOK
  <2>6. DataTypeOK'
    BY <2>1, <2>2, <2>3, DisableEffect, DisableWaitsEffect, Types DEF StartDisableDoes,
         AccessInv, DataTypeOK
  <2>7. BackendTypeOK'
    BY <2>1, <2>2, <2>3, DisableEffect, DisableWaitsEffect, Types, SessionAssumption DEF
         StartDisableDoes, AccessInv, BackendTypeOK
  <2>8. ConnTypeOK'
    BY <2>1, <2>2, <2>3, Types DEF StartDisableDoes, AccessInv, ConnTypeOK
  <2>9. (ext' \in ExtType /\ op' \in OpType /\ sup' \in SupType)
    BY <2>1, <2>2, <2>3, Types DEF StartDisableDoes, AccessInv, OpBecomes, ExtBecomes
  <2>10. ExtUser'
    <3>1. UsesExt(c, o)
      BY <2>2 DEF UsesExt, TakenPcs
    <3>2. ext[c].user = o
      BY <3>1 DEF AccessInv, ExtUser
    <3>3. QED
      BY <2>4, <3>2, ExtUserStep DEF AccessInv
  <2>11. ImportMeans'
    <3>1. import = c /\ task = "none"
      BY <2>2, SessionAssumption DEF AccessInv, ImportMeans
    <3>2. ASSUME NEW d \in Conns, NEW p \in Slots, op[d][p].pc = "disable" PROVE d = c /\ p = o
      <4>1. d = c
        BY <3>1, <3>2 DEF AccessInv, ImportMeans
      <4>2. ext[c].user = p /\ ext[c].user = o
        BY <2>2, <3>2, <4>1 DEF AccessInv, ExtUser, UsesExt, TakenPcs
      <4>3. QED
        BY <4>1, <4>2
    <3>3. CASE UNCHANGED import
      BY <2>2, <2>4, <3>1, <3>2, <3>3 DEF ImportMeans, OthersOp
    <3>4. CASE import' = "nobody" /\ op'[c][o].pc = "reply"
      BY <2>2, <2>4, <3>1, <3>2, <3>4 DEF ImportMeans, OthersOp
    <3>5. QED
      BY <2>4, <3>3, <3>4
  <2>12. Quiet'
    BY <2>1, <2>2, <2>3, Types DEF StartDisableDoes, AccessInv, OpBecomes, Quiet,
         Running, Free, OpRec
  <2>13. FlagsShape'
    BY <2>1, <2>2, <2>3, DisableEffect, DisableWaitsEffect, Types DEF StartDisableDoes,
         AccessInv, FlagsShape, InUse
  <2>14. OneKind'
    <3>1. OthersSup(c)
      BY <2>2, Types DEF OthersSup
    <3>2. sup[c].kind = "none" => sup[c].st \in {"idle", "gone"}
      BY DEF AccessInv, OneKind
    <3>3. ~Free(c, o) => op[c][o].kind = sup[c].kind /\ (op[c][o].pc = "update" => op[c][o].kind = "inc")
      BY DEF AccessInv, OneKind
    <3>4. QED
      BY <2>2, <2>4, <3>1, <3>2, <3>3, OneKindStep DEF AccessInv, Free
  <2>15. HeldBy'
    <3>1. offline' = TRUE
      BY <2>4, DisableEffect, DisableWaitsEffect
    <3>2. CASE InUse /\ UNCHANGED <<flags, locker>>
      BY <2>2, <2>4, <3>1, <3>2, HeldByStep DEF AccessInv, OthersExt, InUse
    <3>3. CASE InUse' /\ locker' = "server"
      BY <3>1, <3>3 DEF HeldBy
    <3>4. QED
      BY <2>4, <3>2, <3>3, DisableEffect, DisableWaitsEffect
  <2>16. QED
    BY <2>5, <2>6, <2>7, <2>8, <2>9, <2>10, <2>11, <2>12, <2>13, <2>14, <2>15 DEF AccessInv, TypeOK, OpType, ExtType, SupType
<1>6. ASSUME NEW c \in Conns, NEW o \in Slots, StartReply(c, o) PROVE AccessInv'
  <2>1. StartReplyDoes(c, o)
    BY <1>6, StartReplyEffect
  <2>2. /\ op[c][o].pc = "reply"
        /\ flags' = IF Marked(c, o) THEN flags \ {"TOTAL_EXCL_RECV"} ELSE flags
        /\ reapStop' = (reapStop /\ ~(op[c][o].resp # "READY" /\ op[c][o].replica))
        /\ UNCHANGED <<locker, abort, enabled, offline, partial, import, task, flagged, conn, requests>>
    BY <1>6 DEF StartReply, backend
  <2>3. op[c][o] \in OpRec /\ ext[c] \in ExtRec /\ sup[c] \in SupRec
    BY Types
  <2>4. ConnTypeOK'
    BY <2>2, Types DEF AccessInv, ConnTypeOK
  <2>5. ReplicaTypeOK'
    BY <2>1, <2>2, <2>3, Types DEF StartReplyDoes, AccessInv, ReplicaTypeOK
  <2>6. DataTypeOK'
    BY <2>1, <2>2, <2>3, Types DEF StartReplyDoes, AccessInv, DataTypeOK
  <2>7. BackendTypeOK'
    BY <2>1, <2>2, <2>3, Types, SessionAssumption DEF StartReplyDoes, AccessInv,
         BackendTypeOK
  <2>8. (ext' \in ExtType /\ op' \in OpType /\ sup' \in SupType)
    BY <2>1, <2>2, <2>3, Types DEF StartReplyDoes, AccessInv, OpBecomes, ExtBecomes,
         SupBecomes, Idle
  <2>9. ExtUser'
    BY <2>1, <2>2, <2>3, Types DEF StartReplyDoes, AccessInv, OpBecomes, ExtBecomes,
         ExtUser, UsesExt, TakenPcs, OpRec, ExtRec, Idle
  <2>10. ImportMeans'
    BY <2>1, <2>2, <2>3, Types, SessionAssumption DEF StartReplyDoes, AccessInv,
         OpBecomes, ImportMeans, OpRec, Idle
  <2>11. Quiet'
    BY <2>1, <2>2, <2>3, Types DEF StartReplyDoes, AccessInv, OpBecomes, Quiet, Running,
         Free, OpRec, Idle
  <2>12. FlagsShape'
    BY <2>1, <2>2, <2>3, Types DEF StartReplyDoes, AccessInv, FlagsShape, InUse
  <2>13. OneKind'
    BY <2>1, <2>2, <2>3, Types, SessionAssumption DEF StartReplyDoes, AccessInv,
         OpBecomes, ExtBecomes, SupBecomes, OneKind, Free, OpRec, ExtRec, SupRec, Idle
  <2>14. HeldBy'
    <3>1. OthersExt(c) /\ ext'[c].acquired = ext[c].acquired
      BY <2>1, <2>3 DEF StartReplyDoes, OthersExt, ExtRec
    <3>2. QED
      BY <2>2, <3>1, HeldByStep DEF AccessInv, OthersExt, InUse
  <2>15. QED
    BY <2>4, <2>5, <2>6, <2>7, <2>8, <2>9, <2>10, <2>11, <2>12, <2>13, <2>14 DEF AccessInv, TypeOK, OpType, ExtType, SupType
<1>7. ASSUME NEW c \in Conns, NEW o \in Slots, StartCleanup(c, o) PROVE AccessInv'
  <2>1. StartCleanupDoes(c, o)
    BY <1>7, StartCleanupEffect
  <2>2. /\ op[c][o].pc = "cleanup"
        /\ flags' = IF op[c][o].connext /\ ext[c].acquired /\ locker = c THEN Freed ELSE flags
        /\ UNCHANGED <<locker, abort, reapStop, enabled, offline, partial, import, task, sup, requests, upset>>
    BY <1>7 DEF StartCleanup, data, backend
  <2>3. op[c][o] \in OpRec /\ ext[c] \in ExtRec /\ sup[c] \in SupRec
    BY Types
  <2>4. /\ OthersOp(c, o) /\ op'[c][o].pc = "free" /\ OthersExt(c) /\ ext'[c].user = ext[c].user
        /\ ext'[c].version \in {"unknown", ext[c].version}
        /\ IF op[c][o].connext THEN ext'[c].acquired = (ext[c].acquired /\ locker # c)
                               ELSE ext'[c].acquired = ext[c].acquired
    <3>1. OthersOp(c, o) /\ op'[c][o].pc = "free"
      BY <2>1 DEF StartCleanupDoes, OpBecomes, OthersOp, Idle
    <3>2. CASE op[c][o].connext
      BY <2>1, <2>3, <3>1, <3>2 DEF StartCleanupDoes, ExtBecomes, OthersExt, ExtRec
    <3>3. CASE ~op[c][o].connext
      BY <2>1, <2>3, <3>1, <3>3, Types DEF StartCleanupDoes, OthersExt
    <3>4. QED
      BY <3>2, <3>3
  <2>5. DataTypeOK' /\ BackendTypeOK'
    BY <2>2, Types DEF AccessInv, DataTypeOK, BackendTypeOK
  <2>6. ReplicaTypeOK'
    BY <2>1, <2>2, <2>3, FreedEffect, Types DEF StartCleanupDoes, AccessInv,
         ReplicaTypeOK
  <2>7. ConnTypeOK'
    BY <2>1, <2>2, <2>3, DisconnectEffect, Types DEF StartCleanupDoes, AccessInv,
         ConnTypeOK
  <2>8. (ext' \in ExtType /\ op' \in OpType /\ sup' \in SupType)
    BY <2>1, <2>2, <2>3, Types DEF StartCleanupDoes, AccessInv, OpBecomes, ExtBecomes,
         Idle
  <2>9. ExtUser'
    BY <2>4, ExtUserStep DEF AccessInv, UsesExt, TakenPcs
  <2>10. ImportMeans'
    BY <2>1, <2>2, <2>3, Types, SessionAssumption DEF StartCleanupDoes, AccessInv,
         OpBecomes, ImportMeans, OpRec, Idle
  <2>11. Quiet'
    BY <2>1, <2>2, <2>3, DisconnectEffect, Types DEF StartCleanupDoes, AccessInv,
         OpBecomes, Quiet, Running, Free, OpRec, Idle
  <2>12. FlagsShape'
    BY <2>1, <2>2, <2>3, FreedEffect, Types DEF StartCleanupDoes, AccessInv, FlagsShape,
         InUse
  <2>13. OneKind'
    <3>1. OthersSup(c)
      BY <2>2, Types DEF OthersSup
    <3>2. sup[c].kind = "none" => sup[c].st \in {"idle", "gone"}
      BY DEF AccessInv, OneKind
    <3>3. ~Free(c, o) => op[c][o].kind = sup[c].kind /\ (op[c][o].pc = "update" => op[c][o].kind = "inc")
      BY DEF AccessInv, OneKind
    <3>4. QED
      BY <2>2, <2>4, <3>1, <3>2, <3>3, OneKindStep DEF AccessInv, Free
  <2>14. HeldBy'
    <3>1. CASE op[c][o].connext /\ ext[c].acquired /\ locker = c
      BY <2>2, <3>1, Types, FreedEffect DEF HeldBy, InUse
    <3>2. CASE ~(op[c][o].connext /\ ext[c].acquired /\ locker = c)
      BY <2>2, <2>4, <3>2, HeldByStep DEF AccessInv, OthersExt, InUse
    <3>3. QED
      BY <3>1, <3>2
  <2>15. QED
    BY <2>5, <2>6, <2>7, <2>8, <2>9, <2>10, <2>11, <2>12, <2>13, <2>14 DEF AccessInv, TypeOK, OpType, ExtType, SupType
<1>8. ASSUME NEW c \in Conns, NEW o \in Slots, EndConnext(c, o) PROVE AccessInv'
  <2>1. EndConnextDoes(c, o)
    BY <1>8, EndConnextEffect
  <2>2. /\ op[c][o].pc = "end"
        /\ UNCHANGED <<locker, abort, reapStop, enabled, offline, partial, import, task, flagged, conn, requests, upset>>
    BY <1>8 DEF EndConnext, data, backend
  <2>3. op[c][o] \in OpRec /\ ext[c] \in ExtRec /\ sup[c] \in SupRec
    BY Types
  <2>4. /\ OthersOp(c, o) /\ OthersExt(c) /\ op'[c][o].pc \in {"free", "stop", "release"}
        /\ op'[c][o].pc # "free" => ext[c].user = NoSlot /\ ext'[c].user = o
        /\ op'[c][o].pc = "free" => ext'[c].user = ext[c].user
        /\ ext'[c].acquired = ext[c].acquired /\ flags' \in {flags, flags \ {"TOTAL"}}
    <3>1. CASE /\ ext[c].user = NoSlot /\ ExtBecomes(c, [ext[c] EXCEPT !.user = o])
               /\ \/ /\ flags' = flags \ {"TOTAL"}
                     /\ OpBecomes(c, o, [op[c][o] EXCEPT !.pc = "stop"])
                  \/ /\ UNCHANGED flags
                     /\ OpBecomes(c, o, [op[c][o] EXCEPT !.pc = "release"])
      BY <2>3, <3>1 DEF OpBecomes, ExtBecomes, OthersOp, OthersExt, OpRec, ExtRec
    <3>2. CASE OpBecomes(c, o, Idle) /\ UNCHANGED <<ext, flags>>
      BY <3>2, Types DEF OpBecomes, OthersOp, OthersExt, Idle
    <3>3. QED
      BY <2>1, <3>1, <3>2 DEF EndConnextDoes
  <2>5. DataTypeOK' /\ BackendTypeOK' /\ ConnTypeOK'
    BY <2>2, Types DEF AccessInv, DataTypeOK, BackendTypeOK, ConnTypeOK
  <2>6. ReplicaTypeOK'
    BY <2>1, <2>2, <2>3, Types DEF EndConnextDoes, AccessInv, ReplicaTypeOK
  <2>7. (ext' \in ExtType /\ op' \in OpType /\ sup' \in SupType)
    BY <2>1, <2>2, <2>3, Types DEF EndConnextDoes, AccessInv, OpBecomes, ExtBecomes,
         SupBecomes, Idle
  <2>8. ExtUser'
    BY <2>4, ExtUserStep DEF AccessInv, UsesExt, TakenPcs
  <2>9. ImportMeans'
    BY <2>1, <2>2, <2>3, Types, SessionAssumption DEF EndConnextDoes, AccessInv,
         OpBecomes, ImportMeans, OpRec, Idle
  <2>10. Quiet'
    BY <2>1, <2>2, <2>3, Types DEF EndConnextDoes, AccessInv, OpBecomes, Quiet, Running,
         Free, OpRec, Idle
  <2>11. FlagsShape'
    BY <2>1, <2>2, <2>3, Types DEF EndConnextDoes, AccessInv, FlagsShape, InUse
  <2>12. OneKind'
    BY <2>1, <2>2, <2>3, Types, SessionAssumption DEF EndConnextDoes, AccessInv,
         OpBecomes, ExtBecomes, SupBecomes, OneKind, Free, OpRec, ExtRec, SupRec, Idle
  <2>13. HeldBy'
    BY <2>2, <2>4, HeldByStep DEF AccessInv, OthersExt, InUse
  <2>14. QED
    BY <2>5, <2>6, <2>7, <2>8, <2>9, <2>10, <2>11, <2>12, <2>13 DEF AccessInv, TypeOK, OpType, ExtType, SupType
<1>9. ASSUME NEW c \in Conns, NEW o \in Slots, EndStop(c, o) PROVE AccessInv'
  <2>1. EndStopDoes(c, o)
    BY <1>9, EndStopEffect
  <2>2. /\ op[c][o].pc = "stop"
        /\ \/ /\ import = c /\ EnableReplication(c) /\ import' = "nobody" /\ partial' = FALSE
           \/ import # c /\ UNCHANGED <<replica, enabled, offline, import, partial, upset>>
        /\ UNCHANGED <<reapStop, task, ext, flagged, conn, sup, requests>>
    BY <1>9 DEF EndStop, replica
  <2>3. op[c][o] \in OpRec /\ ext[c] \in ExtRec /\ sup[c] \in SupRec
    BY Types
  <2>4. ConnTypeOK'
    BY <2>2, Types DEF AccessInv, ConnTypeOK
  <2>5. ReplicaTypeOK'
    BY <2>1, <2>2, <2>3, RelinquishEffect, Types DEF EndStopDoes, AccessInv,
         ReplicaTypeOK, replica, EnableReplication
  <2>6. DataTypeOK'
    BY <2>1, <2>2, <2>3, RelinquishEffect, Types DEF EndStopDoes, AccessInv, DataTypeOK,
         replica, EnableReplication
  <2>7. BackendTypeOK'
    BY <2>1, <2>2, <2>3, RelinquishEffect, Types, SessionAssumption DEF EndStopDoes,
         AccessInv, BackendTypeOK, replica, EnableReplication
  <2>8. (ext' \in ExtType /\ op' \in OpType /\ sup' \in SupType)
    BY <2>1, <2>2, <2>3, Types DEF EndStopDoes, AccessInv, OpBecomes, replica
  <2>9. ExtUser'
    BY <2>1, <2>2, <2>3, Types DEF EndStopDoes, AccessInv, OpBecomes, ExtUser, UsesExt,
         TakenPcs, replica, OpRec
  <2>10. ImportMeans'
    <3>1. OthersOp(c, o) /\ op'[c][o].pc = "install"
      BY <2>1, <2>3 DEF EndStopDoes, OpBecomes, OthersOp, OpRec
    <3>2. CASE import # c
      BY <2>2, <3>1, <3>2, ImportStep DEF AccessInv
    <3>3. CASE import = c
      <4>1. ASSUME NEW d \in Conns, NEW p \in Slots, op[d][p].pc = "disable" PROVE d = c /\ p = o
        <5>1. d = c
          BY <3>3, <4>1 DEF AccessInv, ImportMeans
        <5>2. ext[c].user = p /\ ext[c].user = o
          BY <2>2, <4>1, <5>1 DEF AccessInv, ExtUser, UsesExt, TakenPcs
        <5>3. QED
          BY <5>1, <5>2
      <4>2. task = "none"
        BY <3>3, SessionAssumption DEF AccessInv, ImportMeans
      <4>3. QED
        BY <2>2, <3>1, <4>1, <4>2 DEF ImportMeans, OthersOp
    <3>4. QED
      BY <3>2, <3>3
  <2>11. Quiet'
    BY <2>1, <2>2, <2>3, Types DEF EndStopDoes, AccessInv, OpBecomes, Quiet, Running,
         Free, replica, OpRec
  <2>12. FlagsShape'
    BY <2>1, <2>2, <2>3, RelinquishEffect, Types DEF EndStopDoes, AccessInv, FlagsShape,
         InUse, replica, EnableReplication
  <2>13. OneKind'
    BY <2>1, <2>2, <2>3, Types, SessionAssumption DEF EndStopDoes, AccessInv, OpBecomes,
         OneKind, Free, replica, OpRec
  <2>14. HeldBy'
    BY <2>1, <2>2, <2>3, RelinquishEffect, Types, SessionAssumption DEF EndStopDoes,
         AccessInv, HeldBy, InUse, replica, EnableReplication
  <2>15. QED
    BY <2>4, <2>5, <2>6, <2>7, <2>8, <2>9, <2>10, <2>11, <2>12, <2>13, <2>14 DEF AccessInv, TypeOK, OpType, ExtType, SupType
<1>10. ASSUME NEW c \in Conns, NEW o \in Slots, EndInstall(c, o) PROVE AccessInv'
  <2>1. EndInstallDoes(c, o)
    BY <1>10, EndInstallEffect
  <2>2. /\ op[c][o].pc = "install" /\ reapStop' = FALSE
        /\ UNCHANGED <<flags, locker, abort, enabled, offline, partial, import, task, ext, flagged, conn, sup, requests, upset>>
    BY <1>10 DEF EndInstall, replica, backend
  <2>3. op[c][o] \in OpRec /\ ext[c] \in ExtRec /\ sup[c] \in SupRec
    BY Types
  <2>4. ReplicaTypeOK' /\ BackendTypeOK' /\ ConnTypeOK' /\ FlagsShape' /\ HeldBy'
    BY <2>2, Types DEF AccessInv, ReplicaTypeOK, BackendTypeOK, ConnTypeOK, FlagsShape,
         InUse, HeldBy
  <2>5. DataTypeOK'
    BY <2>1, <2>2, <2>3, Types DEF EndInstallDoes, AccessInv, DataTypeOK
  <2>6. (ext' \in ExtType /\ op' \in OpType /\ sup' \in SupType)
    BY <2>1, <2>2, <2>3, Types DEF EndInstallDoes, AccessInv, OpBecomes
  <2>7. ExtUser'
    BY <2>1, <2>2, <2>3, Types DEF EndInstallDoes, AccessInv, OpBecomes, ExtUser,
         UsesExt, TakenPcs, OpRec
  <2>8. ImportMeans'
    BY <2>1, <2>2, <2>3, Types, SessionAssumption DEF EndInstallDoes, AccessInv,
         OpBecomes, ImportMeans, OpRec
  <2>9. Quiet'
    BY <2>1, <2>2, <2>3, Types DEF EndInstallDoes, AccessInv, OpBecomes, Quiet, Running,
         Free, OpRec
  <2>10. OneKind'
    BY <2>1, <2>2, <2>3, Types, SessionAssumption DEF EndInstallDoes, AccessInv,
         OpBecomes, OneKind, Free, OpRec
  <2>11. QED
    BY <2>4, <2>5, <2>6, <2>7, <2>8, <2>9, <2>10 DEF AccessInv, TypeOK, OpType, ExtType, SupType
<1>11. ASSUME NEW c \in Conns, NEW o \in Slots, EndRelease(c, o) PROVE AccessInv'
  <2>1. EndReleaseDoes(c, o)
    BY <1>11, EndReleaseEffect
  <2>2. /\ op[c][o].pc = "release" /\ Relinquish(c)
        /\ UNCHANGED <<reapStop, enabled, offline, partial, import, task, conn, requests>>
    BY <1>11 DEF EndRelease, data, backend
  <2>3. op[c][o] \in OpRec /\ ext[c] \in ExtRec /\ sup[c] \in SupRec
    BY Types
  <2>4. /\ OthersOp(c, o) /\ op'[c][o].pc = "free" /\ OthersExt(c)
        /\ ext'[c].version = ext[c].version /\ ~ext'[c].acquired /\ ext'[c].user = NoSlot
        /\ OthersSup(c) /\ sup'[c].kind = sup[c].kind /\ sup'[c].st \in {"idle", sup[c].st}
    <3>1. OthersOp(c, o) /\ op'[c][o].pc = "free"
      BY <2>1 DEF EndReleaseDoes, OpBecomes, OthersOp, Idle
    <3>2. OthersExt(c) /\ ext'[c].version = ext[c].version /\ ~ext'[c].acquired /\ ext'[c].user = NoSlot
      BY <2>1, <2>3 DEF EndReleaseDoes, ExtBecomes, OthersExt, ExtRec
    <3>3. OthersSup(c) /\ sup'[c].kind = sup[c].kind /\ sup'[c].st \in {"idle", sup[c].st}
      BY <2>1, <2>3 DEF EndReleaseDoes, SupBecomes, OthersSup, SupRec
    <3>4. QED
      BY <3>1, <3>2, <3>3
  <2>5. DataTypeOK'
    BY <2>2, Types DEF AccessInv, DataTypeOK
  <2>6. ReplicaTypeOK'
    BY <2>1, <2>2, <2>3, RelinquishEffect, Types DEF EndReleaseDoes, AccessInv,
         ReplicaTypeOK
  <2>7. BackendTypeOK'
    BY <2>1, <2>2, <2>3, RelinquishEffect, Types, SessionAssumption DEF EndReleaseDoes,
         AccessInv, BackendTypeOK
  <2>8. ConnTypeOK'
    BY <2>1, <2>2, <2>3, Types DEF EndReleaseDoes, AccessInv, ConnTypeOK
  <2>9. (ext' \in ExtType /\ op' \in OpType /\ sup' \in SupType)
    BY <2>1, <2>2, <2>3, Types DEF EndReleaseDoes, AccessInv, OpBecomes, ExtBecomes,
         SupBecomes, Idle
  <2>10. ExtUser'
    BY <2>1, <2>2, <2>3, Types DEF EndReleaseDoes, AccessInv, OpBecomes, ExtBecomes,
         ExtUser, UsesExt, TakenPcs, OpRec, ExtRec, Idle
  <2>11. ImportMeans'
    BY <2>1, <2>2, <2>3, Types, SessionAssumption DEF EndReleaseDoes, AccessInv,
         OpBecomes, ImportMeans, OpRec, Idle
  <2>12. Quiet'
    BY <2>1, <2>2, <2>3, Types DEF EndReleaseDoes, AccessInv, OpBecomes, Quiet, Running,
         Free, OpRec, Idle
  <2>13. FlagsShape'
    BY <2>1, <2>2, <2>3, RelinquishEffect, Types DEF EndReleaseDoes, AccessInv,
         FlagsShape, InUse
  <2>14. OneKind'
    <3>1. OthersSup(c)
      BY <2>4
    <3>2. sup[c].kind = "none" => sup[c].st \in {"idle", "gone"}
      BY DEF AccessInv, OneKind
    <3>3. ~Free(c, o) => op[c][o].kind = sup[c].kind /\ (op[c][o].pc = "update" => op[c][o].kind = "inc")
      BY DEF AccessInv, OneKind
    <3>4. QED
      BY <2>2, <2>4, <3>1, <3>2, <3>3, OneKindStep DEF AccessInv, Free
  <2>15. HeldBy'
    BY <2>1, <2>2, <2>3, RelinquishEffect, Types, SessionAssumption DEF EndReleaseDoes,
         AccessInv, ExtBecomes, HeldBy, InUse, ExtRec
  <2>16. QED
    BY <2>5, <2>6, <2>7, <2>8, <2>9, <2>10, <2>11, <2>12, <2>13, <2>14, <2>15 DEF AccessInv, TypeOK, OpType, ExtType, SupType
<1>12. ASSUME NEW c \in Conns, NEW o \in Slots, UpdateApplied(c, o) PROVE AccessInv'
  <2>1. UpdateAppliedDoes(c, o)
    BY <1>12, UpdateAppliedEffect
  <2>2. /\ op[c][o].pc = "update" /\ abort' \in {"sent", abort}
        /\ UNCHANGED <<flags, locker, reapStop, enabled, offline, partial, import, task, ext, flagged, conn, requests, upset>>
    BY <1>12 DEF UpdateApplied, data, backend
  <2>3. op[c][o] \in OpRec /\ ext[c] \in ExtRec /\ sup[c] \in SupRec
    BY Types
  <2>4. DataTypeOK' /\ BackendTypeOK' /\ ConnTypeOK' /\ FlagsShape' /\ HeldBy'
    BY <2>2, Types DEF AccessInv, DataTypeOK, BackendTypeOK, ConnTypeOK, FlagsShape,
         InUse, HeldBy
  <2>5. ReplicaTypeOK'
    BY <2>1, <2>2, <2>3, Types DEF UpdateAppliedDoes, AccessInv, ReplicaTypeOK
  <2>6. (ext' \in ExtType /\ op' \in OpType /\ sup' \in SupType)
    BY <2>1, <2>2, <2>3, Types DEF UpdateAppliedDoes, AccessInv, OpBecomes, SupBecomes,
         Idle
  <2>7. ExtUser'
    BY <2>1, <2>2, <2>3, Types DEF UpdateAppliedDoes, AccessInv, OpBecomes, ExtUser,
         UsesExt, TakenPcs, OpRec, Idle
  <2>8. ImportMeans'
    BY <2>1, <2>2, <2>3, Types, SessionAssumption DEF UpdateAppliedDoes, AccessInv,
         OpBecomes, ImportMeans, OpRec, Idle
  <2>9. Quiet'
    BY <2>1, <2>2, <2>3, Types DEF UpdateAppliedDoes, AccessInv, OpBecomes, Quiet,
         Running, Free, OpRec, Idle
  <2>10. OneKind'
    BY <2>1, <2>2, <2>3, Types, SessionAssumption DEF UpdateAppliedDoes, AccessInv,
         OpBecomes, SupBecomes, OneKind, Free, OpRec, SupRec, Idle
  <2>11. QED
    BY <2>4, <2>5, <2>6, <2>7, <2>8, <2>9, <2>10 DEF AccessInv, TypeOK, OpType, ExtType, SupType
<1>13. ASSUME NEW c \in Conns, NEW o \in Slots, UpdateFailed(c, o) PROVE AccessInv'
  <2>1. UpdateFailedDoes(c, o)
    BY <1>13, UpdateFailedEffect
  <2>2. /\ op[c][o].pc = "update"
        /\ UNCHANGED <<reapStop, enabled, offline, partial, import, task, sup, requests>>
    BY <1>13 DEF UpdateFailed, replica, data, backend
  <2>3. op[c][o] \in OpRec /\ ext[c] \in ExtRec /\ sup[c] \in SupRec
    BY Types
  <2>4. /\ OthersOp(c, o) /\ op'[c][o].pc = "free" /\ OthersExt(c)
        /\ ext'[c].version = ext[c].version /\ ext'[c].user = ext[c].user
    <3>1. OthersOp(c, o) /\ op'[c][o].pc = "free"
      BY <2>1 DEF UpdateFailedDoes, OpBecomes, OthersOp, Idle
    <3>2. CASE ExtBecomes(c, [ext[c] EXCEPT !.acquired = FALSE, !.session = FALSE])
      BY <2>3, <3>1, <3>2 DEF ExtBecomes, OthersExt, ExtRec
    <3>3. CASE UNCHANGED ext
      BY <3>1, <3>3, Types DEF OthersExt
    <3>4. QED
      BY <2>1, <3>2, <3>3 DEF UpdateFailedDoes
  <2>5. DataTypeOK'
    BY <2>2, Types DEF AccessInv, DataTypeOK
  <2>6. ReplicaTypeOK'
    BY <2>1, <2>2, <2>3, RelinquishEffect, Types DEF UpdateFailedDoes, AccessInv,
         ReplicaTypeOK, replica
  <2>7. BackendTypeOK'
    BY <2>1, <2>2, <2>3, RelinquishEffect, Types, SessionAssumption DEF
         UpdateFailedDoes, AccessInv, BackendTypeOK, replica
  <2>8. ConnTypeOK'
    BY <2>1, <2>2, <2>3, DisconnectEffect, Types DEF UpdateFailedDoes, AccessInv,
         ConnTypeOK, replica
  <2>9. (ext' \in ExtType /\ op' \in OpType /\ sup' \in SupType)
    BY <2>1, <2>2, <2>3, Types DEF UpdateFailedDoes, AccessInv, OpBecomes, ExtBecomes,
         replica, Idle
  <2>10. ExtUser'
    BY <2>4, ExtUserStep DEF AccessInv, UsesExt, TakenPcs
  <2>11. ImportMeans'
    BY <2>1, <2>2, <2>3, Types, SessionAssumption DEF UpdateFailedDoes, AccessInv,
         OpBecomes, ImportMeans, replica, OpRec, Idle
  <2>12. Quiet'
    BY <2>1, <2>2, <2>3, DisconnectEffect, Types DEF UpdateFailedDoes, AccessInv,
         OpBecomes, Quiet, Running, Free, replica, OpRec, Idle
  <2>13. FlagsShape'
    BY <2>1, <2>2, <2>3, RelinquishEffect, Types DEF UpdateFailedDoes, AccessInv,
         FlagsShape, InUse, replica
  <2>14. OneKind'
    <3>1. OthersSup(c)
      BY <2>2, Types DEF OthersSup
    <3>2. sup[c].kind = "none" => sup[c].st \in {"idle", "gone"}
      BY DEF AccessInv, OneKind
    <3>3. ~Free(c, o) => op[c][o].kind = sup[c].kind /\ (op[c][o].pc = "update" => op[c][o].kind = "inc")
      BY DEF AccessInv, OneKind
    <3>4. QED
      BY <2>2, <2>4, <3>1, <3>2, <3>3, OneKindStep DEF AccessInv, Free
  <2>15. HeldBy'
    BY <2>1, <2>2, <2>3, RelinquishEffect, Types, SessionAssumption DEF
         UpdateFailedDoes, AccessInv, ExtBecomes, HeldBy, InUse, replica, ExtRec
  <2>16. QED
    BY <2>5, <2>6, <2>7, <2>8, <2>9, <2>10, <2>11, <2>12, <2>13, <2>14, <2>15 DEF AccessInv, TypeOK, OpType, ExtType, SupType
<1>14. ASSUME NEW c \in Conns, NEW o \in Slots, EntryQueued(c, o) PROVE AccessInv'
  <2>1. EntryQueuedDoes(c, o)
    BY <1>14, EntryQueuedEffect
  <2>2. /\ op[c][o].pc = "entry"
        /\ UNCHANGED <<flags, locker, abort, reapStop, enabled, offline, partial, import, task, ext, flagged, conn, sup, requests, upset>>
    BY <1>14 DEF EntryQueued, replica, data, backend
  <2>3. op[c][o] \in OpRec /\ ext[c] \in ExtRec /\ sup[c] \in SupRec
    BY Types
  <2>4. ReplicaTypeOK' /\ DataTypeOK' /\ BackendTypeOK' /\ ConnTypeOK' /\ FlagsShape' /\
         HeldBy'
    BY <2>2, Types DEF AccessInv, ReplicaTypeOK, DataTypeOK, BackendTypeOK, ConnTypeOK,
         FlagsShape, InUse, HeldBy
  <2>5. (ext' \in ExtType /\ op' \in OpType /\ sup' \in SupType)
    BY <2>1, <2>2, <2>3, Types DEF EntryQueuedDoes, AccessInv, OpBecomes, Idle
  <2>6. ExtUser'
    BY <2>1, <2>2, <2>3, Types DEF EntryQueuedDoes, AccessInv, OpBecomes, ExtUser,
         UsesExt, TakenPcs, OpRec, Idle
  <2>7. ImportMeans'
    BY <2>1, <2>2, <2>3, Types, SessionAssumption DEF EntryQueuedDoes, AccessInv,
         OpBecomes, ImportMeans, OpRec, Idle
  <2>8. Quiet'
    BY <2>1, <2>2, <2>3, Types DEF EntryQueuedDoes, AccessInv, OpBecomes, Quiet,
         Running, Free, OpRec, Idle
  <2>9. OneKind'
    BY <2>1, <2>2, <2>3, Types, SessionAssumption DEF EntryQueuedDoes, AccessInv,
         OpBecomes, OneKind, Free, OpRec, Idle
  <2>10. QED
    BY <2>4, <2>5, <2>6, <2>7, <2>8, <2>9 DEF AccessInv, TypeOK, OpType, ExtType, SupType
<1>15. ASSUME NEW c \in Conns, NEW o \in Slots, EntryFailed(c, o) PROVE AccessInv'
  <2>1. EntryFailedDoes(c, o)
    BY <1>15, EntryFailedEffect
  <2>2. /\ op[c][o].pc = "entry" /\ Disconnect(c)
        /\ UNCHANGED <<flags, locker, abort, reapStop, enabled, offline, partial, import, task, ext, flagged, sup, requests, upset>>
    BY <1>15 DEF EntryFailed, replica, data, backend
  <2>3. op[c][o] \in OpRec /\ ext[c] \in ExtRec /\ sup[c] \in SupRec
    BY Types
  <2>4. ReplicaTypeOK' /\ DataTypeOK' /\ BackendTypeOK' /\ FlagsShape' /\ HeldBy'
    BY <2>2, Types DEF AccessInv, ReplicaTypeOK, DataTypeOK, BackendTypeOK, FlagsShape,
         InUse, HeldBy
  <2>5. ConnTypeOK'
    BY <2>1, <2>2, <2>3, DisconnectEffect, Types DEF EntryFailedDoes, AccessInv,
         ConnTypeOK
  <2>6. (ext' \in ExtType /\ op' \in OpType /\ sup' \in SupType)
    BY <2>1, <2>2, <2>3, Types DEF EntryFailedDoes, AccessInv, OpBecomes, Idle
  <2>7. ExtUser'
    BY <2>1, <2>2, <2>3, Types DEF EntryFailedDoes, AccessInv, OpBecomes, ExtUser,
         UsesExt, TakenPcs, OpRec, Idle
  <2>8. ImportMeans'
    BY <2>1, <2>2, <2>3, Types, SessionAssumption DEF EntryFailedDoes, AccessInv,
         OpBecomes, ImportMeans, OpRec, Idle
  <2>9. Quiet'
    BY <2>1, <2>2, <2>3, DisconnectEffect, Types DEF EntryFailedDoes, AccessInv,
         OpBecomes, Quiet, Running, Free, OpRec, Idle
  <2>10. OneKind'
    BY <2>1, <2>2, <2>3, Types, SessionAssumption DEF EntryFailedDoes, AccessInv,
         OpBecomes, OneKind, Free, OpRec, Idle
  <2>11. QED
    BY <2>4, <2>5, <2>6, <2>7, <2>8, <2>9, <2>10 DEF AccessInv, TypeOK, OpType, ExtType, SupType
<1>16. ASSUME NEW c \in Conns, NEW o \in Slots, SendChange(c, o) PROVE AccessInv'
  <2>1. SendChangeDoes(c, o)
    BY <1>16, SendChangeEffect DEF AccessInv
  <2>2. /\ Readable(c, o) /\ sup[c].st = "in"
        /\ UNCHANGED <<flags, locker, abort, reapStop, enabled, offline, partial, import, task, ext, flagged, conn, sup, requests, upset>>
    BY <1>16 DEF SendChange, replica, data, backend
  <2>3. op[c][o] \in OpRec /\ ext[c] \in ExtRec /\ sup[c] \in SupRec
    BY Types
  <2>4. /\ OthersOp(c, o) /\ op'[c][o].pc \in {"update", "entry"} /\ ~op'[c][o].connext
        /\ op'[c][o].kind = sup[c].kind /\ (op'[c][o].pc = "update" => sup[c].kind = "inc")
        /\ OthersSup(c) /\ sup'[c].kind = sup[c].kind
        /\ sup[c].kind # "none"
    <3>1. OthersOp(c, o) /\ op'[c][o].pc \in {"update", "entry"} /\ ~op'[c][o].connext
            /\ op'[c][o].kind = sup[c].kind /\ (op'[c][o].pc = "update" => sup[c].kind = "inc")
      BY <2>1 DEF SendChangeDoes, OpBecomes, OthersOp, NewOp, Idle
    <3>2. OthersSup(c) /\ sup'[c].kind = sup[c].kind
      BY <2>2, <2>3, Types DEF OthersSup, SupRec
    <3>3. sup[c].kind # "none"
      BY <2>2 DEF AccessInv, OneKind
    <3>4. QED
      BY <3>1, <3>2, <3>3
  <2>5. ReplicaTypeOK' /\ DataTypeOK' /\ BackendTypeOK' /\ ConnTypeOK' /\ FlagsShape' /\
         HeldBy'
    BY <2>2, Types DEF AccessInv, ReplicaTypeOK, DataTypeOK, BackendTypeOK, ConnTypeOK,
         FlagsShape, InUse, HeldBy
  <2>6. (ext' \in ExtType /\ op' \in OpType /\ sup' \in SupType)
    BY <2>1, <2>2, <2>3, Types DEF SendChangeDoes, AccessInv, OpBecomes, NewOp, Idle,
         Readable, Free
  <2>7. ExtUser'
    BY <2>2, <2>4, Types, ExtUserStep DEF AccessInv, UsesExt, TakenPcs, OthersExt
  <2>8. ImportMeans'
    BY <2>2, <2>4, ImportStep DEF AccessInv
  <2>9. Quiet'
    BY <2>2, <2>4, QuietStep DEF AccessInv, Readable
  <2>10. OneKind'
    <3>1. OthersExt(c)
      BY <2>2, Types DEF OthersExt
    <3>2. QED
      BY <2>2, <2>4, <3>1, OneKindStep DEF AccessInv
  <2>11. QED
    BY <2>5, <2>6, <2>7, <2>8, <2>9, <2>10 DEF AccessInv, TypeOK, OpType, ExtType, SupType
<1>17. ASSUME NEW c \in Conns, NEW o \in Slots, SendEnd(c, o) PROVE AccessInv'
  <2>1. SendEndDoes(c, o)
    BY <1>17, SendEndEffect DEF AccessInv
  <2>2. /\ Readable(c, o) /\ sup[c].st = "in"
        /\ UNCHANGED <<flags, locker, abort, reapStop, enabled, offline, partial, import, task, ext, flagged, conn, requests, upset>>
    BY <1>17 DEF SendEnd, replica, data, backend
  <2>3. op[c][o] \in OpRec /\ ext[c] \in ExtRec /\ sup[c] \in SupRec
    BY Types
  <2>4. /\ OthersOp(c, o) /\ op'[c][o].pc \in {"end"} /\ ~op'[c][o].connext
        /\ op'[c][o].kind = sup[c].kind /\ (op'[c][o].pc = "update" => sup[c].kind = "inc")
        /\ OthersSup(c) /\ sup'[c].kind = sup[c].kind
        /\ sup[c].kind # "none"
    <3>1. OthersOp(c, o) /\ op'[c][o].pc \in {"end"} /\ ~op'[c][o].connext
            /\ op'[c][o].kind = sup[c].kind /\ (op'[c][o].pc = "update" => sup[c].kind = "inc")
      BY <2>1 DEF SendEndDoes, OpBecomes, OthersOp, NewOp, Idle
    <3>2. OthersSup(c) /\ sup'[c].kind = sup[c].kind
      BY <2>1, <2>3, Types DEF SendEndDoes, SupBecomes, OthersSup, SupRec
    <3>3. sup[c].kind # "none"
      BY <2>2 DEF AccessInv, OneKind
    <3>4. QED
      BY <3>1, <3>2, <3>3
  <2>5. ReplicaTypeOK' /\ DataTypeOK' /\ BackendTypeOK' /\ ConnTypeOK' /\ FlagsShape' /\
         HeldBy'
    BY <2>2, Types DEF AccessInv, ReplicaTypeOK, DataTypeOK, BackendTypeOK, ConnTypeOK,
         FlagsShape, InUse, HeldBy
  <2>6. (ext' \in ExtType /\ op' \in OpType /\ sup' \in SupType)
    BY <2>1, <2>2, <2>3, Types DEF SendEndDoes, AccessInv, OpBecomes, SupBecomes, NewOp,
         Idle, Readable, Free
  <2>7. ExtUser'
    BY <2>2, <2>4, Types, ExtUserStep DEF AccessInv, UsesExt, TakenPcs, OthersExt
  <2>8. ImportMeans'
    BY <2>2, <2>4, ImportStep DEF AccessInv
  <2>9. Quiet'
    BY <2>2, <2>4, QuietStep DEF AccessInv, Readable
  <2>10. OneKind'
    <3>1. OthersExt(c)
      BY <2>2, Types DEF OthersExt
    <3>2. QED
      BY <2>2, <2>4, <3>1, OneKindStep DEF AccessInv
  <2>11. QED
    BY <2>5, <2>6, <2>7, <2>8, <2>9, <2>10 DEF AccessInv, TypeOK, OpType, ExtType, SupType
<1>18. ASSUME NEW c \in Conns, NEW o \in Slots, NEW k \in Kinds \ {"task"},
             SendStart(c, o, k)
      PROVE  AccessInv'
  <2>1. SendStartDoes(c, o, k)
    BY <1>18, SendStartEffect
  <2>2. /\ Readable(c, o) /\ sup[c].st = "idle" /\ sup[c].kind \in {"none", k}
        /\ requests < MaxRequests /\ requests' = requests + 1
        /\ upset' = IF Running(c) # {} \/ (k = "total" /\ ext[c].acquired)
                   THEN upset \cup {c} ELSE upset
        /\ UNCHANGED <<flags, locker, abort, reapStop, enabled, offline, partial, import, task, ext, flagged, conn>>
    BY <1>18 DEF SendStart, replica, data, backend
  <2>3. op[c][o] \in OpRec /\ ext[c] \in ExtRec /\ sup[c] \in SupRec
    BY Types
  <2>4. /\ OthersOp(c, o) /\ op'[c][o].pc = "start" /\ ~op'[c][o].connext /\ op'[c][o].kind = k
        /\ OthersSup(c) /\ sup'[c].kind = k /\ k \in {"inc", "total"}
    <3>1. OthersOp(c, o) /\ op'[c][o].pc = "start" /\ ~op'[c][o].connext /\ op'[c][o].kind = k
      BY <2>1 DEF SendStartDoes, OpBecomes, OthersOp, NewOp, Idle
    <3>2. OthersSup(c) /\ sup'[c].kind = k /\ k \in {"inc", "total"}
      BY <2>1 DEF SendStartDoes, SupBecomes, OthersSup
    <3>3. QED
      BY <3>1, <3>2
  <2>5. ReplicaTypeOK' /\ DataTypeOK' /\ ConnTypeOK' /\ FlagsShape' /\ HeldBy'
    BY <2>2, Types DEF AccessInv, ReplicaTypeOK, DataTypeOK, ConnTypeOK, FlagsShape,
         InUse, HeldBy
  <2>6. BackendTypeOK'
    BY <2>1, <2>2, <2>3, Types, SessionAssumption DEF SendStartDoes, AccessInv,
         BackendTypeOK, NewOp, Idle, Readable, Free
  <2>7. (ext' \in ExtType /\ op' \in OpType /\ sup' \in SupType)
    BY <2>1, <2>2, <2>3, Types DEF SendStartDoes, AccessInv, OpBecomes, SupBecomes,
         NewOp, Idle, Readable, Free
  <2>8. ExtUser'
    BY <2>2, <2>4, Types, ExtUserStep DEF AccessInv, UsesExt, TakenPcs, OthersExt
  <2>9. ImportMeans'
    BY <2>2, <2>4, ImportStep DEF AccessInv
  <2>10. Quiet'
    BY <2>2, <2>4, QuietStep DEF AccessInv, Readable
  <2>11. OneKind'
    <3>1. OthersExt(c)
      BY <2>2, Types DEF OthersExt
    <3>2. QED
      BY <2>2, <2>4, <3>1, OneKindStep DEF AccessInv
  <2>12. QED
    BY <2>5, <2>6, <2>7, <2>8, <2>9, <2>10, <2>11 DEF AccessInv, TypeOK, OpType, ExtType, SupType
<1>19. ASSUME NEW c \in Conns, GiveUp(c) PROVE AccessInv'
  <2>1. GiveUpDoes(c)
    BY <1>19, GiveUpEffect
  <2>2. /\ sup[c].st = "starting"
        /\ UNCHANGED <<flags, locker, abort, reapStop, enabled, offline, partial, import, task, ext, flagged, conn, op, requests, upset>>
    BY <1>19 DEF GiveUp, replica, data, backend
  <2>3. ext[c] \in ExtRec /\ sup[c] \in SupRec
    BY Types
  <2>4. ReplicaTypeOK' /\ DataTypeOK' /\ BackendTypeOK' /\ ConnTypeOK' /\ ExtUser' /\
         ImportMeans' /\ Quiet' /\ FlagsShape' /\ HeldBy'
    BY <2>2, Types DEF AccessInv, ReplicaTypeOK, DataTypeOK, BackendTypeOK, ConnTypeOK,
         ExtUser, UsesExt, TakenPcs, ImportMeans, Quiet, Running, Free, FlagsShape,
         InUse, HeldBy
  <2>5. (ext' \in ExtType /\ op' \in OpType /\ sup' \in SupType)
    BY <2>1, <2>2, <2>3, Types DEF GiveUpDoes, AccessInv, SupBecomes
  <2>6. OneKind'
    BY <2>1, <2>2, <2>3, Types, SessionAssumption DEF GiveUpDoes, AccessInv, SupBecomes,
         OneKind, Free, SupRec
  <2>7. QED
    BY <2>4, <2>5, <2>6 DEF AccessInv, TypeOK, OpType, ExtType, SupType
<1>20. ASSUME NEW c \in Conns, Close(c) PROVE AccessInv'
  <2>1. /\ conn[c] = "open" /\ Disconnect(c)
        /\ UNCHANGED <<flags, locker, abort, reapStop, enabled, offline, partial, import, task, ext, flagged, op, sup, requests, upset>>
    BY <1>20 DEF Close, replica, data, backend
  <2>2. ext[c] \in ExtRec /\ sup[c] \in SupRec
    BY Types
  <2>3. ReplicaTypeOK' /\ DataTypeOK' /\ BackendTypeOK' /\ (ext' \in ExtType /\ op' \in
         OpType /\ sup' \in SupType) /\ ExtUser' /\ ImportMeans' /\ FlagsShape'
         /\ OneKind' /\ HeldBy'
    BY <2>1, Types DEF AccessInv, ReplicaTypeOK, DataTypeOK, BackendTypeOK, ExtUser,
         UsesExt, TakenPcs, ImportMeans, FlagsShape, InUse, OneKind, Free, HeldBy
  <2>4. ConnTypeOK'
    BY <2>1, <2>2, DisconnectEffect, Types DEF AccessInv, ConnTypeOK
  <2>5. Quiet'
    BY <2>1, <2>2, DisconnectEffect, Types DEF AccessInv, Quiet, Running, Free
  <2>6. QED
    BY <2>3, <2>4, <2>5 DEF AccessInv, TypeOK, OpType, ExtType, SupType
<1>21. ASSUME NEW c \in Conns, ImportFails(c) PROVE AccessInv'
  <2>1. /\ import = c /\ import' = "nobody"
        /\ \A p \in Slots : op[c][p].pc # "disable"
        /\ UNCHANGED <<flags, locker, abort, reapStop, enabled, offline, partial, task, ext, flagged, conn, op, sup, requests, upset>>
    BY <1>21 DEF ImportFails, replica, data
  <2>2. ext[c] \in ExtRec /\ sup[c] \in SupRec
    BY Types
  <2>3. ReplicaTypeOK' /\ DataTypeOK' /\ ConnTypeOK' /\ (ext' \in ExtType /\ op' \in
         OpType /\ sup' \in SupType) /\ ExtUser' /\ Quiet' /\ FlagsShape' /\
         HeldBy'
    BY <2>1, Types DEF AccessInv, ReplicaTypeOK, DataTypeOK, ConnTypeOK, ExtUser,
         UsesExt, TakenPcs, Quiet, Running, Free, FlagsShape, InUse, HeldBy
  <2>4. BackendTypeOK'
    BY <2>1, <2>2, Types, SessionAssumption DEF AccessInv, BackendTypeOK
  <2>5. ImportMeans'
    <3>1. ASSUME NEW d \in Conns, NEW p \in Slots PROVE op[d][p].pc # "disable"
      <4>1. CASE d = c
        BY <2>1, <4>1
      <4>2. CASE d # c
        BY <2>1, <4>2 DEF AccessInv, ImportMeans
      <4>3. QED
        BY <4>1, <4>2
    <3>2. task = "none"
      BY <2>1, SessionAssumption DEF AccessInv, ImportMeans
    <3>3. QED
      BY <2>1, <3>1, <3>2 DEF ImportMeans
  <2>6. OneKind'
    BY <2>1, <2>2, Types, SessionAssumption DEF AccessInv, OneKind, Free
  <2>7. QED
    BY <2>3, <2>4, <2>5, <2>6 DEF AccessInv, TypeOK, OpType, ExtType, SupType
<1>22. ASSUME NEW c \in Conns, DestroyStop(c) PROVE AccessInv'
  <2>1. /\ conn[c] = "closing" /\ Running(c) = {} /\ conn' = [conn EXCEPT ![c] = "destroying"]
        /\ reapStop' \in BOOLEAN /\ import' = IF import = c THEN "nobody" ELSE import
        /\ \/ import = c /\ EnableReplication(c)
           \/ UNCHANGED <<replica, enabled, offline, upset>>
        /\ UNCHANGED <<partial, task, ext, flagged, op, sup, requests>>
    BY <1>22 DEF DestroyStop, replica
  <2>2. ext[c] \in ExtRec /\ sup[c] \in SupRec
    BY Types
  <2>3. (ext' \in ExtType /\ op' \in OpType /\ sup' \in SupType) /\ ExtUser'
    BY <2>1, Types DEF AccessInv, ExtUser, UsesExt, TakenPcs
  <2>4. ReplicaTypeOK'
    BY <2>1, <2>2, RelinquishEffect, Types DEF AccessInv, ReplicaTypeOK, replica,
         EnableReplication
  <2>5. DataTypeOK'
    BY <2>1, <2>2, RelinquishEffect, Types DEF AccessInv, DataTypeOK, replica,
         EnableReplication
  <2>6. BackendTypeOK'
    BY <2>1, <2>2, RelinquishEffect, Types, SessionAssumption DEF AccessInv,
         BackendTypeOK, replica, EnableReplication
  <2>7. ConnTypeOK'
    BY <2>1, <2>2, Types DEF AccessInv, ConnTypeOK, replica
  <2>8. ImportMeans'
    <3>1. CASE import # c
      BY <2>1, <3>1 DEF AccessInv, ImportMeans
    <3>2. CASE import = c
      <4>1. ASSUME NEW d \in Conns, NEW p \in Slots PROVE op[d][p].pc # "disable"
        <5>1. CASE d = c
          BY <2>1, <5>1 DEF Running, Free
        <5>2. CASE d # c
          BY <3>2, <5>2 DEF AccessInv, ImportMeans
        <5>3. QED
          BY <5>1, <5>2
      <4>2. task = "none"
        BY <3>2, SessionAssumption DEF AccessInv, ImportMeans
      <4>3. QED
        BY <2>1, <4>1, <4>2 DEF ImportMeans
    <3>3. QED
      BY <3>1, <3>2
  <2>9. Quiet'
    BY <2>1, <2>2, Types DEF AccessInv, Quiet, Running, Free, replica
  <2>10. FlagsShape'
    BY <2>1, <2>2, RelinquishEffect, Types DEF AccessInv, FlagsShape, InUse, replica,
         EnableReplication
  <2>11. OneKind'
    BY <2>1, <2>2, Types, SessionAssumption DEF AccessInv, OneKind, Free, replica
  <2>12. HeldBy'
    BY <2>1, <2>2, RelinquishEffect, Types, SessionAssumption DEF AccessInv, HeldBy,
         InUse, replica, EnableReplication
  <2>13. QED
    BY <2>3, <2>4, <2>5, <2>6, <2>7, <2>8, <2>9, <2>10, <2>11, <2>12 DEF AccessInv, TypeOK, OpType, ExtType, SupType
<1>23. ASSUME NEW c \in Conns, Destroy(c) PROVE AccessInv'
  <2>1. DestroyDoes(c)
    BY <1>23, DestroyEffect
  <2>2. /\ Running(c) = {}
        /\ \/ ext[c].acquired /\ Relinquish(c)
           \/ ~ext[c].acquired /\ UNCHANGED <<replica, upset>>
        /\ UNCHANGED <<reapStop, enabled, offline, partial, import, task, op, requests>>
    BY <1>23 DEF Destroy, replica, data, backend, Quiet, AccessInv, Running, Free
  <2>3. ext[c] \in ExtRec /\ sup[c] \in SupRec
    BY Types
  <2>4. /\ OthersExt(c) /\ ext'[c].user = NoSlot /\ ext'[c].version = "unknown" /\ ~ext'[c].acquired
        /\ OthersSup(c) /\ sup'[c].kind = sup[c].kind /\ sup'[c].st = "gone"
        /\ \A p \in Slots : Free(c, p)
    <3>1. OthersExt(c) /\ ext'[c].user = NoSlot /\ ext'[c].version = "unknown" /\ ~ext'[c].acquired
      BY <2>1 DEF DestroyDoes, ExtBecomes, OthersExt, NewExt
    <3>2. OthersSup(c) /\ sup'[c].kind = sup[c].kind /\ sup'[c].st = "gone"
      BY <2>1, <2>3 DEF DestroyDoes, SupBecomes, OthersSup, SupRec
    <3>3. \A p \in Slots : Free(c, p)
      BY <2>2 DEF Running
    <3>4. QED
      BY <3>1, <3>2, <3>3
  <2>5. DataTypeOK' /\ ImportMeans'
    BY <2>2, Types DEF AccessInv, DataTypeOK, ImportMeans
  <2>6. ReplicaTypeOK'
    BY <2>1, <2>2, <2>3, RelinquishEffect, Types DEF DestroyDoes, AccessInv,
         ReplicaTypeOK, replica
  <2>7. BackendTypeOK'
    BY <2>1, <2>2, <2>3, RelinquishEffect, Types, SessionAssumption DEF DestroyDoes,
         AccessInv, BackendTypeOK, replica
  <2>8. ConnTypeOK'
    BY <2>1, <2>2, <2>3, Types DEF DestroyDoes, AccessInv, ConnTypeOK, replica
  <2>9. (ext' \in ExtType /\ op' \in OpType /\ sup' \in SupType)
    BY <2>1, <2>2, <2>3, Types DEF DestroyDoes, AccessInv, ExtBecomes, SupBecomes,
         replica, NewExt
  <2>10. ExtUser'
    <3>1. ASSUME NEW d \in Conns, NEW p \in Slots, UsesExt(d, p) PROVE ext'[d].user = p
      <4>1. d # c
        BY <2>4, <3>1 DEF Free, UsesExt, TakenPcs
      <4>2. QED
        BY <2>4, <3>1, <4>1 DEF OthersExt, AccessInv, ExtUser
    <3>2. QED
      BY <2>2, <3>1 DEF ExtUser, UsesExt, AccessInv
  <2>11. Quiet'
    BY <2>1, <2>2, <2>3, Types DEF DestroyDoes, AccessInv, Quiet, Running, Free, replica
  <2>12. FlagsShape'
    BY <2>1, <2>2, <2>3, RelinquishEffect, Types DEF DestroyDoes, AccessInv, FlagsShape,
         InUse, replica
  <2>13. OneKind'
    <3> DEFINE o == 1
    <3>1. o \in Slots /\ OthersOp(c, o)
      BY <2>2, Types DEF Slots, OthersOp
    <3> HIDE DEF o
    <3>2. ~Free(c, o)' => FALSE
      BY <2>2, <2>4, <3>1 DEF Free
    <3>3. QED
      BY <2>2, <2>4, <3>1, <3>2, OneKindStep DEF AccessInv
  <2>14. HeldBy'
    <3>1. CASE Relinquish(c)
      BY <3>1, RelinquishEffect DEF HeldBy
    <3>2. CASE ~ext[c].acquired /\ UNCHANGED <<flags, locker>>
      BY <2>2, <2>4, <3>2, HeldByStep DEF AccessInv, OthersExt, InUse
    <3>3. QED
      BY <2>2, <3>1, <3>2 DEF replica
  <2>15. QED
    BY <2>5, <2>6, <2>7, <2>8, <2>9, <2>10, <2>11, <2>12, <2>13, <2>14 DEF AccessInv, TypeOK, OpType, ExtType, SupType
<1>24. ASSUME LocalUpdate PROVE AccessInv'
  <2>1. /\ abort' = "sent"
        /\ UNCHANGED <<flags, locker, reapStop, enabled, offline, partial, import, task, ext, flagged, conn, op, sup, requests, upset>>
    BY <1>24 DEF LocalUpdate, data, backend
  <2>2. DataTypeOK' /\ BackendTypeOK' /\ ConnTypeOK' /\ (ext' \in ExtType /\ op' \in
         OpType /\ sup' \in SupType) /\ ExtUser' /\ ImportMeans' /\ Quiet' /\
         FlagsShape' /\ OneKind' /\ HeldBy'
    BY <2>1, Types DEF AccessInv, DataTypeOK, BackendTypeOK, ConnTypeOK, ExtUser,
         UsesExt, TakenPcs, ImportMeans, Quiet, Running, Free, FlagsShape, InUse,
         OneKind, HeldBy
  <2>3. ReplicaTypeOK'
    BY <2>1, Types DEF AccessInv, ReplicaTypeOK
  <2>4. QED
    BY <2>2, <2>3 DEF AccessInv, TypeOK, OpType, ExtType, SupType
<1>25. ASSUME TaskStart PROVE AccessInv'
  <2>1. /\ import = "nobody" /\ import' = "task" /\ task' = "disable"
        /\ requests < MaxRequests /\ requests' = requests + 1
        /\ UNCHANGED <<flags, locker, abort, reapStop, enabled, offline, partial, ext, flagged, conn, op, sup, upset>>
    BY <1>25 DEF TaskStart, replica, data
  <2>2. ReplicaTypeOK' /\ DataTypeOK' /\ ConnTypeOK' /\ (ext' \in ExtType /\ op' \in
         OpType /\ sup' \in SupType) /\ ExtUser' /\ Quiet' /\ FlagsShape' /\
         HeldBy'
    BY <2>1, Types DEF AccessInv, ReplicaTypeOK, DataTypeOK, ConnTypeOK, ExtUser,
         UsesExt, TakenPcs, Quiet, Running, Free, FlagsShape, InUse, HeldBy
  <2>3. BackendTypeOK'
    BY <2>1, Types, SessionAssumption DEF AccessInv, BackendTypeOK
  <2>4. ImportMeans'
    BY <2>1, Types, SessionAssumption DEF AccessInv, ImportMeans
  <2>5. OneKind'
    BY <2>1, SessionAssumption DEF AccessInv, OneKind, Free
  <2>6. QED
    BY <2>2, <2>3, <2>4, <2>5 DEF AccessInv, TypeOK, OpType, ExtType, SupType
<1>26. ASSUME TaskDisable PROVE AccessInv'
  <2>1. /\ task = "disable"
        /\ \/ DisableWaits /\ UNCHANGED task
           \/ DisableReplication /\ task' = "running"
        /\ UNCHANGED <<reapStop, partial, import, ext, flagged, conn, op, sup, requests, upset>>
    BY <1>26 DEF TaskDisable
  <2>2. ConnTypeOK' /\ (ext' \in ExtType /\ op' \in OpType /\ sup' \in SupType) /\
         ExtUser' /\ Quiet' /\ OneKind'
    BY <2>1, Types DEF AccessInv, ConnTypeOK, ExtUser, UsesExt, TakenPcs, Quiet,
         Running, Free, OneKind
  <2>3. ReplicaTypeOK'
    BY <2>1, DisableEffect, DisableWaitsEffect, Types DEF AccessInv, ReplicaTypeOK
  <2>4. DataTypeOK'
    BY <2>1, DisableEffect, DisableWaitsEffect, Types DEF AccessInv, DataTypeOK
  <2>5. BackendTypeOK'
    BY <2>1, DisableEffect, DisableWaitsEffect, Types, SessionAssumption DEF AccessInv,
         BackendTypeOK
  <2>6. ImportMeans'
    <3>1. enabled' = FALSE
      BY <2>1, DisableEffect, DisableWaitsEffect
    <3>2. QED
      BY <2>1, <3>1 DEF AccessInv, ImportMeans
  <2>7. FlagsShape'
    BY <2>1, DisableEffect, DisableWaitsEffect, Types DEF AccessInv, FlagsShape, InUse
  <2>8. HeldBy'
    <3>1. offline' = TRUE
      BY <2>1, DisableEffect, DisableWaitsEffect
    <3>2. CASE InUse /\ UNCHANGED <<flags, locker>>
      BY <2>1, <3>1, <3>2, HeldByStep DEF AccessInv, InUse
    <3>3. CASE InUse' /\ locker' = "server"
      BY <3>1, <3>3 DEF HeldBy
    <3>4. QED
      BY <2>1, <3>2, <3>3, DisableEffect, DisableWaitsEffect
  <2>9. QED
    BY <2>2, <2>3, <2>4, <2>5, <2>6, <2>7, <2>8 DEF AccessInv, TypeOK, OpType, ExtType, SupType
<1>27. ASSUME TaskEnd PROVE AccessInv'
  <2>1. /\ task = "running" /\ EnableReplication("server") /\ partial' = FALSE
        /\ task' = "none" /\ import' = "nobody"
        /\ UNCHANGED <<reapStop, ext, flagged, conn, op, sup, requests>>
    BY <1>27 DEF TaskEnd
  <2>2. ConnTypeOK' /\ (ext' \in ExtType /\ op' \in OpType /\ sup' \in SupType) /\
         ExtUser' /\ Quiet'
    BY <2>1, Types DEF AccessInv, ConnTypeOK, ExtUser, UsesExt, TakenPcs, Quiet,
         Running, Free
  <2>3. ReplicaTypeOK'
    BY <2>1, RelinquishEffect, Types DEF AccessInv, ReplicaTypeOK, EnableReplication
  <2>4. DataTypeOK'
    BY <2>1, RelinquishEffect, Types DEF AccessInv, DataTypeOK, EnableReplication
  <2>5. BackendTypeOK'
    BY <2>1, RelinquishEffect, Types, SessionAssumption DEF AccessInv, BackendTypeOK,
         EnableReplication
  <2>6. ImportMeans'
    <3>1. \A d \in Conns, p \in Slots : op[d][p].pc # "disable"
      BY <2>1, SessionAssumption DEF AccessInv, ImportMeans
    <3>2. QED
      BY <2>1, <3>1 DEF ImportMeans
  <2>7. FlagsShape'
    BY <2>1, RelinquishEffect, Types DEF AccessInv, FlagsShape, InUse, EnableReplication
  <2>8. OneKind'
    BY <2>1, Types, SessionAssumption DEF AccessInv, OneKind, Free
  <2>9. HeldBy'
    BY <2>1, RelinquishEffect, Types, SessionAssumption DEF AccessInv, HeldBy, InUse,
         EnableReplication
  <2>10. QED
    BY <2>2, <2>3, <2>4, <2>5, <2>6, <2>7, <2>8, <2>9 DEF AccessInv, TypeOK, OpType, ExtType, SupType
<1>28. ASSUME TaskFails PROVE AccessInv'
  <2>1. /\ task = "running" /\ partial' \in {partial, TRUE}
        /\ task' = "none" /\ import' = "nobody"
        /\ UNCHANGED <<flags, locker, abort, reapStop, enabled, offline, ext, flagged, conn, op, sup, requests, upset>>
    BY <1>28 DEF TaskFails, replica
  <2>2. ReplicaTypeOK' /\ ConnTypeOK' /\ (ext' \in ExtType /\ op' \in OpType /\ sup' \in
         SupType) /\ ExtUser' /\ Quiet' /\ FlagsShape' /\ HeldBy'
    BY <2>1, Types DEF AccessInv, ReplicaTypeOK, ConnTypeOK, ExtUser, UsesExt, TakenPcs,
         Quiet, Running, Free, FlagsShape, InUse, HeldBy
  <2>3. DataTypeOK'
    BY <2>1, Types DEF AccessInv, DataTypeOK
  <2>4. BackendTypeOK'
    BY <2>1, Types, SessionAssumption DEF AccessInv, BackendTypeOK
  <2>5. ImportMeans'
    <3>1. \A d \in Conns, p \in Slots : op[d][p].pc # "disable"
      BY <2>1, SessionAssumption DEF AccessInv, ImportMeans
    <3>2. QED
      BY <2>1, <3>1 DEF ImportMeans
  <2>6. OneKind'
    BY <2>1, Types, SessionAssumption DEF AccessInv, OneKind, Free
  <2>7. QED
    BY <2>2, <2>3, <2>4, <2>5, <2>6 DEF AccessInv, TypeOK, OpType, ExtType, SupType
<1>29. CASE UNCHANGED vars
  BY <1>29 DEF vars, replica, data, backend, AccessInv, TypeOK, ReplicaTypeOK, DataTypeOK,
       BackendTypeOK, ConnTypeOK, ExtUser, UsesExt, ImportMeans, Quiet, Running, Free, FlagsShape,
       InUse, OneKind, HeldBy
<1>30. QED
  BY <1>1, <1>2, <1>3, <1>4, <1>5, <1>6, <1>7, <1>8, <1>9, <1>10, <1>11, <1>12, <1>13,
       <1>14, <1>15, <1>16, <1>17, <1>18, <1>19, <1>20, <1>21, <1>22, <1>23, <1>24,
       <1>25, <1>26, <1>27, <1>28, <1>29 DEF Next, Handle, Supply

(* AccessInv holds in every behaviour.                                     *)
THEOREM AccessInvariant == Spec => []AccessInv
BY AccessInit, AccessNext, PTL DEF Spec

(* Every variable keeps its type.                                          *)
THEOREM SessionTypeCorrect == Spec => []TypeOK
<1>1. AccessInv => TypeOK
  BY DEF AccessInv
<1>2. QED
  BY <1>1, AccessInvariant, PTL

(* No refusal, no lost connection and no failure of an update or of a      *)
(* total update leaks the replica; an import that fails leaves it to the   *)
(* next one, with the backend offline.                                     *)
THEOREM SessionNotLeaked == Spec => []NotLeaked
<1>1. AccessInv => NotLeaked
  BY DEF AccessInv, HeldBy, NotLeaked, LeftOffline
<1>2. QED
  BY <1>1, AccessInvariant, PTL

-----------------------------------------------------------------------------
(* The sessions that nobody has upset                                      *)

Apart(c) ==
  \A d \in Conns : d # c =>
    /\ ext'[d] = ext[d] /\ sup'[d] = sup[d] /\ conn'[d] = conn[d] /\ flagged'[d] = flagged[d]
    /\ \A p \in Slots : op'[d][p] = op[d][p]

(* A holder other than c keeps the replica, or is known to be upset.       *)
Kept(c) ==
  InUse /\ locker \in Conns /\ locker # c => locker \in upset' \/ (InUse' /\ locker' = locker)

(* A step of c keeps the sessions of the other connections.                *)
LEMMA OthersSound ==
  ASSUME SessionInv, NEW c, Apart(c), Kept(c), upset \subseteq upset'
  PROVE  \A d \in Conns \ upset' : d # c => Sound(d)'
<1> SUFFICES ASSUME NEW d \in Conns \ upset', d # c PROVE Sound(d)'
  OBVIOUS
<1>1. /\ ext'[d] = ext[d] /\ sup'[d] = sup[d] /\ conn'[d] = conn[d] /\ flagged'[d] = flagged[d]
      /\ \A p \in Slots : op'[d][p] = op[d][p]
  BY DEF Apart
<1>2. Sound(d)
  BY DEF SessionInv
<1>3. Holds(d) => Holds(d)'
  BY <1>1 DEF Kept, Holds
<1>4. Session(d) => Session(d)'
  BY <1>1, <1>3 DEF Session
<1>5. Single(d)' /\ Owned(d)' /\ Told(d)'
  BY <1>1, <1>2, <1>3, <1>4 DEF Sound, Single, Owned, Told, Free
<1>6. \A o \in Slots : StartedOp(d, o)' /\ ChangeOp(d, o)'
  BY <1>1, <1>2, <1>3, <1>4 DEF Sound, StartedOp, ChangeOp
<1>7. QED
  BY <1>5, <1>6 DEF Sound

(* What an operation of an undisturbed connection may rely on, ...         *)
LEMMA Alone ==
  ASSUME AccessInv, NEW c \in Conns, NEW o \in Slots, Sound(c), ~Free(c, o)
  PROVE  /\ \A p \in Slots : p # o => Free(c, p)
         /\ op[c][o].pc \notin {"install", "release"} /\ ext[c].acquired => Holds(c)
         /\ op[c][o].pc \notin {"update", "entry"} => sup[c].st # "in"
         /\ StartedOp(c, o) /\ ChangeOp(c, o)
<1>1. \A p \in Slots : p # o => Free(c, p)
  BY DEF Sound, Single
<1>2. conn[c] # "destroying"
  BY DEF AccessInv, Quiet, Running
<1>3. op[c][o].pc \notin {"install", "release"} /\ ext[c].acquired => Holds(c)
  BY <1>1, <1>2 DEF Sound, Owned, Free
<1>4. op[c][o].pc \notin {"update", "entry"} => sup[c].st # "in"
  BY DEF Sound, Told, Free
<1>5. QED
  BY <1>1, <1>3, <1>4 DEF Sound

(* ... and what it has to see to.                                          *)
LEMMA OwnSound ==
  ASSUME NEW c \in Conns, NEW o \in Slots,
         \A p \in Slots : p # o => Free(c, p)', 
         ext'[c].acquired => \/ Holds(c)' \/ conn'[c] = "destroying"
                             \/ op'[c][o].pc \in {"install", "release"},
         sup'[c].st = "in" => /\ conn'[c] = "open" => Session(c)'
                              /\ op'[c][o].pc \in {"free", "update", "entry"},
         StartedOp(c, o)', ChangeOp(c, o)'
  PROVE  Sound(c)'
<1>1. Single(c)'
  BY DEF Single
<1>2. Owned(c)'
  BY DEF Owned
<1>3. Told(c)'
  BY DEF Told, Free
<1>4. ASSUME NEW p \in Slots PROVE StartedOp(c, p)' /\ ChangeOp(c, p)'
  <2>1. CASE p = o
    BY <2>1
  <2>2. CASE p # o
    BY <2>2 DEF Free, StartedOp, ChangeOp
  <2>3. QED
    BY <2>1, <2>2
<1>5. QED
  BY <1>1, <1>2, <1>3, <1>4 DEF Sound

(* An operation of c, or its supplier, leaves the other connections alone. *)
LEMMA OpApart ==
  ASSUME AccessInv, NEW c \in Conns, NEW o \in Slots, Handle(c, o) \/ Supply(c, o)
  PROVE  Apart(c) /\ Kept(c) /\ upset \subseteq upset'
<1> TypeOK /\ FlagsShape
  BY DEF AccessInv
<1>1. CASE StartCheck(c, o)
  <2>1. StartCheckDoes(c, o)
    BY <1>1, StartCheckEffect
  <2>2. /\ op[c][o].pc = "start"
        /\ UNCHANGED <<flags, locker, abort, reapStop, enabled, offline, partial, import, task, flagged, conn, sup, requests, upset>>
    BY <1>1 DEF StartCheck, replica, data, backend
  <2>3. Apart(c)
    BY <2>2, <2>1 DEF Apart, StartCheckDoes, OpBecomes, ExtBecomes
  <2>4. Kept(c)
    BY <2>2 DEF Kept, InUse
  <2>5. upset \subseteq upset'
    BY <2>2
  <2>6. QED
    BY <2>3, <2>4, <2>5
<1>2. CASE StartMark(c, o)
  <2>1. StartMarkDoes(c, o)
    BY <1>2, StartMarkEffect
  <2>2. /\ op[c][o].pc = "mark" /\ flags' = flags \cup {"TOTAL_EXCL_RECV"}
        /\ UNCHANGED <<locker, abort, reapStop, enabled, offline, partial, import, task, ext, flagged, conn, sup, requests, upset>>
    BY <1>2 DEF StartMark, data, backend
  <2>3. Apart(c)
    BY <2>2, <2>1 DEF Apart, StartMarkDoes, OpBecomes
  <2>4. Kept(c)
    BY <2>2 DEF Kept, InUse
  <2>5. upset \subseteq upset'
    BY <2>2
  <2>6. QED
    BY <2>3, <2>4, <2>5
<1>3. CASE StartAcquire(c, o)
  <2>1. StartAcquireDoes(c, o)
    BY <1>3, StartAcquireEffect
  <2>2. /\ op[c][o].pc = "acquire"
        /\ UNCHANGED <<reapStop, enabled, offline, partial, import, task, flagged, conn, sup, requests, upset>>
    BY <1>3 DEF StartAcquire, replica, data, backend
  <2>3. Apart(c)
    BY <2>2, <2>1 DEF Apart, StartAcquireDoes, OpBecomes, ExtBecomes
  <2>4. Kept(c)
    BY <2>1 DEF StartAcquireDoes, Kept, Take, TakeAgain, Refused, replica, InUse
  <2>5. upset \subseteq upset'
    BY <2>2
  <2>6. QED
    BY <2>3, <2>4, <2>5
<1>4. CASE StartBegin(c, o)
  <2>1. StartBeginDoes(c, o)
    BY <1>4, StartBeginEffect
  <2>2. /\ op[c][o].pc = "begin"
        /\ UNCHANGED <<flags, locker, abort, enabled, offline, partial, task, conn, sup, requests, upset>>
    BY <1>4 DEF StartBegin, replica
  <2>3. Apart(c)
    BY <2>2, <2>1 DEF Apart, StartBeginDoes, OpBecomes, ExtBecomes
  <2>4. Kept(c)
    BY <2>2 DEF Kept, InUse
  <2>5. upset \subseteq upset'
    BY <2>2
  <2>6. QED
    BY <2>3, <2>4, <2>5
<1>5. CASE StartDisable(c, o)
  <2>1. StartDisableDoes(c, o)
    BY <1>5, StartDisableEffect
  <2>2. /\ op[c][o].pc = "disable"
        /\ UNCHANGED <<reapStop, task, conn, sup, requests, upset>>
    BY <1>5 DEF StartDisable
  <2>3. Apart(c)
    BY <2>2, <2>1 DEF Apart, StartDisableDoes, OpBecomes, ExtBecomes
  <2>4. Kept(c)
    BY <2>1, DisableEffect, DisableWaitsEffect DEF StartDisableDoes, Kept, AccessInv, InUse
  <2>5. upset \subseteq upset'
    BY <2>2
  <2>6. QED
    BY <2>3, <2>4, <2>5
<1>6. CASE StartReply(c, o)
  <2>1. StartReplyDoes(c, o)
    BY <1>6, StartReplyEffect
  <2>2. /\ op[c][o].pc = "reply"
        /\ flags' = IF Marked(c, o) THEN flags \ {"TOTAL_EXCL_RECV"} ELSE flags
        /\ reapStop' = (reapStop /\ ~(op[c][o].resp # "READY" /\ op[c][o].replica))
        /\ UNCHANGED <<locker, abort, enabled, offline, partial, import, task, flagged, conn, requests>>
    BY <1>6 DEF StartReply, backend
  <2>3. Apart(c)
    BY <2>2, <2>1 DEF Apart, StartReplyDoes, OpBecomes, ExtBecomes, SupBecomes
  <2>4. Kept(c)
    BY <2>2 DEF Kept, InUse
  <2>5. upset \subseteq upset'
    BY <2>1 DEF StartReplyDoes
  <2>6. QED
    BY <2>3, <2>4, <2>5
<1>7. CASE StartCleanup(c, o)
  <2>1. StartCleanupDoes(c, o)
    BY <1>7, StartCleanupEffect
  <2>2. /\ op[c][o].pc = "cleanup"
        /\ flags' = IF op[c][o].connext /\ ext[c].acquired /\ locker = c THEN Freed ELSE flags
        /\ UNCHANGED <<locker, abort, reapStop, enabled, offline, partial, import, task, sup, requests, upset>>
    BY <1>7 DEF StartCleanup, data, backend
  <2>3. Apart(c)
    BY <2>2, <2>1, DisconnectEffect, Types DEF Apart, StartCleanupDoes, OpBecomes,
         ExtBecomes
  <2>4. Kept(c)
    BY <2>2 DEF Kept, InUse
  <2>5. upset \subseteq upset'
    BY <2>2
  <2>6. QED
    BY <2>3, <2>4, <2>5
<1>8. CASE EndConnext(c, o)
  <2>1. EndConnextDoes(c, o)
    BY <1>8, EndConnextEffect
  <2>2. /\ op[c][o].pc = "end"
        /\ UNCHANGED <<locker, abort, reapStop, enabled, offline, partial, import, task, flagged, conn, requests, upset>>
    BY <1>8 DEF EndConnext, data, backend
  <2>3. Apart(c)
    BY <2>2, <2>1 DEF Apart, EndConnextDoes, OpBecomes, ExtBecomes, SupBecomes
  <2>4. Kept(c)
    BY <2>1, <2>2 DEF EndConnextDoes, Kept, InUse
  <2>5. upset \subseteq upset'
    BY <2>2
  <2>6. QED
    BY <2>3, <2>4, <2>5
<1>9. CASE EndStop(c, o)
  <2>1. EndStopDoes(c, o)
    BY <1>9, EndStopEffect
  <2>2. /\ op[c][o].pc = "stop"
        /\ \/ /\ import = c /\ EnableReplication(c) /\ import' = "nobody" /\ partial' = FALSE
           \/ import # c /\ UNCHANGED <<replica, enabled, offline, import, partial, upset>>
        /\ UNCHANGED <<reapStop, task, ext, flagged, conn, sup, requests>>
    BY <1>9 DEF EndStop, replica
  <2>3. Apart(c)
    BY <2>2, <2>1 DEF Apart, EndStopDoes, OpBecomes
  <2>4. Kept(c)
    BY <2>2, RelinquishEffect DEF Kept, EnableReplication, replica, InUse
  <2>5. upset \subseteq upset'
    BY <2>2, RelinquishEffect DEF EnableReplication
  <2>6. QED
    BY <2>3, <2>4, <2>5
<1>10. CASE EndInstall(c, o)
  <2>1. EndInstallDoes(c, o)
    BY <1>10, EndInstallEffect
  <2>2. /\ op[c][o].pc = "install" /\ reapStop' = FALSE
        /\ UNCHANGED <<flags, locker, abort, enabled, offline, partial, import, task, ext, flagged, conn, sup, requests, upset>>
    BY <1>10 DEF EndInstall, replica, backend
  <2>3. Apart(c)
    BY <2>2, <2>1 DEF Apart, EndInstallDoes, OpBecomes
  <2>4. Kept(c)
    BY <2>2 DEF Kept, InUse
  <2>5. upset \subseteq upset'
    BY <2>2
  <2>6. QED
    BY <2>3, <2>4, <2>5
<1>11. CASE EndRelease(c, o)
  <2>1. EndReleaseDoes(c, o)
    BY <1>11, EndReleaseEffect
  <2>2. /\ op[c][o].pc = "release" /\ Relinquish(c)
        /\ UNCHANGED <<reapStop, enabled, offline, partial, import, task, conn, requests>>
    BY <1>11 DEF EndRelease, data, backend
  <2>3. Apart(c)
    BY <2>2, <2>1 DEF Apart, EndReleaseDoes, OpBecomes, ExtBecomes, SupBecomes
  <2>4. Kept(c)
    BY <2>2, RelinquishEffect DEF Kept
  <2>5. upset \subseteq upset'
    BY <2>2, RelinquishEffect DEF EnableReplication
  <2>6. QED
    BY <2>3, <2>4, <2>5
<1>12. CASE UpdateApplied(c, o)
  <2>1. UpdateAppliedDoes(c, o)
    BY <1>12, UpdateAppliedEffect
  <2>2. /\ op[c][o].pc = "update" /\ abort' \in {"sent", abort}
        /\ UNCHANGED <<flags, locker, reapStop, enabled, offline, partial, import, task, ext, flagged, conn, requests, upset>>
    BY <1>12 DEF UpdateApplied, data, backend
  <2>3. Apart(c)
    BY <2>2, <2>1 DEF Apart, UpdateAppliedDoes, OpBecomes, SupBecomes
  <2>4. Kept(c)
    BY <2>2 DEF Kept, InUse
  <2>5. upset \subseteq upset'
    BY <2>2
  <2>6. QED
    BY <2>3, <2>4, <2>5
<1>13. CASE UpdateFailed(c, o)
  <2>1. UpdateFailedDoes(c, o)
    BY <1>13, UpdateFailedEffect
  <2>2. /\ op[c][o].pc = "update"
        /\ UNCHANGED <<reapStop, enabled, offline, partial, import, task, sup, requests>>
    BY <1>13 DEF UpdateFailed, replica, data, backend
  <2>3. Apart(c)
    BY <2>2, <2>1, DisconnectEffect, Types DEF Apart, UpdateFailedDoes, OpBecomes,
         ExtBecomes
  <2>4. Kept(c)
    BY <2>1, RelinquishEffect DEF UpdateFailedDoes, Kept, replica, InUse
  <2>5. upset \subseteq upset'
    BY <2>1, RelinquishEffect DEF UpdateFailedDoes
  <2>6. QED
    BY <2>3, <2>4, <2>5
<1>14. CASE EntryQueued(c, o)
  <2>1. EntryQueuedDoes(c, o)
    BY <1>14, EntryQueuedEffect
  <2>2. /\ op[c][o].pc = "entry"
        /\ UNCHANGED <<flags, locker, abort, reapStop, enabled, offline, partial, import, task, ext, flagged, conn, sup, requests, upset>>
    BY <1>14 DEF EntryQueued, replica, data, backend
  <2>3. Apart(c)
    BY <2>2, <2>1 DEF Apart, EntryQueuedDoes, OpBecomes
  <2>4. Kept(c)
    BY <2>2 DEF Kept, InUse
  <2>5. upset \subseteq upset'
    BY <2>2
  <2>6. QED
    BY <2>3, <2>4, <2>5
<1>15. CASE EntryFailed(c, o)
  <2>1. EntryFailedDoes(c, o)
    BY <1>15, EntryFailedEffect
  <2>2. /\ op[c][o].pc = "entry" /\ Disconnect(c)
        /\ UNCHANGED <<flags, locker, abort, reapStop, enabled, offline, partial, import, task, ext, flagged, sup, requests, upset>>
    BY <1>15 DEF EntryFailed, replica, data, backend
  <2>3. Apart(c)
    BY <2>2, <2>1, DisconnectEffect, Types DEF Apart, EntryFailedDoes, OpBecomes
  <2>4. Kept(c)
    BY <2>2 DEF Kept, InUse
  <2>5. upset \subseteq upset'
    BY <2>2
  <2>6. QED
    BY <2>3, <2>4, <2>5
<1>16. CASE SendChange(c, o)
  <2>1. SendChangeDoes(c, o)
    BY <1>16, SendChangeEffect DEF AccessInv
  <2>2. /\ Readable(c, o) /\ sup[c].st = "in"
        /\ UNCHANGED <<flags, locker, abort, reapStop, enabled, offline, partial, import, task, ext, flagged, conn, sup, requests, upset>>
    BY <1>16 DEF SendChange, replica, data, backend
  <2>3. Apart(c)
    BY <2>2, <2>1 DEF Apart, SendChangeDoes, OpBecomes
  <2>4. Kept(c)
    BY <2>2 DEF Kept, InUse
  <2>5. upset \subseteq upset'
    BY <2>2
  <2>6. QED
    BY <2>3, <2>4, <2>5
<1>17. CASE SendEnd(c, o)
  <2>1. SendEndDoes(c, o)
    BY <1>17, SendEndEffect DEF AccessInv
  <2>2. /\ Readable(c, o) /\ sup[c].st = "in"
        /\ UNCHANGED <<flags, locker, abort, reapStop, enabled, offline, partial, import, task, ext, flagged, conn, requests, upset>>
    BY <1>17 DEF SendEnd, replica, data, backend
  <2>3. Apart(c)
    BY <2>2, <2>1 DEF Apart, SendEndDoes, OpBecomes, SupBecomes
  <2>4. Kept(c)
    BY <2>2 DEF Kept, InUse
  <2>5. upset \subseteq upset'
    BY <2>2
  <2>6. QED
    BY <2>3, <2>4, <2>5
<1>18. ASSUME NEW k \in Kinds \ {"task"}, SendStart(c, o, k)
      PROVE  Apart(c) /\ Kept(c) /\ upset \subseteq upset'
  <2>1. SendStartDoes(c, o, k)
    BY <1>18, SendStartEffect
  <2>2. /\ Readable(c, o) /\ sup[c].st = "idle" /\ sup[c].kind \in {"none", k}
        /\ requests < MaxRequests /\ requests' = requests + 1
        /\ upset' = IF Running(c) # {} \/ (k = "total" /\ ext[c].acquired)
                   THEN upset \cup {c} ELSE upset
        /\ UNCHANGED <<flags, locker, abort, reapStop, enabled, offline, partial, import, task, ext, flagged, conn>>
    BY <1>18 DEF SendStart, replica, data, backend
  <2>3. Apart(c)
    BY <2>2, <2>1 DEF Apart, SendStartDoes, OpBecomes, SupBecomes
  <2>4. Kept(c)
    BY <2>2 DEF Kept, InUse
  <2>5. upset \subseteq upset'
    BY <2>2
  <2>6. QED
    BY <2>3, <2>4, <2>5
<1>19. QED
  BY <1>1, <1>2, <1>3, <1>4, <1>5, <1>6, <1>7, <1>8, <1>9, <1>10, <1>11, <1>12, <1>13,
       <1>14, <1>15, <1>16, <1>17, <1>18 DEF Handle, Supply

(* So does the end of c.                                                   *)
LEMMA ConnApart ==
  ASSUME AccessInv, NEW c \in Conns, GiveUp(c) \/ Close(c) \/ ImportFails(c) \/ DestroyStop(c) \/ Destroy(c)
  PROVE  Apart(c) /\ Kept(c) /\ upset \subseteq upset'
<1> TypeOK /\ FlagsShape
  BY DEF AccessInv
<1>1. CASE GiveUp(c)
  <2>1. GiveUpDoes(c)
    BY <1>1, GiveUpEffect
  <2>2. /\ sup[c].st = "starting"
        /\ UNCHANGED <<flags, locker, abort, reapStop, enabled, offline, partial, import, task, ext, flagged, conn, op, requests, upset>>
    BY <1>1 DEF GiveUp, replica, data, backend
  <2>3. Apart(c)
    BY <2>2, <2>1 DEF Apart, GiveUpDoes, SupBecomes
  <2>4. Kept(c)
    BY <2>2 DEF Kept, InUse
  <2>5. upset \subseteq upset'
    BY <2>2
  <2>6. QED
    BY <2>3, <2>4, <2>5
<1>2. CASE Close(c)
  <2>1. /\ conn[c] = "open" /\ Disconnect(c)
        /\ UNCHANGED <<flags, locker, abort, reapStop, enabled, offline, partial, import, task, ext, flagged, op, sup, requests, upset>>
    BY <1>2 DEF Close, replica, data, backend
  <2>2. Apart(c)
    BY <2>1, DisconnectEffect, Types DEF Apart
  <2>3. Kept(c)
    BY <2>1 DEF Kept, InUse
  <2>4. upset \subseteq upset'
    BY <2>1
  <2>5. QED
    BY <2>2, <2>3, <2>4
<1>3. CASE ImportFails(c)
  <2>1. /\ import = c /\ import' = "nobody"
        /\ \A p \in Slots : op[c][p].pc # "disable"
        /\ UNCHANGED <<flags, locker, abort, reapStop, enabled, offline, partial, task, ext, flagged, conn, op, sup, requests, upset>>
    BY <1>3 DEF ImportFails, replica, data
  <2>2. Apart(c)
    BY <2>1 DEF Apart
  <2>3. Kept(c)
    BY <2>1 DEF Kept, InUse
  <2>4. upset \subseteq upset'
    BY <2>1
  <2>5. QED
    BY <2>2, <2>3, <2>4
<1>4. CASE DestroyStop(c)
  <2>1. /\ conn[c] = "closing" /\ Running(c) = {} /\ conn' = [conn EXCEPT ![c] = "destroying"]
        /\ reapStop' \in BOOLEAN /\ import' = IF import = c THEN "nobody" ELSE import
        /\ \/ import = c /\ EnableReplication(c)
           \/ UNCHANGED <<replica, enabled, offline, upset>>
        /\ UNCHANGED <<partial, task, ext, flagged, op, sup, requests>>
    BY <1>4 DEF DestroyStop, replica
  <2>2. Apart(c)
    BY <2>1, Types DEF Apart, ConnTypeOK
  <2>3. Kept(c)
    BY <2>1, RelinquishEffect DEF Kept, EnableReplication, replica, InUse
  <2>4. upset \subseteq upset'
    BY <2>1, RelinquishEffect DEF EnableReplication
  <2>5. QED
    BY <2>2, <2>3, <2>4
<1>5. CASE Destroy(c)
  <2>1. DestroyDoes(c)
    BY <1>5, DestroyEffect
  <2>2. /\ Running(c) = {}
        /\ \/ ext[c].acquired /\ Relinquish(c)
           \/ ~ext[c].acquired /\ UNCHANGED <<replica, upset>>
        /\ UNCHANGED <<reapStop, enabled, offline, partial, import, task, op, requests>>
    BY <1>5 DEF Destroy, replica, data, backend, Quiet, AccessInv, Running, Free
  <2>3. Apart(c)
    BY <2>2, <2>1, Types DEF Apart, DestroyDoes, ExtBecomes, SupBecomes, ConnTypeOK
  <2>4. Kept(c)
    BY <2>2, RelinquishEffect DEF Kept, replica, InUse
  <2>5. upset \subseteq upset'
    BY <2>2, RelinquishEffect DEF EnableReplication
  <2>6. QED
    BY <2>3, <2>4, <2>5
<1>6. QED
  BY <1>1, <1>2, <1>3, <1>4, <1>5

(* And so do the changes and the tasks of this server.                     *)
LEMMA ServerApart ==
  ASSUME AccessInv, LocalUpdate \/ TaskStart \/ TaskDisable \/ TaskEnd \/ TaskFails \/ UNCHANGED vars
  PROVE  Apart("server") /\ Kept("server") /\ upset \subseteq upset'
<1> TypeOK /\ FlagsShape
  BY DEF AccessInv
<1>1. CASE LocalUpdate
  <2>1. /\ abort' = "sent"
        /\ UNCHANGED <<flags, locker, reapStop, enabled, offline, partial, import, task, ext, flagged, conn, op, sup, requests, upset>>
    BY <1>1 DEF LocalUpdate, data, backend
  <2>2. Apart("server")
    BY <2>1 DEF Apart
  <2>3. Kept("server")
    BY <2>1 DEF Kept, InUse
  <2>4. upset \subseteq upset'
    BY <2>1
  <2>5. QED
    BY <2>2, <2>3, <2>4
<1>2. CASE TaskStart
  <2>1. /\ import = "nobody" /\ import' = "task" /\ task' = "disable"
        /\ requests < MaxRequests /\ requests' = requests + 1
        /\ UNCHANGED <<flags, locker, abort, reapStop, enabled, offline, partial, ext, flagged, conn, op, sup, upset>>
    BY <1>2 DEF TaskStart, replica, data
  <2>2. Apart("server")
    BY <2>1 DEF Apart
  <2>3. Kept("server")
    BY <2>1 DEF Kept, InUse
  <2>4. upset \subseteq upset'
    BY <2>1
  <2>5. QED
    BY <2>2, <2>3, <2>4
<1>3. CASE TaskDisable
  <2>1. /\ task = "disable"
        /\ \/ DisableWaits /\ UNCHANGED task
           \/ DisableReplication /\ task' = "running"
        /\ UNCHANGED <<reapStop, partial, import, ext, flagged, conn, op, sup, requests, upset>>
    BY <1>3 DEF TaskDisable
  <2>2. Apart("server")
    BY <2>1 DEF Apart
  <2>3. Kept("server")
    BY <2>1, DisableEffect, DisableWaitsEffect DEF Kept, InUse
  <2>4. upset \subseteq upset'
    BY <2>1
  <2>5. QED
    BY <2>2, <2>3, <2>4
<1>4. CASE TaskEnd
  <2>1. /\ task = "running" /\ EnableReplication("server") /\ partial' = FALSE
        /\ task' = "none" /\ import' = "nobody"
        /\ UNCHANGED <<reapStop, ext, flagged, conn, op, sup, requests>>
    BY <1>4 DEF TaskEnd
  <2>2. Apart("server")
    BY <2>1 DEF Apart
  <2>3. Kept("server")
    BY <2>1, RelinquishEffect DEF Kept, EnableReplication
  <2>4. upset \subseteq upset'
    BY <2>1, RelinquishEffect DEF EnableReplication
  <2>5. QED
    BY <2>2, <2>3, <2>4
<1>5. CASE TaskFails
  <2>1. /\ task = "running" /\ partial' \in {partial, TRUE}
        /\ task' = "none" /\ import' = "nobody"
        /\ UNCHANGED <<flags, locker, abort, reapStop, enabled, offline, ext, flagged, conn, op, sup, requests, upset>>
    BY <1>5 DEF TaskFails, replica
  <2>2. Apart("server")
    BY <2>1 DEF Apart
  <2>3. Kept("server")
    BY <2>1 DEF Kept, InUse
  <2>4. upset \subseteq upset'
    BY <2>1
  <2>5. QED
    BY <2>2, <2>3, <2>4
<1>6. CASE UNCHANGED vars
  BY <1>6 DEF vars, replica, Apart, Kept, InUse
<1>7. QED
  BY <1>1, <1>2, <1>3, <1>4, <1>5, <1>6

(* No session has started yet.                                             *)
THEOREM SessionInit == Init => SessionInv
BY DEF Init, SessionInv, Sound, Single, Owned, Told, StartedOp, ChangeOp, Free, Idle, NewExt

(* One step of a handler, a supplier, a connection or a task.              *)
THEOREM SessionNext == AccessInv /\ SessionInv /\ [Next]_vars => SessionInv'
<1> SUFFICES ASSUME AccessInv, SessionInv, [Next]_vars PROVE SessionInv'
  OBVIOUS
<1> TypeOK /\ FlagsShape
  BY DEF AccessInv
<1>1. ASSUME NEW c \in Conns, NEW o \in Slots, StartCheck(c, o), 
             Sound(c), c \notin upset'
      PROVE  Sound(c)'
  <2>1. StartCheckDoes(c, o)
    BY <1>1, StartCheckEffect
  <2>2. /\ op[c][o].pc = "start"
        /\ UNCHANGED <<flags, locker, abort, reapStop, enabled, offline, partial, import, task, flagged, conn, sup, requests, upset>>
    BY <1>1 DEF StartCheck, replica, data, backend
  <2>3. op[c][o] \in OpRec /\ ext[c] \in ExtRec /\ sup[c] \in SupRec
    BY Types
  <2>4. /\ \A p \in Slots : p # o => Free(c, p)
        /\ ext[c].acquired => Holds(c)
        /\ sup[c].st # "in" /\ StartedOp(c, o)
    BY <2>2, <1>1, Alone DEF Free
  <2>5. /\ OthersOp(c, o) /\ op'[c][o].pc \in {"mark", "acquire", "reply"}
        /\ op'[c][o].kind = op[c][o].kind /\ op'[c][o].resp # "READY"
        /\ ext'[c].acquired = ext[c].acquired
        /\ op'[c][o].connext /\ op'[c][o].replica => ext'[c].version = op'[c][o].kind
        /\ op'[c][o].pc # "reply" => op'[c][o].connext /\ op'[c][o].replica
        /\ op'[c][o].pc = "mark" => op'[c][o].kind = "total"
    <3>1. ~op[c][o].connext
      BY <2>2 DEF AccessInv, ExtUser
    <3>2. CASE /\ UNCHANGED ext
               /\ \/ OpBecomes(c, o, [op[c][o] EXCEPT !.pc = "reply", !.resp = "ERROR"])
                  \/ OpBecomes(c, o, [op[c][o] EXCEPT !.pc = "reply", !.resp = "BUSY"])
      BY <2>3, <3>1, <3>2 DEF OpBecomes, OthersOp, OpRec
    <3>3. ASSUME NEW pc \in {"mark", "acquire", "reply"}, NEW resp \in {"BUSY", "ERROR"},
                 NEW found \in BOOLEAN,
                 OpBecomes(c, o, [op[c][o] EXCEPT !.pc = pc, !.resp = resp, !.connext = TRUE,
                                                  !.replica = found]),
                 \/ /\ ~found /\ pc = "reply" /\ ExtBecomes(c, [ext[c] EXCEPT !.user = o])
                 \/ /\ ExtBecomes(c, [ext[c] EXCEPT !.user = o, !.version = op[c][o].kind])
                    /\ pc # "reply" => found
                    /\ pc = "mark" => op[c][o].kind = "total"
          PROVE  /\ OthersOp(c, o) /\ op'[c][o].pc \in {"mark", "acquire", "reply"}
                 /\ op'[c][o].kind = op[c][o].kind /\ op'[c][o].resp # "READY"
                 /\ ext'[c].acquired = ext[c].acquired
                 /\ op'[c][o].connext /\ op'[c][o].replica => ext'[c].version = op'[c][o].kind
                 /\ op'[c][o].pc # "reply" => op'[c][o].connext /\ op'[c][o].replica
                 /\ op'[c][o].pc = "mark" => op'[c][o].kind = "total"
      <4>1. /\ OthersOp(c, o) /\ op'[c][o].pc = pc /\ op'[c][o].kind = op[c][o].kind
            /\ op'[c][o].resp = resp /\ op'[c][o].connext /\ op'[c][o].replica = found
        BY <2>3, <3>3 DEF OpBecomes, OthersOp, OpRec
      <4>2. ext'[c].acquired = ext[c].acquired
              /\ (found => ext'[c].version = op[c][o].kind) /\ (pc # "reply" => found)
        BY <2>3, <3>3 DEF ExtBecomes, ExtRec
      <4>3. QED
        BY <3>3, <4>1, <4>2
    <3>4. QED
      BY <2>1, <3>2, <3>3 DEF StartCheckDoes
  <2>6. Holds(c) => Holds(c)'
    BY <2>2, <2>5 DEF Holds, InUse
  <2>7. \A p \in Slots : p # o => Free(c, p)'
    BY <2>4, <2>5 DEF OthersOp, Free
  <2>8. StartedOp(c, o)' /\ ChangeOp(c, o)'
    BY <2>5 DEF StartedOp, ChangeOp
  <2>9. QED
    BY <2>2, <2>4, <2>5, <2>6, <2>7, <2>8, OwnSound
<1>2. ASSUME NEW c \in Conns, NEW o \in Slots, StartMark(c, o), 
             Sound(c), c \notin upset'
      PROVE  Sound(c)'
  <2>1. StartMarkDoes(c, o)
    BY <1>2, StartMarkEffect
  <2>2. /\ op[c][o].pc = "mark" /\ flags' = flags \cup {"TOTAL_EXCL_RECV"}
        /\ UNCHANGED <<locker, abort, reapStop, enabled, offline, partial, import, task, ext, flagged, conn, sup, requests, upset>>
    BY <1>2 DEF StartMark, data, backend
  <2>3. op[c][o] \in OpRec /\ ext[c] \in ExtRec /\ sup[c] \in SupRec
    BY Types
  <2>4. /\ \A p \in Slots : p # o => Free(c, p)
        /\ ext[c].acquired => Holds(c)
        /\ sup[c].st # "in" /\ StartedOp(c, o)
    BY <2>2, <1>2, Alone DEF Free
  <2>5. OthersOp(c, o) /\ op'[c][o] = [op[c][o] EXCEPT !.pc = "acquire"]
    BY <2>1 DEF StartMarkDoes, OpBecomes, OthersOp
  <2>6. Holds(c) => Holds(c)'
    BY <2>2 DEF Holds, InUse
  <2>7. \A p \in Slots : p # o => Free(c, p)'
    BY <2>4, <2>5 DEF OthersOp, Free
  <2>8. StartedOp(c, o)' /\ ChangeOp(c, o)' /\ op'[c][o].pc = "acquire"
    BY <2>2, <2>3, <2>4, <2>5 DEF StartedOp, ChangeOp, OpRec
  <2>9. QED
    BY <2>2, <2>4, <2>6, <2>7, <2>8, OwnSound
<1>3. ASSUME NEW c \in Conns, NEW o \in Slots, StartAcquire(c, o), 
             Sound(c), c \notin upset'
      PROVE  Sound(c)'
  <2>1. StartAcquireDoes(c, o)
    BY <1>3, StartAcquireEffect
  <2>2. /\ op[c][o].pc = "acquire"
        /\ UNCHANGED <<reapStop, enabled, offline, partial, import, task, flagged, conn, sup, requests, upset>>
    BY <1>3 DEF StartAcquire, replica, data, backend
  <2>3. op[c][o] \in OpRec /\ ext[c] \in ExtRec /\ sup[c] \in SupRec
    BY Types
  <2>4. /\ \A p \in Slots : p # o => Free(c, p)
        /\ ext[c].acquired => Holds(c)
        /\ sup[c].st # "in" /\ StartedOp(c, o)
    BY <2>2, <1>3, Alone DEF Free
  <2>5. CASE /\ \/ OpBecomes(c, o, [op[c][o] EXCEPT !.pc = "reply", !.resp = "ERROR"])
                \/ OpBecomes(c, o, [op[c][o] EXCEPT !.pc = "reply", !.resp = "BUSY"])
             /\ UNCHANGED <<flags, locker, ext>>
    <3>1. /\ OthersOp(c, o) /\ op'[c][o].pc = "reply" /\ op'[c][o].resp # "READY"
          /\ op'[c][o].kind = op[c][o].kind
      BY <2>3, <2>5 DEF OpBecomes, OthersOp, OpRec
    <3>2. \A p \in Slots : p # o => Free(c, p)'
      BY <2>4, <3>1 DEF OthersOp, Free
    <3>3. Holds(c) => Holds(c)'
      BY <2>5 DEF Holds, InUse
    <3>4. StartedOp(c, o)' /\ ChangeOp(c, o)'
      BY <2>2, <2>4, <2>5, <3>1 DEF StartedOp, ChangeOp
    <3>5. QED
      BY <2>2, <2>4, <2>5, <3>1, <3>2, <3>3, <3>4, OwnSound
  <2>6. CASE /\ InUse' /\ locker' = c
             /\ ExtBecomes(c, [ext[c] EXCEPT !.acquired = TRUE])
             /\ OpBecomes(c, o, [op[c][o] EXCEPT !.pc = "begin"])
    <3>1. /\ OthersOp(c, o) /\ op'[c][o].pc = "begin" /\ op'[c][o].kind = op[c][o].kind
          /\ op'[c][o].connext = op[c][o].connext /\ op'[c][o].replica = op[c][o].replica
      BY <2>3, <2>6 DEF OpBecomes, OthersOp, OpRec
    <3>2. \A p \in Slots : p # o => Free(c, p)'
      BY <2>4, <3>1 DEF OthersOp, Free
    <3>3. Holds(c)' /\ ext'[c].version = ext[c].version
      BY <2>3, <2>6 DEF Holds, ExtBecomes, ExtRec
    <3>4. StartedOp(c, o)' /\ ChangeOp(c, o)'
      BY <2>2, <2>4, <3>1, <3>3 DEF StartedOp, ChangeOp
    <3>5. QED
      BY <2>2, <2>4, <3>1, <3>2, <3>3, <3>4, OwnSound
  <2>7. QED
    BY <2>1, <2>5, <2>6 DEF StartAcquireDoes, Take, TakeAgain, Refused, replica, InUse
<1>4. ASSUME NEW c \in Conns, NEW o \in Slots, StartBegin(c, o), 
             Sound(c), c \notin upset'
      PROVE  Sound(c)'
  <2>1. StartBeginDoes(c, o)
    BY <1>4, StartBeginEffect
  <2>2. /\ op[c][o].pc = "begin"
        /\ UNCHANGED <<flags, locker, abort, enabled, offline, partial, task, conn, sup, requests, upset>>
    BY <1>4 DEF StartBegin, replica
  <2>3. op[c][o] \in OpRec /\ ext[c] \in ExtRec /\ sup[c] \in SupRec
    BY Types
  <2>4. /\ \A p \in Slots : p # o => Free(c, p)
        /\ ext[c].acquired => Holds(c)
        /\ sup[c].st # "in" /\ StartedOp(c, o)
    BY <2>2, <1>4, Alone DEF Free
  <2>5. CASE /\ OpBecomes(c, o, [op[c][o] EXCEPT !.pc = "reply", !.resp = "READY"])
             /\ ExtBecomes(c, [ext[c] EXCEPT !.session = TRUE]) /\ flagged'[c] = TRUE
    <3>1. /\ OthersOp(c, o) /\ op'[c][o].pc = "reply" /\ op'[c][o].kind = op[c][o].kind
      BY <2>3, <2>5 DEF OpBecomes, OthersOp, OpRec
    <3>2. \A p \in Slots : p # o => Free(c, p)'
      BY <2>4, <3>1 DEF OthersOp, Free
    <3>3. Session(c)' /\ ext'[c].version = ext[c].version
      BY <2>2, <2>3, <2>4, <2>5 DEF Session, Holds, InUse, ExtBecomes, ExtRec, StartedOp
    <3>4. StartedOp(c, o)' /\ ChangeOp(c, o)'
      BY <2>2, <2>4, <3>1, <3>3 DEF StartedOp, ChangeOp, Session
    <3>5. QED
      BY <2>2, <2>4, <3>1, <3>2, <3>3, <3>4, OwnSound DEF Session
  <2>6. ASSUME NEW pc \in {"disable", "reply"},
               OthersOp(c, o) /\ op'[c][o].pc = pc /\ op'[c][o].kind = op[c][o].kind,
               op'[c][o].connext = op[c][o].connext /\ op'[c][o].replica = op[c][o].replica,
               pc = "reply" => op'[c][o].resp = "ERROR", UNCHANGED <<ext, flagged>>
        PROVE  Sound(c)'
    <3>1. \A p \in Slots : p # o => Free(c, p)'
      BY <2>4, <2>6 DEF OthersOp, Free
    <3>2. Holds(c) => Holds(c)'
      BY <2>2, <2>6 DEF Holds, InUse
    <3>3. StartedOp(c, o)' /\ ChangeOp(c, o)'
      BY <2>2, <2>4, <2>6, <3>2 DEF StartedOp, ChangeOp
    <3>4. QED
      BY <2>2, <2>4, <2>6, <3>1, <3>2, <3>3, OwnSound
  <2>7. CASE OpBecomes(c, o, [op[c][o] EXCEPT !.pc = "disable"]) /\ UNCHANGED <<ext, flagged>>
    BY <2>3, <2>6, <2>7 DEF OpBecomes, OthersOp, OpRec
  <2>8. CASE /\ OpBecomes(c, o, [op[c][o] EXCEPT !.pc = "reply", !.resp = "ERROR"])
             /\ UNCHANGED <<ext, flagged>>
    BY <2>3, <2>6, <2>8 DEF OpBecomes, OthersOp, OpRec
  <2>9. QED
    BY <2>1, <2>5, <2>7, <2>8 DEF StartBeginDoes
<1>5. ASSUME NEW c \in Conns, NEW o \in Slots, StartDisable(c, o), 
             Sound(c), c \notin upset'
      PROVE  Sound(c)'
  <2>1. StartDisableDoes(c, o)
    BY <1>5, StartDisableEffect
  <2>2. /\ op[c][o].pc = "disable"
        /\ UNCHANGED <<reapStop, task, conn, sup, requests, upset>>
    BY <1>5 DEF StartDisable
  <2>3. op[c][o] \in OpRec /\ ext[c] \in ExtRec /\ sup[c] \in SupRec
    BY Types
  <2>4. /\ \A p \in Slots : p # o => Free(c, p)
        /\ ext[c].acquired => Holds(c)
        /\ sup[c].st # "in" /\ StartedOp(c, o)
    BY <2>2, <1>5, Alone DEF Free
  <2>5. UNCHANGED <<flags, locker>>
    <3>1. InUse
      BY <2>2, <2>4 DEF StartedOp, Holds
    <3>2. QED
      BY <2>1, <3>1, DisableEffect, DisableWaitsEffect DEF StartDisableDoes
  <2>6. CASE /\ OpBecomes(c, o, [op[c][o] EXCEPT !.pc = "reply", !.resp = "READY"])
             /\ ExtBecomes(c, [ext[c] EXCEPT !.session = TRUE]) /\ flagged'[c] = TRUE
    <3>1. /\ OthersOp(c, o) /\ op'[c][o].pc = "reply" /\ op'[c][o].kind = op[c][o].kind
      BY <2>3, <2>6 DEF OpBecomes, OthersOp, OpRec
    <3>2. \A p \in Slots : p # o => Free(c, p)'
      BY <2>4, <3>1 DEF OthersOp, Free
    <3>3. Session(c)' /\ ext'[c].version = ext[c].version
      BY <2>2, <2>3, <2>4, <2>6, <2>5 DEF Session, Holds, InUse, ExtBecomes, ExtRec, StartedOp
    <3>4. StartedOp(c, o)' /\ ChangeOp(c, o)'
      BY <2>2, <2>4, <3>1, <3>3 DEF StartedOp, ChangeOp, Session
    <3>5. QED
      BY <2>2, <2>4, <3>1, <3>2, <3>3, <3>4, OwnSound DEF Session
  <2>7. CASE UNCHANGED <<op, ext, flagged>>
    <3>1. Holds(c) => Holds(c)'
      BY <2>7, <2>5 DEF Holds, InUse
    <3>2. StartedOp(c, o)' /\ ChangeOp(c, o)' /\ \A p \in Slots : p # o => Free(c, p)'
      BY <2>2, <2>4, <2>7, <3>1 DEF StartedOp, ChangeOp, Free
    <3>3. QED
      BY <2>2, <2>4, <2>7, <3>1, <3>2, OwnSound
  <2>8. CASE /\ OpBecomes(c, o, [op[c][o] EXCEPT !.pc = "reply", !.resp = "ERROR"])
             /\ UNCHANGED <<ext, flagged>>
    <3>1. /\ OthersOp(c, o) /\ op'[c][o].pc = "reply" /\ op'[c][o].kind = op[c][o].kind
          /\ op'[c][o].resp = "ERROR"
      BY <2>3, <2>8 DEF OpBecomes, OthersOp, OpRec
    <3>2. \A p \in Slots : p # o => Free(c, p)'
      BY <2>4, <3>1 DEF OthersOp, Free
    <3>3. Holds(c) => Holds(c)'
      BY <2>8, <2>5 DEF Holds, InUse
    <3>4. StartedOp(c, o)' /\ ChangeOp(c, o)'
      BY <2>2, <2>4, <2>8, <3>1 DEF StartedOp, ChangeOp
    <3>5. QED
      BY <2>2, <2>4, <2>8, <3>1, <3>2, <3>3, <3>4, OwnSound
  <2>9. QED
    BY <2>1, <2>6, <2>7, <2>8 DEF StartDisableDoes
<1>6. ASSUME NEW c \in Conns, NEW o \in Slots, StartReply(c, o), 
             Sound(c), c \notin upset'
      PROVE  Sound(c)'
  <2>1. StartReplyDoes(c, o)
    BY <1>6, StartReplyEffect
  <2>2. /\ op[c][o].pc = "reply"
        /\ flags' = IF Marked(c, o) THEN flags \ {"TOTAL_EXCL_RECV"} ELSE flags
        /\ reapStop' = (reapStop /\ ~(op[c][o].resp # "READY" /\ op[c][o].replica))
        /\ UNCHANGED <<locker, abort, enabled, offline, partial, import, task, flagged, conn, requests>>
    BY <1>6 DEF StartReply, backend
  <2>3. op[c][o] \in OpRec /\ ext[c] \in ExtRec /\ sup[c] \in SupRec
    BY Types
  <2>4. /\ \A p \in Slots : p # o => Free(c, p)
        /\ ext[c].acquired => Holds(c)
        /\ sup[c].st # "in" /\ StartedOp(c, o)
    BY <2>2, <1>6, Alone DEF Free
  <2>5. /\ ext'[c].acquired = ext[c].acquired /\ ext'[c].session = ext[c].session
        /\ ext'[c].version = ext[c].version
    BY <2>1, <2>3 DEF StartReplyDoes, ExtRec
  <2>6. PICK resp \in {op[c][o].resp, "ERROR"}, s \in {"in", "idle", sup[c].st} :
          /\ resp = op[c][o].resp \/ op[c][o].resp # "READY"
          /\ IF resp = "READY" THEN OpBecomes(c, o, Idle)
             ELSE OpBecomes(c, o, [op[c][o] EXCEPT !.pc = "cleanup"])
          /\ SupBecomes(c, [sup[c] EXCEPT !.st = s])
          /\ s = "in" /\ s # sup[c].st => resp = "READY"
    BY <2>1, <1>6 DEF StartReplyDoes
  <2>7. sup'[c].st = s
    BY <2>3, <2>6 DEF SupBecomes, SupRec
  <2>8. OthersOp(c, o) /\ op'[c][o].pc = IF resp = "READY" THEN "free" ELSE "cleanup"
    BY <2>3, <2>6 DEF OpBecomes, OthersOp, OpRec, Idle
  <2>9. Holds(c) => Holds(c)'
    BY <2>2, <2>5 DEF Holds, InUse
  <2>10. s = "in" => Session(c)' /\ op'[c][o].pc = "free"
    BY <2>2, <2>4, <2>5, <2>6, <2>8, <2>9 DEF StartedOp, Session
  <2>11. StartedOp(c, o)' /\ ChangeOp(c, o)' /\ \A p \in Slots : p # o => Free(c, p)'
    BY <2>4, <2>8 DEF StartedOp, ChangeOp, Free, OthersOp
  <2>12. QED
    BY <2>2, <2>4, <2>5, <2>7, <2>9, <2>10, <2>11, OwnSound
<1>7. ASSUME NEW c \in Conns, NEW o \in Slots, StartCleanup(c, o), 
             Sound(c), c \notin upset'
      PROVE  Sound(c)'
  <2>1. StartCleanupDoes(c, o)
    BY <1>7, StartCleanupEffect
  <2>2. /\ op[c][o].pc = "cleanup"
        /\ flags' = IF op[c][o].connext /\ ext[c].acquired /\ locker = c THEN Freed ELSE flags
        /\ UNCHANGED <<locker, abort, reapStop, enabled, offline, partial, import, task, sup, requests, upset>>
    BY <1>7 DEF StartCleanup, data, backend
  <2>3. op[c][o] \in OpRec /\ ext[c] \in ExtRec /\ sup[c] \in SupRec
    BY Types
  <2>4. /\ \A p \in Slots : p # o => Free(c, p)
        /\ ext[c].acquired => Holds(c)
        /\ sup[c].st # "in" /\ StartedOp(c, o)
    BY <2>2, <1>7, Alone DEF Free
  <2>5. OthersOp(c, o) /\ op'[c][o].pc = "free"
    BY <2>1 DEF StartCleanupDoes, OpBecomes, OthersOp, Idle
  <2>6. ext'[c].acquired => Holds(c)'
    <3>1. CASE op[c][o].connext
      <4>1. ext'[c].acquired = (ext[c].acquired /\ locker # c)
        BY <2>1, <2>3, <3>1 DEF StartCleanupDoes, ExtBecomes, ExtRec
      <4>2. QED
        BY <2>4, <4>1 DEF Holds
    <3>2. CASE ~op[c][o].connext
      BY <2>1, <2>2, <2>4, <3>2 DEF StartCleanupDoes, Holds, InUse
    <3>3. QED
      BY <3>1, <3>2
  <2>7. StartedOp(c, o)' /\ ChangeOp(c, o)' /\ \A p \in Slots : p # o => Free(c, p)'
    BY <2>4, <2>5 DEF StartedOp, ChangeOp, Free, OthersOp
  <2>8. QED
    BY <2>2, <2>4, <2>6, <2>7, OwnSound
<1>8. ASSUME NEW c \in Conns, NEW o \in Slots, EndConnext(c, o), 
             Sound(c), c \notin upset'
      PROVE  Sound(c)'
  <2>1. EndConnextDoes(c, o)
    BY <1>8, EndConnextEffect
  <2>2. /\ op[c][o].pc = "end"
        /\ UNCHANGED <<locker, abort, reapStop, enabled, offline, partial, import, task, flagged, conn, requests, upset>>
    BY <1>8 DEF EndConnext, data, backend
  <2>3. op[c][o] \in OpRec /\ ext[c] \in ExtRec /\ sup[c] \in SupRec
    BY Types
  <2>4. /\ \A p \in Slots : p # o => Free(c, p)
        /\ ext[c].acquired => Holds(c)
        /\ sup[c].st # "in" /\ StartedOp(c, o)
    BY <2>2, <1>8, Alone DEF Free
  <2>5. /\ OthersOp(c, o) /\ op'[c][o].pc \in {"free", "stop", "release"}
        /\ ext'[c].acquired = ext[c].acquired /\ InUse' = InUse
        /\ sup'[c].st \in {"idle", sup[c].st}
    <3>1. CASE /\ UNCHANGED sup /\ ExtBecomes(c, [ext[c] EXCEPT !.user = o])
               /\ \/ /\ flags' = flags \ {"TOTAL"}
                     /\ OpBecomes(c, o, [op[c][o] EXCEPT !.pc = "stop"])
                  \/ /\ UNCHANGED flags
                     /\ OpBecomes(c, o, [op[c][o] EXCEPT !.pc = "release"])
      BY <2>3, <3>1 DEF OpBecomes, ExtBecomes, OthersOp, OpRec, ExtRec, InUse
    <3>2. CASE /\ OpBecomes(c, o, Idle) /\ UNCHANGED <<ext, flags>>
               /\ \E s \in {"idle", sup[c].st} : SupBecomes(c, [sup[c] EXCEPT !.st = s])
      BY <2>3, <3>2 DEF OpBecomes, SupBecomes, OthersOp, Idle, SupRec, InUse
    <3>3. QED
      BY <2>1, <3>1, <3>2 DEF EndConnextDoes
  <2>6. Holds(c) => Holds(c)'
    BY <2>2, <2>5 DEF Holds
  <2>7. StartedOp(c, o)' /\ ChangeOp(c, o)' /\ \A p \in Slots : p # o => Free(c, p)'
    BY <2>4, <2>5 DEF StartedOp, ChangeOp, Free, OthersOp
  <2>8. QED
    BY <2>2, <2>4, <2>5, <2>6, <2>7, OwnSound
<1>9. ASSUME NEW c \in Conns, NEW o \in Slots, EndStop(c, o), 
             Sound(c), c \notin upset'
      PROVE  Sound(c)'
  <2>1. EndStopDoes(c, o)
    BY <1>9, EndStopEffect
  <2>2. /\ op[c][o].pc = "stop"
        /\ \/ /\ import = c /\ EnableReplication(c) /\ import' = "nobody" /\ partial' = FALSE
           \/ import # c /\ UNCHANGED <<replica, enabled, offline, import, partial, upset>>
        /\ UNCHANGED <<reapStop, task, ext, flagged, conn, sup, requests>>
    BY <1>9 DEF EndStop, replica
  <2>3. op[c][o] \in OpRec /\ ext[c] \in ExtRec /\ sup[c] \in SupRec
    BY Types
  <2>4. /\ \A p \in Slots : p # o => Free(c, p)
        /\ sup[c].st # "in"
    BY <2>2, <1>9, Alone DEF Free
  <2>5. OthersOp(c, o) /\ op'[c][o].pc = "install"
    BY <2>1, <2>3 DEF EndStopDoes, OpBecomes, OthersOp, OpRec
  <2>6. StartedOp(c, o)' /\ ChangeOp(c, o)' /\ \A p \in Slots : p # o => Free(c, p)'
    BY <2>4, <2>5 DEF StartedOp, ChangeOp, Free, OthersOp
  <2>7. QED
    BY <2>2, <2>4, <2>5, <2>6, OwnSound
<1>10. ASSUME NEW c \in Conns, NEW o \in Slots, EndInstall(c, o), 
             Sound(c), c \notin upset'
      PROVE  Sound(c)'
  <2>1. EndInstallDoes(c, o)
    BY <1>10, EndInstallEffect
  <2>2. /\ op[c][o].pc = "install" /\ reapStop' = FALSE
        /\ UNCHANGED <<flags, locker, abort, enabled, offline, partial, import, task, ext, flagged, conn, sup, requests, upset>>
    BY <1>10 DEF EndInstall, replica, backend
  <2>3. op[c][o] \in OpRec /\ ext[c] \in ExtRec /\ sup[c] \in SupRec
    BY Types
  <2>4. /\ \A p \in Slots : p # o => Free(c, p)
        /\ sup[c].st # "in"
    BY <2>2, <1>10, Alone DEF Free
  <2>5. OthersOp(c, o) /\ op'[c][o].pc = "release"
    BY <2>1, <2>3 DEF EndInstallDoes, OpBecomes, OthersOp, OpRec
  <2>6. StartedOp(c, o)' /\ ChangeOp(c, o)' /\ \A p \in Slots : p # o => Free(c, p)'
    BY <2>4, <2>5 DEF StartedOp, ChangeOp, Free, OthersOp
  <2>7. QED
    BY <2>2, <2>4, <2>5, <2>6, OwnSound
<1>11. ASSUME NEW c \in Conns, NEW o \in Slots, EndRelease(c, o), 
             Sound(c), c \notin upset'
      PROVE  Sound(c)'
  <2>1. EndReleaseDoes(c, o)
    BY <1>11, EndReleaseEffect
  <2>2. /\ op[c][o].pc = "release" /\ Relinquish(c)
        /\ UNCHANGED <<reapStop, enabled, offline, partial, import, task, conn, requests>>
    BY <1>11 DEF EndRelease, data, backend
  <2>3. op[c][o] \in OpRec /\ ext[c] \in ExtRec /\ sup[c] \in SupRec
    BY Types
  <2>4. /\ \A p \in Slots : p # o => Free(c, p)
        /\ sup[c].st # "in"
    BY <2>2, <1>11, Alone DEF Free
  <2>5. OthersOp(c, o) /\ op'[c][o].pc = "free" /\ ~ext'[c].acquired /\ sup'[c].st # "in"
    BY <2>1, <2>3, <2>4 DEF EndReleaseDoes, OpBecomes, ExtBecomes, SupBecomes, OthersOp, Idle, ExtRec,
         SupRec
  <2>6. StartedOp(c, o)' /\ ChangeOp(c, o)' /\ \A p \in Slots : p # o => Free(c, p)'
    BY <2>4, <2>5 DEF StartedOp, ChangeOp, Free, OthersOp
  <2>7. QED
    BY <2>2, <2>5, <2>6, OwnSound
<1>12. ASSUME NEW c \in Conns, NEW o \in Slots, UpdateApplied(c, o), 
             Sound(c), c \notin upset'
      PROVE  Sound(c)'
  <2>1. UpdateAppliedDoes(c, o)
    BY <1>12, UpdateAppliedEffect
  <2>2. /\ op[c][o].pc = "update" /\ abort' \in {"sent", abort}
        /\ UNCHANGED <<flags, locker, reapStop, enabled, offline, partial, import, task, ext, flagged, conn, requests, upset>>
    BY <1>12 DEF UpdateApplied, data, backend
  <2>3. op[c][o] \in OpRec /\ ext[c] \in ExtRec /\ sup[c] \in SupRec
    BY Types
  <2>4. /\ \A p \in Slots : p # o => Free(c, p)
        /\ ext[c].acquired => Holds(c)
        /\ ChangeOp(c, o) /\ (sup[c].st = "in" /\ conn[c] = "open" => Session(c))
    BY <2>2, <1>12, Alone DEF Free, Sound, Told
  <2>5. OthersOp(c, o) /\ op'[c][o].pc = "free"
    BY <2>1 DEF UpdateAppliedDoes, OpBecomes, OthersOp, Idle
  <2>6. StartedOp(c, o)' /\ ChangeOp(c, o)' /\ \A p \in Slots : p # o => Free(c, p)'
    BY <2>4, <2>5 DEF StartedOp, ChangeOp, Free, OthersOp
  <2>7. (Holds(c) => Holds(c)') /\ (Session(c) => Session(c)')
    BY <2>2 DEF Holds, Session, InUse
  <2>8. sup'[c].st = sup[c].st
    BY <2>1, <2>3 DEF UpdateAppliedDoes, SupBecomes, SupRec
  <2>9. QED
    BY <2>2, <2>4, <2>5, <2>6, <2>7, <2>8, OwnSound
<1>13. ASSUME NEW c \in Conns, NEW o \in Slots, UpdateFailed(c, o), 
             Sound(c), c \notin upset'
      PROVE  Sound(c)'
  <2>1. UpdateFailedDoes(c, o)
    BY <1>13, UpdateFailedEffect
  <2>2. /\ op[c][o].pc = "update"
        /\ UNCHANGED <<reapStop, enabled, offline, partial, import, task, sup, requests>>
    BY <1>13 DEF UpdateFailed, replica, data, backend
  <2>3. op[c][o] \in OpRec /\ ext[c] \in ExtRec /\ sup[c] \in SupRec
    BY Types
  <2>4. /\ \A p \in Slots : p # o => Free(c, p)
        /\ ext[c].acquired => Holds(c)
        /\ ChangeOp(c, o) /\ (sup[c].st = "in" /\ conn[c] = "open" => Session(c))
    BY <2>2, <1>13, Alone DEF Free, Sound, Told
  <2>5. OthersOp(c, o) /\ op'[c][o].pc = "free"
    BY <2>1 DEF UpdateFailedDoes, OpBecomes, OthersOp, Idle
  <2>6. StartedOp(c, o)' /\ ChangeOp(c, o)' /\ \A p \in Slots : p # o => Free(c, p)'
    BY <2>4, <2>5 DEF StartedOp, ChangeOp, Free, OthersOp
  <2>7. op[c][o].replicated
    BY <2>2, <2>4 DEF ChangeOp
  <2>8. conn'[c] # "open"
    BY <2>1, <2>7, DisconnectEffect, Types DEF UpdateFailedDoes
  <2>9. ext'[c].acquired => Holds(c)'
    <3>1. CASE ExtBecomes(c, [ext[c] EXCEPT !.acquired = FALSE, !.session = FALSE])
      BY <2>3, <3>1 DEF ExtBecomes, ExtRec
    <3>2. CASE UNCHANGED <<replica, ext>>
      BY <2>4, <3>2 DEF Holds, InUse, replica
    <3>3. QED
      BY <2>1, <3>1, <3>2 DEF UpdateFailedDoes
  <2>10. QED
    BY <2>5, <2>6, <2>8, <2>9, OwnSound
<1>14. ASSUME NEW c \in Conns, NEW o \in Slots, EntryQueued(c, o), 
             Sound(c), c \notin upset'
      PROVE  Sound(c)'
  <2>1. EntryQueuedDoes(c, o)
    BY <1>14, EntryQueuedEffect
  <2>2. /\ op[c][o].pc = "entry"
        /\ UNCHANGED <<flags, locker, abort, reapStop, enabled, offline, partial, import, task, ext, flagged, conn, sup, requests, upset>>
    BY <1>14 DEF EntryQueued, replica, data, backend
  <2>3. op[c][o] \in OpRec /\ ext[c] \in ExtRec /\ sup[c] \in SupRec
    BY Types
  <2>4. /\ \A p \in Slots : p # o => Free(c, p)
        /\ ext[c].acquired => Holds(c)
        /\ ChangeOp(c, o) /\ (sup[c].st = "in" /\ conn[c] = "open" => Session(c))
    BY <2>2, <1>14, Alone DEF Free, Sound, Told
  <2>5. OthersOp(c, o) /\ op'[c][o].pc = "free"
    BY <2>1 DEF EntryQueuedDoes, OpBecomes, OthersOp, Idle
  <2>6. StartedOp(c, o)' /\ ChangeOp(c, o)' /\ \A p \in Slots : p # o => Free(c, p)'
    BY <2>4, <2>5 DEF StartedOp, ChangeOp, Free, OthersOp
  <2>7. (Holds(c) => Holds(c)') /\ (Session(c) => Session(c)')
    BY <2>2 DEF Holds, Session, InUse
  <2>8. QED
    BY <2>2, <2>4, <2>5, <2>6, <2>7, DisconnectEffect, Types, OwnSound
<1>15. ASSUME NEW c \in Conns, NEW o \in Slots, EntryFailed(c, o), 
             Sound(c), c \notin upset'
      PROVE  Sound(c)'
  <2>1. EntryFailedDoes(c, o)
    BY <1>15, EntryFailedEffect
  <2>2. /\ op[c][o].pc = "entry" /\ Disconnect(c)
        /\ UNCHANGED <<flags, locker, abort, reapStop, enabled, offline, partial, import, task, ext, flagged, sup, requests, upset>>
    BY <1>15 DEF EntryFailed, replica, data, backend
  <2>3. op[c][o] \in OpRec /\ ext[c] \in ExtRec /\ sup[c] \in SupRec
    BY Types
  <2>4. /\ \A p \in Slots : p # o => Free(c, p)
        /\ ext[c].acquired => Holds(c)
        /\ ChangeOp(c, o) /\ (sup[c].st = "in" /\ conn[c] = "open" => Session(c))
    BY <2>2, <1>15, Alone DEF Free, Sound, Told
  <2>5. OthersOp(c, o) /\ op'[c][o].pc = "free"
    BY <2>1 DEF EntryFailedDoes, OpBecomes, OthersOp, Idle
  <2>6. StartedOp(c, o)' /\ ChangeOp(c, o)' /\ \A p \in Slots : p # o => Free(c, p)'
    BY <2>4, <2>5 DEF StartedOp, ChangeOp, Free, OthersOp
  <2>7. (Holds(c) => Holds(c)') /\ (Session(c) => Session(c)')
    BY <2>2 DEF Holds, Session, InUse
  <2>8. QED
    BY <2>2, <2>4, <2>5, <2>6, <2>7, DisconnectEffect, Types, OwnSound
<1>16. ASSUME NEW c \in Conns, NEW o \in Slots, SendChange(c, o), 
             Sound(c), c \notin upset'
      PROVE  Sound(c)'
  <2>1. SendChangeDoes(c, o)
    BY <1>16, SendChangeEffect DEF AccessInv
  <2>2. /\ Readable(c, o) /\ sup[c].st = "in"
        /\ UNCHANGED <<flags, locker, abort, reapStop, enabled, offline, partial, import, task, ext, flagged, conn, sup, requests, upset>>
    BY <1>16 DEF SendChange, replica, data, backend
  <2>3. op[c][o] \in OpRec /\ ext[c] \in ExtRec /\ sup[c] \in SupRec
    BY Types
  <2>4. Sound(c) /\ conn[c] = "open" /\ Session(c)
    BY <2>2, <1>16 DEF Readable, Sound, Told
  <2>5. Running(c) = {}
    <3>1. \A p \in Running(c) : op[c][p].pc \in {"update", "entry"} /\ p \in Slots
      BY <2>2, <2>4 DEF Sound, Told, Running, Free
    <3>2. \A p \in Running(c) : op[c][p].serial
      BY <2>4, <3>1 DEF Sound, ChangeOp
    <3>3. QED
      BY <2>2, <3>2 DEF Readable
  <2>6. \A p \in Slots : Free(c, p)
    BY <2>5 DEF Running
  <2>7. Holds(c)' /\ Session(c)'
    BY <2>2, <2>4 DEF Holds, Session, InUse
  <2>8. /\ OthersOp(c, o) /\ op'[c][o].pc \in {"update", "entry"}
        /\ op'[c][o].serial = flagged[c] /\ op'[c][o].replicated = ext[c].session
    BY <2>1 DEF SendChangeDoes, OpBecomes, OthersOp, NewOp, Idle
  <2>9. StartedOp(c, o)' /\ ChangeOp(c, o)' /\ \A p \in Slots : p # o => Free(c, p)'
    BY <2>4, <2>6, <2>7, <2>8 DEF StartedOp, ChangeOp, Free, OthersOp, Session
  <2>10. QED
    BY <2>7, <2>8, <2>9, OwnSound
<1>17. ASSUME NEW c \in Conns, NEW o \in Slots, SendEnd(c, o), 
             Sound(c), c \notin upset'
      PROVE  Sound(c)'
  <2>1. SendEndDoes(c, o)
    BY <1>17, SendEndEffect DEF AccessInv
  <2>2. /\ Readable(c, o) /\ sup[c].st = "in"
        /\ UNCHANGED <<flags, locker, abort, reapStop, enabled, offline, partial, import, task, ext, flagged, conn, requests, upset>>
    BY <1>17 DEF SendEnd, replica, data, backend
  <2>3. op[c][o] \in OpRec /\ ext[c] \in ExtRec /\ sup[c] \in SupRec
    BY Types
  <2>4. Sound(c) /\ conn[c] = "open" /\ Session(c)
    BY <2>2, <1>17 DEF Readable, Sound, Told
  <2>5. Running(c) = {}
    <3>1. \A p \in Running(c) : op[c][p].pc \in {"update", "entry"} /\ p \in Slots
      BY <2>2, <2>4 DEF Sound, Told, Running, Free
    <3>2. \A p \in Running(c) : op[c][p].serial
      BY <2>4, <3>1 DEF Sound, ChangeOp
    <3>3. QED
      BY <2>2, <3>2 DEF Readable
  <2>6. \A p \in Slots : Free(c, p)
    BY <2>5 DEF Running
  <2>7. Holds(c)' /\ Session(c)'
    BY <2>2, <2>4 DEF Holds, Session, InUse
  <2>8. OthersOp(c, o) /\ op'[c][o].pc = "end" /\ sup'[c].st = "ending"
    BY <2>1, <2>3 DEF SendEndDoes, OpBecomes, OthersOp, NewOp, Idle, SupBecomes, SupRec
  <2>9. StartedOp(c, o)' /\ ChangeOp(c, o)' /\ \A p \in Slots : p # o => Free(c, p)'
    BY <2>6, <2>8 DEF StartedOp, ChangeOp, Free, OthersOp
  <2>10. QED
    BY <2>7, <2>8, <2>9, OwnSound
<1>18. ASSUME NEW c \in Conns, NEW o \in Slots, NEW k \in Kinds \ {"task"},
             SendStart(c, o, k), Sound(c), c \notin upset'
      PROVE  Sound(c)'
  <2>1. SendStartDoes(c, o, k)
    BY <1>18, SendStartEffect
  <2>2. /\ Readable(c, o) /\ sup[c].st = "idle" /\ sup[c].kind \in {"none", k}
        /\ requests < MaxRequests /\ requests' = requests + 1
        /\ upset' = IF Running(c) # {} \/ (k = "total" /\ ext[c].acquired)
                   THEN upset \cup {c} ELSE upset
        /\ UNCHANGED <<flags, locker, abort, reapStop, enabled, offline, partial, import, task, ext, flagged, conn>>
    BY <1>18 DEF SendStart, replica, data, backend
  <2>3. op[c][o] \in OpRec /\ ext[c] \in ExtRec /\ sup[c] \in SupRec
    BY Types
  <2>4. \A p \in Slots : Free(c, p)
    BY <2>2, <1>18 DEF Running
  <2>5. ext[c].acquired => Holds(c) \/ conn[c] = "destroying"
    BY <1>18, <2>4 DEF Sound, Owned, Free
  <2>6. Holds(c) => Holds(c)'
    BY <2>2 DEF Holds, InUse
  <2>7. OthersOp(c, o) /\ op'[c][o].pc = "start" /\ sup'[c].st = "starting"
    BY <2>1, <2>3 DEF SendStartDoes, OpBecomes, OthersOp, NewOp, Idle, SupBecomes, SupRec
  <2>8. StartedOp(c, o)' /\ ChangeOp(c, o)' /\ \A p \in Slots : p # o => Free(c, p)'
    BY <2>4, <2>7 DEF StartedOp, ChangeOp, Free, OthersOp
  <2>9. QED
    BY <2>2, <2>5, <2>6, <2>7, <2>8, OwnSound
<1>19. ASSUME NEW c \in Conns, GiveUp(c), 
             Sound(c), c \notin upset'
      PROVE  Sound(c)'
  <2>1. GiveUpDoes(c)
    BY <1>19, GiveUpEffect
  <2>2. /\ sup[c].st = "starting"
        /\ UNCHANGED <<flags, locker, abort, reapStop, enabled, offline, partial, import, task, ext, flagged, conn, op, requests, upset>>
    BY <1>19 DEF GiveUp, replica, data, backend
  <2>3. ext[c] \in ExtRec /\ sup[c] \in SupRec
    BY Types
  <2>4. (Holds(c) => Holds(c)') /\ (Session(c) => Session(c)')
    BY <2>2 DEF Holds, Session, InUse
  <2>5. sup'[c].st = "idle"
    BY <2>1, <2>3 DEF GiveUpDoes, SupBecomes, SupRec
  <2>6. Single(c)' /\ \A p \in Slots : StartedOp(c, p)' /\ ChangeOp(c, p)'
    BY <2>2, <1>19, <2>4 DEF Sound, Single, Free, StartedOp, ChangeOp
  <2>7. Owned(c)' /\ Told(c)'
    BY <2>2, <1>19, <2>4, <2>5 DEF Sound, Owned, Told
  <2>8. QED
    BY <2>6, <2>7 DEF Sound
<1>20. ASSUME NEW c \in Conns, Close(c), 
             Sound(c), c \notin upset'
      PROVE  Sound(c)'
  <2>1. /\ conn[c] = "open" /\ Disconnect(c)
        /\ UNCHANGED <<flags, locker, abort, reapStop, enabled, offline, partial, import, task, ext, flagged, op, sup, requests, upset>>
    BY <1>20 DEF Close, replica, data, backend
  <2>2. ext[c] \in ExtRec /\ sup[c] \in SupRec
    BY Types
  <2>3. (Holds(c) => Holds(c)') /\ (Session(c) => Session(c)')
    BY <2>1 DEF Holds, Session, InUse
  <2>4. Single(c)' /\ \A p \in Slots : StartedOp(c, p)' /\ ChangeOp(c, p)'
    BY <2>1, <1>20, <2>3 DEF Sound, Single, Free, StartedOp, ChangeOp
  <2>5. Owned(c)' /\ Told(c)'
    BY <2>1, <1>20, <2>3, DisconnectEffect, Types DEF Sound, Owned, Told
  <2>6. QED
    BY <2>4, <2>5 DEF Sound
<1>21. ASSUME NEW c \in Conns, ImportFails(c), 
             Sound(c), c \notin upset'
      PROVE  Sound(c)'
  <2>1. /\ import = c /\ import' = "nobody"
        /\ \A p \in Slots : op[c][p].pc # "disable"
        /\ UNCHANGED <<flags, locker, abort, reapStop, enabled, offline, partial, task, ext, flagged, conn, op, sup, requests, upset>>
    BY <1>21 DEF ImportFails, replica, data
  <2>2. ext[c] \in ExtRec /\ sup[c] \in SupRec
    BY Types
  <2>3. (Holds(c) => Holds(c)') /\ (Session(c) => Session(c)')
    BY <2>1 DEF Holds, Session, InUse
  <2>4. Single(c)' /\ \A p \in Slots : StartedOp(c, p)' /\ ChangeOp(c, p)'
    BY <2>1, <1>21, <2>3 DEF Sound, Single, Free, StartedOp, ChangeOp
  <2>5. Owned(c)' /\ Told(c)'
    BY <2>1, <1>21, <2>3 DEF Sound, Owned, Told
  <2>6. QED
    BY <2>4, <2>5 DEF Sound
<1>22. ASSUME NEW c \in Conns, DestroyStop(c), 
             Sound(c), c \notin upset'
      PROVE  Sound(c)'
  <2>1. /\ conn[c] = "closing" /\ Running(c) = {} /\ conn' = [conn EXCEPT ![c] = "destroying"]
        /\ reapStop' \in BOOLEAN /\ import' = IF import = c THEN "nobody" ELSE import
        /\ \/ import = c /\ EnableReplication(c)
           \/ UNCHANGED <<replica, enabled, offline, upset>>
        /\ UNCHANGED <<partial, task, ext, flagged, op, sup, requests>>
    BY <1>22 DEF DestroyStop, replica
  <2>2. ext[c] \in ExtRec /\ sup[c] \in SupRec
    BY Types
  <2>3. \A p \in Slots : Free(c, p)'
    BY <2>1 DEF Running, Free
  <2>4. conn'[c] = "destroying"
    BY <2>1, Types DEF ConnTypeOK
  <2>5. QED
    BY <2>3, <2>4 DEF Sound, Single, Owned, Told, StartedOp, ChangeOp, Free
<1>23. ASSUME NEW c \in Conns, Destroy(c), 
             Sound(c), c \notin upset'
      PROVE  Sound(c)'
  <2>1. DestroyDoes(c)
    BY <1>23, DestroyEffect
  <2>2. /\ Running(c) = {}
        /\ \/ ext[c].acquired /\ Relinquish(c)
           \/ ~ext[c].acquired /\ UNCHANGED <<replica, upset>>
        /\ UNCHANGED <<reapStop, enabled, offline, partial, import, task, op, requests>>
    BY <1>23 DEF Destroy, replica, data, backend, Quiet, AccessInv, Running, Free
  <2>3. ext[c] \in ExtRec /\ sup[c] \in SupRec
    BY Types
  <2>4. \A p \in Slots : Free(c, p)'
    BY <2>2 DEF Running, Free
  <2>5. ~ext'[c].acquired /\ sup'[c].st = "gone"
    BY <2>1, <2>3 DEF DestroyDoes, ExtBecomes, SupBecomes, NewExt, SupRec
  <2>6. QED
    BY <2>4, <2>5 DEF Sound, Single, Owned, Told, StartedOp, ChangeOp, Free
<1>24. ASSUME NEW c \in Conns, NEW o \in Slots, Handle(c, o) \/ Supply(c, o) PROVE SessionInv'
  <2>1. Apart(c) /\ Kept(c) /\ upset \subseteq upset'
    BY <1>24, OpApart
  <2>2. \A d \in Conns \ upset' : d # c => Sound(d)'
    BY <2>1, OthersSound
  <2>3. ASSUME c \notin upset' PROVE Sound(c)'
    <3>1. Sound(c)
      BY <2>1, <2>3 DEF SessionInv
    <3>2. QED
      BY <1>24, <2>3, <3>1, <1>1, <1>2, <1>3, <1>4, <1>5, <1>6, <1>7, <1>8, <1>9, <1>10,
           <1>11, <1>12, <1>13, <1>14, <1>15, <1>16, <1>17, <1>18 DEF Handle, Supply
  <2>4. QED
    BY <2>2, <2>3 DEF SessionInv
<1>25. ASSUME NEW c \in Conns, GiveUp(c) \/ Close(c) \/ ImportFails(c) \/ DestroyStop(c) \/ Destroy(c) PROVE SessionInv'
  <2>1. Apart(c) /\ Kept(c) /\ upset \subseteq upset'
    BY <1>25, ConnApart
  <2>2. \A d \in Conns \ upset' : d # c => Sound(d)'
    BY <2>1, OthersSound
  <2>3. ASSUME c \notin upset' PROVE Sound(c)'
    <3>1. Sound(c)
      BY <2>1, <2>3 DEF SessionInv
    <3>2. QED
      BY <1>25, <2>3, <3>1, <1>19, <1>20, <1>21, <1>22, <1>23
  <2>4. QED
    BY <2>2, <2>3 DEF SessionInv
<1>26. CASE LocalUpdate \/ TaskStart \/ TaskDisable \/ TaskEnd \/ TaskFails \/ UNCHANGED vars
  BY <1>26, ServerApart, OthersSound, SessionAssumption DEF SessionInv
<1>27. QED
  BY <1>24, <1>25, <1>26 DEF Next

(* SessionInv holds in every behaviour.                                    *)
THEOREM SessionInvariant == Spec => []SessionInv
BY AccessInvariant, SessionInit, SessionNext, PTL DEF Spec

(* Two suppliers never write at a time, unless one of the sessions was     *)
(* upset.                                                                  *)
THEOREM SessionUpdatesByHolder == Spec => []UpdatesByHolder
<1>1. SessionInv => UpdatesByHolder
  BY DEF SessionInv, Sound, ChangeOp, Holds, UpdatesByHolder, Updating
<1>2. QED
  BY <1>1, SessionInvariant, PTL

(* The operations of a session are handled one at a time.                  *)
THEOREM SessionOneAtATime == Spec => []OneAtATime
<1>1. SessionInv => OneAtATime
  BY DEF SessionInv, Sound, Single, OneAtATime, Updating, Running, Free
<1>2. QED
  BY <1>1, SessionInvariant, PTL

-----------------------------------------------------------------------------
(* The total update, as long as no session was upset                       *)

(* Nobody else's import begins, and whoever else holds the replica for a   *)
(* total update still does.                                                *)
KeptImport(c) ==
  /\ \A d \in Conns : d # c /\ import' = d => import = d
  /\ \A d \in Conns : d # c /\ Holds(d) /\ "TOTAL" \in flags => "TOTAL" \in flags'

LEMMA OthersImport ==
  ASSUME SessionInv, ImportOrder, upset = {}, upset' = {}, NEW c, Apart(c), Kept(c), KeptImport(c)
  PROVE  \A d \in Conns : d # c => ImportHeld(d)' /\ \A p \in Slots : TotalOp(d, p)'
<1> SUFFICES ASSUME NEW d \in Conns, d # c
             PROVE  ImportHeld(d)' /\ \A p \in Slots : TotalOp(d, p)'
  OBVIOUS
<1>1. ext'[d] = ext[d] /\ conn'[d] = conn[d] /\ \A p \in Slots : op'[d][p] = op[d][p]
  BY DEF Apart
<1>2. import' = d => import = d
  BY DEF KeptImport
<1>3. Holds(d) => Holds(d)' /\ ("TOTAL" \in flags => "TOTAL" \in flags')
  BY <1>1 DEF Kept, KeptImport, Holds
<1>4. ImportHeld(d)'
  BY <1>1, <1>2, <1>3 DEF ImportOrder, ImportHeld
<1>5. ASSUME NEW p \in Slots PROVE TotalOp(d, p)'
  <2>1. TotalOp(d, p) /\ (op[d][p].pc = "begin" => Holds(d))
    BY DEF ImportOrder, SessionInv, Sound, StartedOp
  <2>2. op'[d][p] = op[d][p]
    BY <1>1
  <2>3. QED
    BY <1>1, <1>2, <1>3, <2>1, <2>2 DEF TotalOp, NoImport
<1>6. QED
  BY <1>4, <1>5

(* The mark of a total update stays with the Start that has set it.        *)
LEMMA MarkStep ==
  ASSUME MarkOwned, NEW c \in Conns, NEW o \in Slots, OthersOp(c, o),
         "TOTAL_EXCL_RECV" \in flags' =>
           "TOTAL_EXCL_RECV" \in flags /\ (Marker(c, o) => Marker(c, o)')
  PROVE  MarkOwned'
<1> SUFFICES ASSUME "TOTAL_EXCL_RECV" \in flags' PROVE \E d \in Conns, p \in Slots : Marker(d, p)'
  BY DEF MarkOwned
<1>1. PICK d \in Conns, p \in Slots : Marker(d, p)
  BY DEF MarkOwned
<1>2. CASE d = c /\ p = o
  BY <1>1, <1>2
<1>3. CASE d # c \/ p # o
  <2>1. op'[d][p] = op[d][p]
    BY <1>3 DEF OthersOp
  <2>2. Marker(d, p)'
    BY <1>1, <2>1 DEF Marker
  <2>3. QED
    BY <2>2
<1>4. QED
  BY <1>2, <1>3

(* When the other operations of c are gone, the step has to see to its own *)
(* one.                                                                    *)
LEMMA OwnTotalOp ==
  ASSUME NEW c \in Conns, NEW o \in Slots, \A p \in Slots : p # o => Free(c, p)', TotalOp(c, o)'
  PROVE  \A p \in Slots : TotalOp(c, p)'
BY DEF Free, TotalOp, NoImport

(* What is left to show for a step of c.                                   *)
OwnImport(c) ==
  /\ KeptImport(c) /\ ImportHeld(c)' /\ \A p \in Slots : TotalOp(c, p)'
  /\ MarkOwned' /\ CutShortNotSupplied'

(* Nothing is imported, nothing is marked.                                 *)
THEOREM ImportInit == Init => ImportInv
BY SessionAssumption DEF Init, ImportInv, ImportOrder, ImportHeld, TotalOp, NoImport, Idle, MarkOwned,
   CutShortNotSupplied

(* One step of a handler, a supplier, a connection or a task.              *)
THEOREM ImportNext == AccessInv /\ SessionInv /\ ImportInv /\ [Next]_vars => ImportInv'
<1> SUFFICES ASSUME AccessInv, SessionInv, ImportInv, [Next]_vars PROVE ImportInv'
  OBVIOUS
<1> TypeOK /\ FlagsShape
  BY DEF AccessInv
<1>1. ASSUME NEW c \in Conns, NEW o \in Slots, StartCheck(c, o), 
             Sound(c), ImportOrder, upset = {}, upset' = {}
      PROVE  OwnImport(c)
  <2>1. StartCheckDoes(c, o)
    BY <1>1, StartCheckEffect
  <2>2. /\ op[c][o].pc = "start"
        /\ UNCHANGED <<flags, locker, abort, reapStop, enabled, offline, partial, import, task, flagged, conn, sup, requests, upset>>
    BY <1>1 DEF StartCheck, replica, data, backend
  <2>3. op[c][o] \in OpRec /\ ext[c] \in ExtRec /\ sup[c] \in SupRec
    BY Types
  <2>4. /\ \A p \in Slots : p # o => Free(c, p)
        /\ StartedOp(c, o) /\ TotalOp(c, o) /\ ImportHeld(c)
    BY <2>2, <1>1, Alone DEF Free, ImportOrder
  <2>5. /\ OthersOp(c, o) /\ op'[c][o].pc \in {"mark", "acquire", "reply"}
        /\ op'[c][o].kind = op[c][o].kind /\ ext'[c].acquired = ext[c].acquired
    <3>1. CASE /\ UNCHANGED ext
               /\ \/ OpBecomes(c, o, [op[c][o] EXCEPT !.pc = "reply", !.resp = "ERROR"])
                  \/ OpBecomes(c, o, [op[c][o] EXCEPT !.pc = "reply", !.resp = "BUSY"])
      BY <2>3, <3>1 DEF OpBecomes, OthersOp, OpRec
    <3>2. ASSUME NEW pc \in {"mark", "acquire", "reply"}, NEW resp \in {"BUSY", "ERROR"},
                 NEW found \in BOOLEAN,
                 OpBecomes(c, o, [op[c][o] EXCEPT !.pc = pc, !.resp = resp, !.connext = TRUE,
                                                  !.replica = found]),
                 \/ ExtBecomes(c, [ext[c] EXCEPT !.user = o])
                 \/ ExtBecomes(c, [ext[c] EXCEPT !.user = o, !.version = op[c][o].kind])
          PROVE  /\ OthersOp(c, o) /\ op'[c][o].pc \in {"mark", "acquire", "reply"}
                 /\ op'[c][o].kind = op[c][o].kind /\ ext'[c].acquired = ext[c].acquired
      <4>1. OthersOp(c, o) /\ op'[c][o].pc = pc /\ op'[c][o].kind = op[c][o].kind
        BY <2>3, <3>2 DEF OpBecomes, OthersOp, OpRec
      <4>2. ext'[c].acquired = ext[c].acquired
        BY <2>3, <3>2 DEF ExtBecomes, ExtRec
      <4>3. QED
        BY <4>1, <4>2
    <3>3. QED
      BY <2>1, <3>1, <3>2 DEF StartCheckDoes
  <2>6. import # c
    BY <2>2, <2>4 DEF TotalOp, NoImport
  <2>7. KeptImport(c)
    BY <2>2 DEF KeptImport
  <2>8. \A p \in Slots : p # o => Free(c, p)'
    BY <2>4, <2>5 DEF OthersOp, Free
  <2>9. ImportHeld(c)'
    BY <2>2, <2>6 DEF ImportHeld
  <2>10. TotalOp(c, o)'
    BY <2>2, <2>4, <2>5, <2>6 DEF TotalOp, NoImport
  <2>11. \A p \in Slots : TotalOp(c, p)'
    BY <2>8, <2>10, OwnTotalOp
  <2>12. MarkOwned'
    BY <2>2, <2>5, <1>1, MarkStep DEF ImportOrder, Marker
  <2>13. CutShortNotSupplied'
    BY <2>2, <1>1 DEF ImportOrder, CutShortNotSupplied
  <2>14. QED
    BY <2>7, <2>9, <2>11, <2>12, <2>13 DEF OwnImport
<1>2. ASSUME NEW c \in Conns, NEW o \in Slots, StartMark(c, o), 
             Sound(c), ImportOrder, upset = {}, upset' = {}
      PROVE  OwnImport(c)
  <2>1. StartMarkDoes(c, o)
    BY <1>2, StartMarkEffect
  <2>2. /\ op[c][o].pc = "mark" /\ flags' = flags \cup {"TOTAL_EXCL_RECV"}
        /\ UNCHANGED <<locker, abort, reapStop, enabled, offline, partial, import, task, ext, flagged, conn, sup, requests, upset>>
    BY <1>2 DEF StartMark, data, backend
  <2>3. op[c][o] \in OpRec /\ ext[c] \in ExtRec /\ sup[c] \in SupRec
    BY Types
  <2>4. /\ \A p \in Slots : p # o => Free(c, p)
        /\ StartedOp(c, o) /\ TotalOp(c, o) /\ ImportHeld(c)
    BY <2>2, <1>2, Alone DEF Free, ImportOrder
  <2>5. /\ OthersOp(c, o) /\ op'[c][o].pc = "acquire" /\ op'[c][o].kind = op[c][o].kind
        /\ op'[c][o].connext = op[c][o].connext /\ op'[c][o].replica = op[c][o].replica
    BY <2>1, <2>3 DEF StartMarkDoes, OpBecomes, OthersOp, OpRec
  <2>6. import # c
    BY <2>2, <2>4 DEF TotalOp, NoImport
  <2>7. KeptImport(c)
    BY <2>2 DEF KeptImport
  <2>8. \A p \in Slots : p # o => Free(c, p)'
    BY <2>4, <2>5 DEF OthersOp, Free
  <2>9. ImportHeld(c)'
    BY <2>2, <2>6 DEF ImportHeld
  <2>10. TotalOp(c, o)'
    BY <2>2, <2>4, <2>5, <2>6 DEF TotalOp, NoImport
  <2>11. \A p \in Slots : TotalOp(c, p)'
    BY <2>8, <2>10, OwnTotalOp
  <2>12. Marker(c, o)'
    BY <2>2, <2>4, <2>5 DEF Marker, StartedOp
  <2>13. MarkOwned'
    BY <2>12 DEF MarkOwned
  <2>14. CutShortNotSupplied'
    BY <2>2, <1>2 DEF ImportOrder, CutShortNotSupplied
  <2>15. QED
    BY <2>7, <2>9, <2>11, <2>13, <2>14 DEF OwnImport
<1>3. ASSUME NEW c \in Conns, NEW o \in Slots, StartAcquire(c, o), 
             Sound(c), ImportOrder, upset = {}, upset' = {}
      PROVE  OwnImport(c)
  <2>1. StartAcquireDoes(c, o)
    BY <1>3, StartAcquireEffect
  <2>2. /\ op[c][o].pc = "acquire"
        /\ UNCHANGED <<reapStop, enabled, offline, partial, import, task, flagged, conn, sup, requests, upset>>
    BY <1>3 DEF StartAcquire, replica, data, backend
  <2>3. op[c][o] \in OpRec /\ ext[c] \in ExtRec /\ sup[c] \in SupRec
    BY Types
  <2>4. /\ \A p \in Slots : p # o => Free(c, p)
        /\ StartedOp(c, o) /\ TotalOp(c, o) /\ ImportHeld(c)
    BY <2>2, <1>3, Alone DEF Free, ImportOrder
  <2>5. /\ OthersOp(c, o) /\ op'[c][o].pc \in {"begin", "reply"} /\ op'[c][o].kind = op[c][o].kind
        /\ op'[c][o].connext = op[c][o].connext /\ op'[c][o].replica = op[c][o].replica
    BY <2>1, <2>3 DEF StartAcquireDoes, OpBecomes, OthersOp, OpRec
  <2>6. import # c
    BY <2>2, <2>4 DEF TotalOp, NoImport
  <2>7. /\ flags \subseteq flags' /\ ("TOTAL_EXCL_RECV" \in flags' => "TOTAL_EXCL_RECV" \in flags)
        /\ op'[c][o].pc = "begin" /\ op[c][o].kind = "total" => "TOTAL" \in flags'
    <3>1. CASE op'[c][o].pc # "begin" /\ UNCHANGED flags
      BY <3>1
    <3>2. CASE Take(c, {IF op[c][o].kind = "inc" THEN "INC" ELSE "TOTAL"})
      BY <3>2 DEF Take
    <3>3. CASE TakeAgain(c)
      <4>1. ext[c].acquired
        BY <3>3, SessionAssumption DEF TakeAgain, AccessInv, HeldBy
      <4>2. op[c][o].kind # "total"
        BY <2>2, <2>4, <4>1 DEF TotalOp
      <4>3. QED
        BY <3>3, <4>2 DEF TakeAgain, replica
    <3>4. QED
      BY <2>1, <2>3, <3>1, <3>2, <3>3 DEF StartAcquireDoes, Refused, replica, OpBecomes, OpRec
  <2>8. KeptImport(c)
    BY <2>2, <2>7 DEF KeptImport
  <2>9. \A p \in Slots : p # o => Free(c, p)'
    BY <2>4, <2>5 DEF OthersOp, Free
  <2>10. ImportHeld(c)'
    BY <2>2, <2>6 DEF ImportHeld
  <2>11. TotalOp(c, o)'
    BY <2>2, <2>4, <2>5, <2>6, <2>7 DEF TotalOp, NoImport
  <2>12. \A p \in Slots : TotalOp(c, p)'
    BY <2>9, <2>11, OwnTotalOp
  <2>13. MarkOwned'
    BY <2>5, <2>7, <1>3, MarkStep DEF ImportOrder, Marker
  <2>14. CutShortNotSupplied'
    BY <2>2, <1>3 DEF ImportOrder, CutShortNotSupplied
  <2>15. QED
    BY <2>8, <2>10, <2>12, <2>13, <2>14 DEF OwnImport
<1>4. ASSUME NEW c \in Conns, NEW o \in Slots, StartBegin(c, o), 
             Sound(c), ImportOrder, upset = {}, upset' = {}
      PROVE  OwnImport(c)
  <2>1. StartBeginDoes(c, o)
    BY <1>4, StartBeginEffect
  <2>2. /\ op[c][o].pc = "begin"
        /\ UNCHANGED <<flags, locker, abort, enabled, offline, partial, task, conn, sup, requests, upset>>
    BY <1>4 DEF StartBegin, replica
  <2>3. op[c][o] \in OpRec /\ ext[c] \in ExtRec /\ sup[c] \in SupRec
    BY Types
  <2>4. /\ \A p \in Slots : p # o => Free(c, p)
        /\ StartedOp(c, o) /\ TotalOp(c, o) /\ ImportHeld(c)
    BY <2>2, <1>4, Alone DEF Free, ImportOrder
  <2>5. /\ OthersOp(c, o) /\ op'[c][o].pc \in {"disable", "reply"} /\ op'[c][o].kind = op[c][o].kind
        /\ op'[c][o].connext = op[c][o].connext /\ op'[c][o].replica = op[c][o].replica
        /\ ext'[c].version = ext[c].version /\ ext'[c].acquired = ext[c].acquired
        /\ \/ op'[c][o].pc = "reply" /\ UNCHANGED import
           \/ op'[c][o].pc = "disable" /\ ext[c].version = "total" /\ import' = c
    BY <2>1, <2>3 DEF StartBeginDoes, OpBecomes, ExtBecomes, OthersOp, OpRec, ExtRec
  <2>6. import # c
    BY <2>2, <2>4 DEF TotalOp, NoImport
  <2>7. KeptImport(c)
    BY <2>2, <2>5 DEF KeptImport
  <2>8. \A p \in Slots : p # o => Free(c, p)'
    BY <2>4, <2>5 DEF OthersOp, Free
  <2>9. conn[c] \notin {"destroying", "gone"}
    BY <2>2 DEF AccessInv, Quiet, Running, Free
  <2>10. ImportHeld(c)'
    <3>1. Holds(c) => Holds(c)'
      BY <2>2, <2>5 DEF Holds, InUse
    <3>2. ext[c].version = "total" => "TOTAL" \in flags /\ Holds(c)
      BY <2>2, <2>4 DEF StartedOp, TotalOp
    <3>3. QED
      BY <2>2, <2>5, <2>6, <2>9, <3>1, <3>2 DEF ImportHeld
  <2>11. TotalOp(c, o)'
    BY <2>2, <2>5, <2>6 DEF TotalOp, NoImport
  <2>12. \A p \in Slots : TotalOp(c, p)'
    BY <2>8, <2>11, OwnTotalOp
  <2>13. MarkOwned'
    BY <2>2, <2>5, <1>4, MarkStep DEF ImportOrder, Marker
  <2>14. CutShortNotSupplied'
    BY <2>2, <1>4 DEF ImportOrder, CutShortNotSupplied
  <2>15. QED
    BY <2>7, <2>10, <2>12, <2>13, <2>14 DEF OwnImport
<1>5. ASSUME NEW c \in Conns, NEW o \in Slots, StartDisable(c, o), 
             Sound(c), ImportOrder, upset = {}, upset' = {}
      PROVE  OwnImport(c)
  <2>1. StartDisableDoes(c, o)
    BY <1>5, StartDisableEffect
  <2>2. /\ op[c][o].pc = "disable"
        /\ UNCHANGED <<reapStop, task, conn, sup, requests, upset>>
    BY <1>5 DEF StartDisable
  <2>3. op[c][o] \in OpRec /\ ext[c] \in ExtRec /\ sup[c] \in SupRec
    BY Types
  <2>4. /\ \A p \in Slots : p # o => Free(c, p)
        /\ StartedOp(c, o) /\ TotalOp(c, o) /\ ImportHeld(c)
    BY <2>2, <1>5, Alone DEF Free, ImportOrder
  <2>5. /\ OthersOp(c, o) /\ op'[c][o].kind = op[c][o].kind
        /\ op'[c][o].connext = op[c][o].connext /\ op'[c][o].replica = op[c][o].replica
        /\ ext'[c].version = ext[c].version /\ ext'[c].acquired = ext[c].acquired
        /\ \/ op'[c][o].pc = "disable" /\ UNCHANGED import
           \/ op'[c][o].pc = "reply" /\ op'[c][o].resp = "READY" /\ UNCHANGED import
           \/ op'[c][o].pc = "reply" /\ import' = "nobody"
    <3>1. CASE UNCHANGED <<import, op, ext>>
      BY <2>2, <3>1, Types DEF OthersOp
    <3>2. CASE /\ OpBecomes(c, o, [op[c][o] EXCEPT !.pc = "reply", !.resp = "READY"])
               /\ ExtBecomes(c, [ext[c] EXCEPT !.session = TRUE]) /\ UNCHANGED import
      BY <2>3, <3>2 DEF OpBecomes, ExtBecomes, OthersOp, OpRec, ExtRec
    <3>3. CASE /\ OpBecomes(c, o, [op[c][o] EXCEPT !.pc = "reply", !.resp = "ERROR"])
               /\ UNCHANGED ext /\ import' = "nobody"
      BY <2>3, <3>3 DEF OpBecomes, OthersOp, OpRec
    <3>4. QED
      BY <2>1, <3>1, <3>2, <3>3 DEF StartDisableDoes
  <2>6. UNCHANGED <<flags, locker>> /\ enabled' = FALSE
    <3>1. InUse
      BY <2>2, <2>4 DEF StartedOp, Holds
    <3>2. QED
      BY <2>1, <3>1, DisableEffect, DisableWaitsEffect DEF StartDisableDoes
  <2>7. c # "nobody" /\ import' \in {import, "nobody"}
    BY <2>5, SessionAssumption
  <2>8. KeptImport(c)
    BY <2>2, <2>6, <2>7, SessionAssumption DEF KeptImport
  <2>9. \A p \in Slots : p # o => Free(c, p)'
    BY <2>4, <2>5 DEF OthersOp, Free
  <2>10. ImportHeld(c)'
    <3>1. \A p \in Slots : op[c][p].pc # "stop"
      BY <2>2, <2>4 DEF Free
    <3>2. QED
      BY <2>2, <2>4, <2>5, <2>6, <2>7, <3>1 DEF ImportHeld, Holds, InUse
  <2>11. TotalOp(c, o)'
    BY <2>5, <2>7 DEF TotalOp, NoImport
  <2>12. \A p \in Slots : TotalOp(c, p)'
    BY <2>9, <2>11, OwnTotalOp
  <2>13. MarkOwned'
    BY <2>5, <2>6, <1>5, MarkStep DEF ImportOrder, Marker
  <2>14. CutShortNotSupplied'
    BY <2>6 DEF CutShortNotSupplied
  <2>15. QED
    BY <2>8, <2>10, <2>12, <2>13, <2>14 DEF OwnImport
<1>6. ASSUME NEW c \in Conns, NEW o \in Slots, StartReply(c, o), 
             Sound(c), ImportOrder, upset = {}, upset' = {}
      PROVE  OwnImport(c)
  <2>1. StartReplyDoes(c, o)
    BY <1>6, StartReplyEffect
  <2>2. /\ op[c][o].pc = "reply"
        /\ flags' = IF Marked(c, o) THEN flags \ {"TOTAL_EXCL_RECV"} ELSE flags
        /\ reapStop' = (reapStop /\ ~(op[c][o].resp # "READY" /\ op[c][o].replica))
        /\ UNCHANGED <<locker, abort, enabled, offline, partial, import, task, flagged, conn, requests>>
    BY <1>6 DEF StartReply, backend
  <2>3. op[c][o] \in OpRec /\ ext[c] \in ExtRec /\ sup[c] \in SupRec
    BY Types
  <2>4. /\ \A p \in Slots : p # o => Free(c, p)
        /\ StartedOp(c, o) /\ TotalOp(c, o) /\ ImportHeld(c)
    BY <2>2, <1>6, Alone DEF Free, ImportOrder
  <2>5. PICK resp \in {op[c][o].resp, "ERROR"} :
          /\ resp = op[c][o].resp \/ op[c][o].resp # "READY"
          /\ IF resp = "READY" THEN OpBecomes(c, o, Idle)
             ELSE OpBecomes(c, o, [op[c][o] EXCEPT !.pc = "cleanup"])
    BY <2>1, <1>6 DEF StartReplyDoes
  <2>6. OthersOp(c, o) /\ op'[c][o].pc = IF resp = "READY" THEN "free" ELSE "cleanup"
    BY <2>3, <2>5 DEF OpBecomes, OthersOp, OpRec, Idle
  <2>7. ext'[c].acquired = ext[c].acquired /\ ext'[c].version = ext[c].version
    BY <2>1, <2>3 DEF StartReplyDoes, ExtRec
  <2>8. KeptImport(c)
    BY <2>2 DEF KeptImport
  <2>9. \A p \in Slots : p # o => Free(c, p)'
    BY <2>4, <2>6 DEF OthersOp, Free
  <2>10. ImportHeld(c)'
    <3>1. \A p \in Slots : op[c][p].pc # "stop"
      BY <2>2, <2>4 DEF Free
    <3>2. QED
      BY <2>2, <2>4, <2>7, <3>1 DEF ImportHeld, Holds, InUse
  <2>11. TotalOp(c, o)'
    BY <2>2, <2>4, <2>6, <2>5 DEF TotalOp, NoImport
  <2>12. \A p \in Slots : TotalOp(c, p)'
    BY <2>9, <2>11, OwnTotalOp
  <2>13. MarkOwned'
    <3>1. Marker(c, o) => Marked(c, o)
      BY <2>2, <2>4 DEF Marker, Marked, StartedOp
    <3>2. QED
      BY <2>2, <1>6, <2>6, <3>1, MarkStep DEF ImportOrder
  <2>14. CutShortNotSupplied'
    BY <2>2, <1>6 DEF ImportOrder, CutShortNotSupplied
  <2>15. QED
    BY <2>8, <2>10, <2>12, <2>13, <2>14 DEF OwnImport
<1>7. ASSUME NEW c \in Conns, NEW o \in Slots, StartCleanup(c, o), 
             Sound(c), ImportOrder, upset = {}, upset' = {}
      PROVE  OwnImport(c)
  <2>1. StartCleanupDoes(c, o)
    BY <1>7, StartCleanupEffect
  <2>2. /\ op[c][o].pc = "cleanup"
        /\ flags' = IF op[c][o].connext /\ ext[c].acquired /\ locker = c THEN Freed ELSE flags
        /\ UNCHANGED <<locker, abort, reapStop, enabled, offline, partial, import, task, sup, requests, upset>>
    BY <1>7 DEF StartCleanup, data, backend
  <2>3. op[c][o] \in OpRec /\ ext[c] \in ExtRec /\ sup[c] \in SupRec
    BY Types
  <2>4. /\ \A p \in Slots : p # o => Free(c, p)
        /\ StartedOp(c, o) /\ TotalOp(c, o) /\ ImportHeld(c)
    BY <2>2, <1>7, Alone DEF Free, ImportOrder
  <2>5. OthersOp(c, o) /\ op'[c][o].pc = "free"
    BY <2>1 DEF StartCleanupDoes, OpBecomes, OthersOp, Idle
  <2>6. import # c
    BY <2>2, <2>4 DEF TotalOp, NoImport
  <2>7. KeptImport(c)
    BY <2>2 DEF KeptImport, Holds
  <2>8. \A p \in Slots : p # o => Free(c, p)'
    BY <2>4, <2>5 DEF OthersOp, Free
  <2>9. ImportHeld(c)'
    BY <2>2, <2>6 DEF ImportHeld
  <2>10. TotalOp(c, o)'
    BY <2>5 DEF TotalOp, NoImport
  <2>11. \A p \in Slots : TotalOp(c, p)'
    BY <2>8, <2>10, OwnTotalOp
  <2>12. MarkOwned'
    <3>1. ~Marker(c, o) /\ ("TOTAL_EXCL_RECV" \in flags' => "TOTAL_EXCL_RECV" \in flags)
      BY <2>2, FreedEffect, Types DEF Marker
    <3>2. QED
      BY <1>7, <2>5, <3>1, MarkStep DEF ImportOrder
  <2>13. CutShortNotSupplied'
    BY <2>2, <1>7 DEF ImportOrder, CutShortNotSupplied
  <2>14. QED
    BY <2>7, <2>9, <2>11, <2>12, <2>13 DEF OwnImport
<1>8. ASSUME NEW c \in Conns, NEW o \in Slots, EndConnext(c, o), 
             Sound(c), ImportOrder, upset = {}, upset' = {}
      PROVE  OwnImport(c)
  <2>1. EndConnextDoes(c, o)
    BY <1>8, EndConnextEffect
  <2>2. /\ op[c][o].pc = "end"
        /\ UNCHANGED <<locker, abort, reapStop, enabled, offline, partial, import, task, flagged, conn, requests, upset>>
    BY <1>8 DEF EndConnext, data, backend
  <2>3. op[c][o] \in OpRec /\ ext[c] \in ExtRec /\ sup[c] \in SupRec
    BY Types
  <2>4. /\ \A p \in Slots : p # o => Free(c, p)
        /\ StartedOp(c, o) /\ TotalOp(c, o) /\ ImportHeld(c)
    BY <2>2, <1>8, Alone DEF Free, ImportOrder
  <2>5. /\ OthersOp(c, o) /\ ext'[c].version = ext[c].version
        /\ ext'[c].acquired = ext[c].acquired
        /\ \/ op'[c][o].pc = "free" /\ UNCHANGED flags
           \/ op'[c][o].pc = "release" /\ UNCHANGED flags /\ ext[c].version # "total"
           \/ op'[c][o].pc = "stop" /\ flags' = flags \ {"TOTAL"} /\ ext[c].acquired
    <3>1. CASE /\ ext[c].acquired /\ ExtBecomes(c, [ext[c] EXCEPT !.user = o])
               /\ flags' = flags \ {"TOTAL"}
               /\ OpBecomes(c, o, [op[c][o] EXCEPT !.pc = "stop"])
      BY <2>3, <3>1 DEF OpBecomes, ExtBecomes, OthersOp, OpRec, ExtRec
    <3>2. CASE /\ ext[c].version # "total" /\ ExtBecomes(c, [ext[c] EXCEPT !.user = o])
               /\ UNCHANGED flags
               /\ OpBecomes(c, o, [op[c][o] EXCEPT !.pc = "release"])
      BY <2>3, <3>2 DEF OpBecomes, ExtBecomes, OthersOp, OpRec, ExtRec
    <3>3. CASE OpBecomes(c, o, Idle) /\ UNCHANGED <<ext, flags>>
      BY <3>3 DEF OpBecomes, OthersOp, Idle
    <3>4. QED
      BY <2>1, <3>1, <3>2, <3>3 DEF EndConnextDoes
  <2>6. ext[c].acquired => Holds(c)
    BY <2>2, <1>8, Alone DEF Free
  <2>7. KeptImport(c)
    BY <2>2, <2>5, <2>6 DEF KeptImport, Holds
  <2>8. \A p \in Slots : p # o => Free(c, p)'
    BY <2>4, <2>5 DEF OthersOp, Free
  <2>9. conn[c] \notin {"destroying", "gone"}
    BY <2>2 DEF AccessInv, Quiet, Running, Free
  <2>10. import = c => Holds(c) /\ "TOTAL" \in flags /\ ext[c].version = "total"
    <3>1. \A p \in Slots : op[c][p].pc # "stop"
      BY <2>2, <2>4 DEF Free
    <3>2. QED
      BY <2>4, <3>1 DEF ImportHeld
  <2>11. ImportHeld(c)'
    BY <2>2, <2>5, <2>9, <2>10 DEF ImportHeld, Holds, InUse
  <2>12. TotalOp(c, o)'
    BY <2>2, <2>5, <2>10 DEF TotalOp, NoImport
  <2>13. \A p \in Slots : TotalOp(c, p)'
    BY <2>8, <2>12, OwnTotalOp
  <2>14. MarkOwned'
    BY <2>2, <1>8, <2>5, MarkStep DEF ImportOrder, Marker
  <2>15. CutShortNotSupplied'
    BY <2>2, <1>8 DEF ImportOrder, CutShortNotSupplied
  <2>16. QED
    BY <2>7, <2>11, <2>13, <2>14, <2>15 DEF OwnImport
<1>9. ASSUME NEW c \in Conns, NEW o \in Slots, EndStop(c, o), 
             Sound(c), ImportOrder, upset = {}, upset' = {}
      PROVE  OwnImport(c)
  <2>1. EndStopDoes(c, o)
    BY <1>9, EndStopEffect
  <2>2. /\ op[c][o].pc = "stop"
        /\ \/ /\ import = c /\ EnableReplication(c) /\ import' = "nobody" /\ partial' = FALSE
           \/ import # c /\ UNCHANGED <<replica, enabled, offline, import, partial, upset>>
        /\ UNCHANGED <<reapStop, task, ext, flagged, conn, sup, requests>>
    BY <1>9 DEF EndStop, replica
  <2>3. op[c][o] \in OpRec /\ ext[c] \in ExtRec /\ sup[c] \in SupRec
    BY Types
  <2>4. /\ \A p \in Slots : p # o => Free(c, p)
        /\ StartedOp(c, o) /\ TotalOp(c, o) /\ ImportHeld(c)
    BY <2>2, <1>9, Alone DEF Free, ImportOrder
  <2>5. OthersOp(c, o) /\ op'[c][o].pc = "install"
    BY <2>1, <2>3 DEF EndStopDoes, OpBecomes, OthersOp, OpRec
  <2>6. import' # c
    BY <2>2, SessionAssumption
  <2>7. KeptImport(c)
    <3>1. ASSUME NEW d \in Conns, d # c, Holds(d), "TOTAL" \in flags PROVE "TOTAL" \in flags'
      <4>1. ~Relinquish(c)
        BY <1>9, <3>1, RelinquishEffect DEF Holds
      <4>2. QED
        BY <3>1, <4>1, <2>2 DEF EnableReplication, replica
    <3>2. QED
      BY <2>2, <3>1, SessionAssumption DEF KeptImport
  <2>8. \A p \in Slots : p # o => Free(c, p)'
    BY <2>4, <2>5 DEF OthersOp, Free
  <2>9. ImportHeld(c)'
    BY <2>2, <2>6 DEF ImportHeld
  <2>10. TotalOp(c, o)'
    BY <2>5, <2>6 DEF TotalOp, NoImport
  <2>11. \A p \in Slots : TotalOp(c, p)'
    BY <2>8, <2>10, OwnTotalOp
  <2>12. MarkOwned'
    <3>1. "TOTAL_EXCL_RECV" \in flags' => "TOTAL_EXCL_RECV" \in flags
      BY <2>2, RelinquishEffect DEF EnableReplication, replica
    <3>2. QED
      BY <2>2, <1>9, <2>5, <3>1, MarkStep DEF ImportOrder, Marker
  <2>13. CutShortNotSupplied'
    BY <2>2, <1>9 DEF ImportOrder, CutShortNotSupplied
  <2>14. QED
    BY <2>7, <2>9, <2>11, <2>12, <2>13 DEF OwnImport
<1>10. ASSUME NEW c \in Conns, NEW o \in Slots, EndInstall(c, o), 
             Sound(c), ImportOrder, upset = {}, upset' = {}
      PROVE  OwnImport(c)
  <2>1. EndInstallDoes(c, o)
    BY <1>10, EndInstallEffect
  <2>2. /\ op[c][o].pc = "install" /\ reapStop' = FALSE
        /\ UNCHANGED <<flags, locker, abort, enabled, offline, partial, import, task, ext, flagged, conn, sup, requests, upset>>
    BY <1>10 DEF EndInstall, replica, backend
  <2>3. op[c][o] \in OpRec /\ ext[c] \in ExtRec /\ sup[c] \in SupRec
    BY Types
  <2>4. /\ \A p \in Slots : p # o => Free(c, p)
        /\ StartedOp(c, o) /\ TotalOp(c, o) /\ ImportHeld(c)
    BY <2>2, <1>10, Alone DEF Free, ImportOrder
  <2>5. OthersOp(c, o) /\ op'[c][o].pc = "release"
    BY <2>1, <2>3 DEF EndInstallDoes, OpBecomes, OthersOp, OpRec
  <2>6. import # c
    BY <2>2, <2>4 DEF TotalOp, NoImport
  <2>7. KeptImport(c)
    BY <2>2 DEF KeptImport
  <2>8. \A p \in Slots : p # o => Free(c, p)'
    BY <2>4, <2>5 DEF OthersOp, Free
  <2>9. ImportHeld(c)'
    BY <2>2, <2>6 DEF ImportHeld
  <2>10. TotalOp(c, o)'
    BY <2>2, <2>5, <2>6 DEF TotalOp, NoImport
  <2>11. \A p \in Slots : TotalOp(c, p)'
    BY <2>8, <2>10, OwnTotalOp
  <2>12. MarkOwned'
    BY <2>2, <2>5, <1>10, MarkStep DEF ImportOrder, Marker
  <2>13. CutShortNotSupplied'
    BY <2>2, <1>10 DEF ImportOrder, CutShortNotSupplied
  <2>14. QED
    BY <2>7, <2>9, <2>11, <2>12, <2>13 DEF OwnImport
<1>11. ASSUME NEW c \in Conns, NEW o \in Slots, EndRelease(c, o), 
             Sound(c), ImportOrder, upset = {}, upset' = {}
      PROVE  OwnImport(c)
  <2>1. EndReleaseDoes(c, o)
    BY <1>11, EndReleaseEffect
  <2>2. /\ op[c][o].pc = "release" /\ Relinquish(c)
        /\ UNCHANGED <<reapStop, enabled, offline, partial, import, task, conn, requests>>
    BY <1>11 DEF EndRelease, data, backend
  <2>3. op[c][o] \in OpRec /\ ext[c] \in ExtRec /\ sup[c] \in SupRec
    BY Types
  <2>4. /\ \A p \in Slots : p # o => Free(c, p)
        /\ StartedOp(c, o) /\ TotalOp(c, o) /\ ImportHeld(c)
    BY <2>2, <1>11, Alone DEF Free, ImportOrder
  <2>5. OthersOp(c, o) /\ op'[c][o].pc = "free"
    BY <2>1 DEF EndReleaseDoes, OpBecomes, OthersOp, Idle
  <2>6. import # c
    BY <2>2, <2>4 DEF TotalOp, NoImport
  <2>7. KeptImport(c)
    <3>1. ASSUME NEW d \in Conns, d # c, Holds(d), "TOTAL" \in flags PROVE "TOTAL" \in flags'
      <4>1. ~Relinquish(c)
        BY <1>11, <3>1, RelinquishEffect DEF Holds
      <4>2. QED
        BY <3>1, <4>1, <2>2
    <3>2. QED
      BY <2>2, <3>1 DEF KeptImport
  <2>8. \A p \in Slots : p # o => Free(c, p)'
    BY <2>4, <2>5 DEF OthersOp, Free
  <2>9. ImportHeld(c)'
    BY <2>2, <2>6 DEF ImportHeld
  <2>10. TotalOp(c, o)'
    BY <2>5 DEF TotalOp, NoImport
  <2>11. \A p \in Slots : TotalOp(c, p)'
    BY <2>8, <2>10, OwnTotalOp
  <2>12. MarkOwned'
    <3>1. "TOTAL_EXCL_RECV" \in flags' => "TOTAL_EXCL_RECV" \in flags
      BY <2>2, RelinquishEffect
    <3>2. QED
      BY <2>2, <1>11, <2>5, <3>1, MarkStep DEF ImportOrder, Marker
  <2>13. CutShortNotSupplied'
    BY <2>2, <1>11 DEF ImportOrder, CutShortNotSupplied
  <2>14. QED
    BY <2>7, <2>9, <2>11, <2>12, <2>13 DEF OwnImport
<1>12. ASSUME NEW c \in Conns, NEW o \in Slots, UpdateApplied(c, o), 
             Sound(c), ImportOrder, upset = {}, upset' = {}
      PROVE  OwnImport(c)
  <2>1. UpdateAppliedDoes(c, o)
    BY <1>12, UpdateAppliedEffect
  <2>2. /\ op[c][o].pc = "update" /\ abort' \in {"sent", abort}
        /\ UNCHANGED <<flags, locker, reapStop, enabled, offline, partial, import, task, ext, flagged, conn, requests, upset>>
    BY <1>12 DEF UpdateApplied, data, backend
  <2>3. op[c][o] \in OpRec /\ ext[c] \in ExtRec /\ sup[c] \in SupRec
    BY Types
  <2>4. /\ \A p \in Slots : p # o => Free(c, p)
        /\ StartedOp(c, o) /\ TotalOp(c, o) /\ ImportHeld(c)
    BY <2>2, <1>12, Alone DEF Free, ImportOrder
  <2>5. OthersOp(c, o) /\ op'[c][o].pc = "free"
    BY <2>1 DEF UpdateAppliedDoes, OpBecomes, OthersOp, Idle
  <2>6. KeptImport(c)
    BY <2>2 DEF KeptImport
  <2>7. \A p \in Slots : p # o => Free(c, p)'
    BY <2>4, <2>5 DEF OthersOp, Free
  <2>8. ImportHeld(c)'
    BY <2>2, <2>4, <2>5 DEF ImportHeld, Holds, InUse, OthersOp
  <2>9. TotalOp(c, o)'
    BY <2>5 DEF TotalOp, NoImport
  <2>10. \A p \in Slots : TotalOp(c, p)'
    BY <2>7, <2>9, OwnTotalOp
  <2>11. MarkOwned'
    BY <2>2, <2>5, <1>12, MarkStep DEF ImportOrder, Marker
  <2>12. CutShortNotSupplied'
    BY <2>2, <1>12 DEF ImportOrder, CutShortNotSupplied
  <2>13. QED
    BY <2>6, <2>8, <2>10, <2>11, <2>12 DEF OwnImport
<1>13. ASSUME NEW c \in Conns, NEW o \in Slots, UpdateFailed(c, o), 
             Sound(c), ImportOrder, upset = {}, upset' = {}
      PROVE  OwnImport(c)
  <2>1. UpdateFailedDoes(c, o)
    BY <1>13, UpdateFailedEffect
  <2>2. /\ op[c][o].pc = "update"
        /\ UNCHANGED <<reapStop, enabled, offline, partial, import, task, sup, requests>>
    BY <1>13 DEF UpdateFailed, replica, data, backend
  <2>3. op[c][o] \in OpRec /\ ext[c] \in ExtRec /\ sup[c] \in SupRec
    BY Types
  <2>4. /\ \A p \in Slots : p # o => Free(c, p)
        /\ StartedOp(c, o) /\ TotalOp(c, o) /\ ImportHeld(c)
    BY <2>2, <1>13, Alone DEF Free, ImportOrder
  <2>5. OthersOp(c, o) /\ op'[c][o].pc = "free"
    BY <2>1 DEF UpdateFailedDoes, OpBecomes, OthersOp, Idle
  <2>6. import # c
    BY <2>2 DEF AccessInv, OneKind, Free
  <2>7. KeptImport(c)
    <3>1. ASSUME NEW d \in Conns, d # c, Holds(d), "TOTAL" \in flags PROVE "TOTAL" \in flags'
      <4>1. ~Relinquish(c)
        BY <1>13, <3>1, RelinquishEffect DEF Holds
      <4>2. QED
        BY <3>1, <4>1, <2>1 DEF UpdateFailedDoes, replica
    <3>2. QED
      BY <2>2, <3>1 DEF KeptImport
  <2>8. \A p \in Slots : p # o => Free(c, p)'
    BY <2>4, <2>5 DEF OthersOp, Free
  <2>9. ImportHeld(c)'
    BY <2>2, <2>6 DEF ImportHeld
  <2>10. TotalOp(c, o)'
    BY <2>5 DEF TotalOp, NoImport
  <2>11. \A p \in Slots : TotalOp(c, p)'
    BY <2>8, <2>10, OwnTotalOp
  <2>12. MarkOwned'
    <3>1. "TOTAL_EXCL_RECV" \in flags' => "TOTAL_EXCL_RECV" \in flags
      BY <2>1, RelinquishEffect DEF UpdateFailedDoes, replica
    <3>2. QED
      BY <2>2, <1>13, <2>5, <3>1, MarkStep DEF ImportOrder, Marker
  <2>13. CutShortNotSupplied'
    BY <2>2, <1>13 DEF ImportOrder, CutShortNotSupplied
  <2>14. QED
    BY <2>7, <2>9, <2>11, <2>12, <2>13 DEF OwnImport
<1>14. ASSUME NEW c \in Conns, NEW o \in Slots, EntryQueued(c, o), 
             Sound(c), ImportOrder, upset = {}, upset' = {}
      PROVE  OwnImport(c)
  <2>1. EntryQueuedDoes(c, o)
    BY <1>14, EntryQueuedEffect
  <2>2. /\ op[c][o].pc = "entry"
        /\ UNCHANGED <<flags, locker, abort, reapStop, enabled, offline, partial, import, task, ext, flagged, conn, sup, requests, upset>>
    BY <1>14 DEF EntryQueued, replica, data, backend
  <2>3. op[c][o] \in OpRec /\ ext[c] \in ExtRec /\ sup[c] \in SupRec
    BY Types
  <2>4. /\ \A p \in Slots : p # o => Free(c, p)
        /\ StartedOp(c, o) /\ TotalOp(c, o) /\ ImportHeld(c)
    BY <2>2, <1>14, Alone DEF Free, ImportOrder
  <2>5. OthersOp(c, o) /\ op'[c][o].pc = "free"
    BY <2>1 DEF EntryQueuedDoes, OpBecomes, OthersOp, Idle
  <2>6. KeptImport(c)
    BY <2>2 DEF KeptImport
  <2>7. \A p \in Slots : p # o => Free(c, p)'
    BY <2>4, <2>5 DEF OthersOp, Free
  <2>8. ImportHeld(c)'
    BY <2>2, <2>4, <2>5 DEF ImportHeld, Holds, InUse, OthersOp
  <2>9. TotalOp(c, o)'
    BY <2>5 DEF TotalOp, NoImport
  <2>10. \A p \in Slots : TotalOp(c, p)'
    BY <2>7, <2>9, OwnTotalOp
  <2>11. MarkOwned'
    BY <2>2, <2>5, <1>14, MarkStep DEF ImportOrder, Marker
  <2>12. CutShortNotSupplied'
    BY <2>2, <1>14 DEF ImportOrder, CutShortNotSupplied
  <2>13. QED
    BY <2>6, <2>8, <2>10, <2>11, <2>12 DEF OwnImport
<1>15. ASSUME NEW c \in Conns, NEW o \in Slots, EntryFailed(c, o), 
             Sound(c), ImportOrder, upset = {}, upset' = {}
      PROVE  OwnImport(c)
  <2>1. EntryFailedDoes(c, o)
    BY <1>15, EntryFailedEffect
  <2>2. /\ op[c][o].pc = "entry" /\ Disconnect(c)
        /\ UNCHANGED <<flags, locker, abort, reapStop, enabled, offline, partial, import, task, ext, flagged, sup, requests, upset>>
    BY <1>15 DEF EntryFailed, replica, data, backend
  <2>3. op[c][o] \in OpRec /\ ext[c] \in ExtRec /\ sup[c] \in SupRec
    BY Types
  <2>4. /\ \A p \in Slots : p # o => Free(c, p)
        /\ StartedOp(c, o) /\ TotalOp(c, o) /\ ImportHeld(c)
    BY <2>2, <1>15, Alone DEF Free, ImportOrder
  <2>5. OthersOp(c, o) /\ op'[c][o].pc = "free"
    BY <2>1 DEF EntryFailedDoes, OpBecomes, OthersOp, Idle
  <2>6. KeptImport(c)
    BY <2>2 DEF KeptImport
  <2>7. \A p \in Slots : p # o => Free(c, p)'
    BY <2>4, <2>5 DEF OthersOp, Free
  <2>8. conn'[c] \in {"destroying", "gone"} => conn[c] = conn'[c]
    BY <2>2, DisconnectEffect, Types
  <2>9. ImportHeld(c)'
    BY <2>2, <2>4, <2>5, <2>8 DEF ImportHeld, Holds, InUse, OthersOp
  <2>10. TotalOp(c, o)'
    BY <2>5 DEF TotalOp, NoImport
  <2>11. \A p \in Slots : TotalOp(c, p)'
    BY <2>7, <2>10, OwnTotalOp
  <2>12. MarkOwned'
    BY <2>2, <2>5, <1>15, MarkStep DEF ImportOrder, Marker
  <2>13. CutShortNotSupplied'
    BY <2>2, <1>15 DEF ImportOrder, CutShortNotSupplied
  <2>14. QED
    BY <2>6, <2>9, <2>11, <2>12, <2>13 DEF OwnImport
<1>16. ASSUME NEW c \in Conns, NEW o \in Slots, SendChange(c, o), 
             Sound(c), ImportOrder, upset = {}, upset' = {}
      PROVE  OwnImport(c)
  <2>1. SendChangeDoes(c, o)
    BY <1>16, SendChangeEffect DEF AccessInv
  <2>2. /\ Readable(c, o) /\ sup[c].st = "in"
        /\ UNCHANGED <<flags, locker, abort, reapStop, enabled, offline, partial, import, task, ext, flagged, conn, sup, requests, upset>>
    BY <1>16 DEF SendChange, replica, data, backend
  <2>3. op[c][o] \in OpRec /\ ext[c] \in ExtRec /\ sup[c] \in SupRec
    BY Types
  <2>4. OthersOp(c, o) /\ op'[c][o].pc \in {"update", "entry"}
    BY <2>1 DEF SendChangeDoes, OpBecomes, OthersOp, NewOp, Idle
  <2>5. KeptImport(c)
    BY <2>2 DEF KeptImport
  <2>6. ASSUME NEW p \in Slots, p # o PROVE TotalOp(c, p)'
    <3>1. op'[c][p] = op[c][p] /\ TotalOp(c, p)
      BY <1>16, <2>4, <2>6 DEF OthersOp, ImportOrder
    <3>2. QED
      BY <2>2, <3>1 DEF TotalOp, NoImport
  <2>7. ImportHeld(c)'
    <3>1. ImportHeld(c) /\ Free(c, o)
      BY <2>2, <1>16 DEF ImportOrder, Readable
    <3>2. QED
      BY <2>2, <2>4, <3>1 DEF ImportHeld, Holds, InUse, OthersOp, Free
  <2>8. TotalOp(c, o)'
    BY <2>4 DEF TotalOp, NoImport
  <2>9. \A p \in Slots : TotalOp(c, p)'
    BY <2>6, <2>8
  <2>10. MarkOwned'
    BY <2>2, <1>16, <2>4, MarkStep DEF ImportOrder, Marker, Readable, Free
  <2>11. CutShortNotSupplied'
    BY <2>2, <1>16 DEF ImportOrder, CutShortNotSupplied
  <2>12. QED
    BY <2>5, <2>7, <2>9, <2>10, <2>11 DEF OwnImport
<1>17. ASSUME NEW c \in Conns, NEW o \in Slots, SendEnd(c, o), 
             Sound(c), ImportOrder, upset = {}, upset' = {}
      PROVE  OwnImport(c)
  <2>1. SendEndDoes(c, o)
    BY <1>17, SendEndEffect DEF AccessInv
  <2>2. /\ Readable(c, o) /\ sup[c].st = "in"
        /\ UNCHANGED <<flags, locker, abort, reapStop, enabled, offline, partial, import, task, ext, flagged, conn, requests, upset>>
    BY <1>17 DEF SendEnd, replica, data, backend
  <2>3. op[c][o] \in OpRec /\ ext[c] \in ExtRec /\ sup[c] \in SupRec
    BY Types
  <2>4. OthersOp(c, o) /\ op'[c][o].pc = "end"
    BY <2>1 DEF SendEndDoes, OpBecomes, OthersOp, NewOp, Idle
  <2>5. KeptImport(c)
    BY <2>2 DEF KeptImport
  <2>6. ASSUME NEW p \in Slots, p # o PROVE TotalOp(c, p)'
    <3>1. op'[c][p] = op[c][p] /\ TotalOp(c, p)
      BY <1>17, <2>4, <2>6 DEF OthersOp, ImportOrder
    <3>2. QED
      BY <2>2, <3>1 DEF TotalOp, NoImport
  <2>7. ImportHeld(c)'
    <3>1. ImportHeld(c) /\ Free(c, o)
      BY <2>2, <1>17 DEF ImportOrder, Readable
    <3>2. QED
      BY <2>2, <2>4, <3>1 DEF ImportHeld, Holds, InUse, OthersOp, Free
  <2>8. TotalOp(c, o)'
    BY <2>4 DEF TotalOp, NoImport
  <2>9. \A p \in Slots : TotalOp(c, p)'
    BY <2>6, <2>8
  <2>10. MarkOwned'
    BY <2>2, <1>17, <2>4, MarkStep DEF ImportOrder, Marker, Readable, Free
  <2>11. CutShortNotSupplied'
    BY <2>2, <1>17 DEF ImportOrder, CutShortNotSupplied
  <2>12. QED
    BY <2>5, <2>7, <2>9, <2>10, <2>11 DEF OwnImport
<1>18. ASSUME NEW c \in Conns, NEW o \in Slots, NEW k \in Kinds \ {"task"},
             SendStart(c, o, k), Sound(c), ImportOrder, upset = {}, upset' = {}
      PROVE  OwnImport(c)
  <2>1. SendStartDoes(c, o, k)
    BY <1>18, SendStartEffect
  <2>2. /\ Readable(c, o) /\ sup[c].st = "idle" /\ sup[c].kind \in {"none", k}
        /\ requests < MaxRequests /\ requests' = requests + 1
        /\ upset' = IF Running(c) # {} \/ (k = "total" /\ ext[c].acquired)
                   THEN upset \cup {c} ELSE upset
        /\ UNCHANGED <<flags, locker, abort, reapStop, enabled, offline, partial, import, task, ext, flagged, conn>>
    BY <1>18 DEF SendStart, replica, data, backend
  <2>3. op[c][o] \in OpRec /\ ext[c] \in ExtRec /\ sup[c] \in SupRec
    BY Types
  <2>4. \A p \in Slots : Free(c, p)
    BY <2>2, <1>18 DEF Running
  <2>5. k = "total" => ~ext[c].acquired
    BY <2>2, <1>18
  <2>6. import # c
    <3>1. ASSUME import = c PROVE FALSE
      <4>1. Holds(c) /\ sup[c].kind = "total"
        BY <1>18, <2>4, <3>1 DEF ImportOrder, ImportHeld, Free, AccessInv, OneKind
      <4>2. QED
        BY <2>2, <2>5, <4>1 DEF Holds
    <3>2. QED
      BY <3>1
  <2>7. OthersOp(c, o) /\ op'[c][o].pc = "start" /\ op'[c][o].kind = k
    BY <2>1 DEF SendStartDoes, OpBecomes, OthersOp, NewOp, Idle
  <2>8. KeptImport(c)
    BY <2>2 DEF KeptImport
  <2>9. ASSUME NEW p \in Slots, p # o PROVE TotalOp(c, p)'
    <3>1. op'[c][p] = op[c][p] /\ TotalOp(c, p)
      BY <1>18, <2>7, <2>9 DEF OthersOp, ImportOrder
    <3>2. QED
      BY <2>2, <3>1 DEF TotalOp, NoImport
  <2>10. ImportHeld(c)'
    BY <2>2, <2>6 DEF ImportHeld
  <2>11. TotalOp(c, o)'
    BY <2>2, <2>7, <2>6, <2>5 DEF TotalOp, NoImport
  <2>12. \A p \in Slots : TotalOp(c, p)'
    BY <2>9, <2>11
  <2>13. MarkOwned'
    BY <2>2, <1>18, <2>7, MarkStep DEF ImportOrder, Marker, Readable, Free
  <2>14. CutShortNotSupplied'
    BY <2>2, <1>18 DEF ImportOrder, CutShortNotSupplied
  <2>15. QED
    BY <2>8, <2>10, <2>12, <2>13, <2>14 DEF OwnImport
<1>19. ASSUME NEW c \in Conns, GiveUp(c), 
             Sound(c), ImportOrder, upset = {}, upset' = {}
      PROVE  OwnImport(c)
  <2>1. GiveUpDoes(c)
    BY <1>19, GiveUpEffect
  <2>2. /\ sup[c].st = "starting"
        /\ UNCHANGED <<flags, locker, abort, reapStop, enabled, offline, partial, import, task, ext, flagged, conn, op, requests, upset>>
    BY <1>19 DEF GiveUp, replica, data, backend
  <2>3. ext[c] \in ExtRec /\ sup[c] \in SupRec
    BY Types
  <2>4. KeptImport(c)
    BY <2>2 DEF KeptImport
  <2>5. ImportHeld(c)'
    BY <2>2, <1>19 DEF ImportOrder, ImportHeld, Holds, InUse
  <2>6. \A p \in Slots : TotalOp(c, p)'
    BY <2>2, <1>19 DEF ImportOrder, TotalOp, NoImport
  <2>7. MarkOwned'
    BY <2>2, <1>19 DEF ImportOrder, MarkOwned, Marker
  <2>8. CutShortNotSupplied'
    BY <2>2, <1>19 DEF ImportOrder, CutShortNotSupplied
  <2>9. QED
    BY <2>4, <2>5, <2>6, <2>7, <2>8 DEF OwnImport
<1>20. ASSUME NEW c \in Conns, Close(c), 
             Sound(c), ImportOrder, upset = {}, upset' = {}
      PROVE  OwnImport(c)
  <2>1. /\ conn[c] = "open" /\ Disconnect(c)
        /\ UNCHANGED <<flags, locker, abort, reapStop, enabled, offline, partial, import, task, ext, flagged, op, sup, requests, upset>>
    BY <1>20 DEF Close, replica, data, backend
  <2>2. ext[c] \in ExtRec /\ sup[c] \in SupRec
    BY Types
  <2>3. KeptImport(c)
    BY <2>1 DEF KeptImport
  <2>4. ImportHeld(c)'
    BY <2>1, <1>20, DisconnectEffect, Types DEF ImportOrder, ImportHeld, Holds, InUse
  <2>5. \A p \in Slots : TotalOp(c, p)'
    BY <2>1, <1>20 DEF ImportOrder, TotalOp, NoImport
  <2>6. MarkOwned'
    BY <2>1, <1>20 DEF ImportOrder, MarkOwned, Marker
  <2>7. CutShortNotSupplied'
    BY <2>1, <1>20 DEF ImportOrder, CutShortNotSupplied
  <2>8. QED
    BY <2>3, <2>4, <2>5, <2>6, <2>7 DEF OwnImport
<1>21. ASSUME NEW c \in Conns, ImportFails(c), 
             Sound(c), ImportOrder, upset = {}, upset' = {}
      PROVE  OwnImport(c)
  <2>1. /\ import = c /\ import' = "nobody"
        /\ \A p \in Slots : op[c][p].pc # "disable"
        /\ UNCHANGED <<flags, locker, abort, reapStop, enabled, offline, partial, task, ext, flagged, conn, op, sup, requests, upset>>
    BY <1>21 DEF ImportFails, replica, data
  <2>2. ext[c] \in ExtRec /\ sup[c] \in SupRec
    BY Types
  <2>3. import' # c /\ \A d \in Conns : import' # d
    BY <2>1, SessionAssumption
  <2>4. KeptImport(c)
    BY <2>1, <2>3 DEF KeptImport
  <2>5. ImportHeld(c)'
    BY <2>3 DEF ImportHeld
  <2>6. \A p \in Slots : TotalOp(c, p)'
    BY <2>1, <1>21, <2>3 DEF ImportOrder, TotalOp, NoImport
  <2>7. MarkOwned'
    BY <2>1, <1>21 DEF ImportOrder, MarkOwned, Marker
  <2>8. CutShortNotSupplied'
    BY <2>1, <1>21 DEF ImportOrder, CutShortNotSupplied
  <2>9. QED
    BY <2>4, <2>5, <2>6, <2>7, <2>8 DEF OwnImport
<1>22. ASSUME NEW c \in Conns, DestroyStop(c), 
             Sound(c), ImportOrder, upset = {}, upset' = {}
      PROVE  OwnImport(c)
  <2>1. /\ conn[c] = "closing" /\ Running(c) = {} /\ conn' = [conn EXCEPT ![c] = "destroying"]
        /\ reapStop' \in BOOLEAN /\ import' = IF import = c THEN "nobody" ELSE import
        /\ \/ import = c /\ EnableReplication(c)
           \/ UNCHANGED <<replica, enabled, offline, upset>>
        /\ UNCHANGED <<partial, task, ext, flagged, op, sup, requests>>
    BY <1>22 DEF DestroyStop, replica
  <2>2. ext[c] \in ExtRec /\ sup[c] \in SupRec
    BY Types
  <2>3. import' # c
    BY <2>1, SessionAssumption
  <2>4. KeptImport(c)
    <3>1. ASSUME NEW d \in Conns, d # c, Holds(d), "TOTAL" \in flags PROVE "TOTAL" \in flags'
      <4>1. ~Relinquish(c)
        BY <1>22, <3>1, RelinquishEffect DEF Holds
      <4>2. QED
        BY <3>1, <4>1, <2>1 DEF EnableReplication, replica
    <3>2. QED
      BY <2>1, <3>1, SessionAssumption DEF KeptImport
  <2>5. ImportHeld(c)'
    BY <2>3 DEF ImportHeld
  <2>6. \A p \in Slots : TotalOp(c, p)'
    BY <2>1 DEF TotalOp, NoImport, Running, Free
  <2>7. MarkOwned'
    <3>1. "TOTAL_EXCL_RECV" \in flags' => "TOTAL_EXCL_RECV" \in flags
      BY <2>1, RelinquishEffect DEF EnableReplication, replica
    <3>2. QED
      BY <2>1, <1>22, <3>1 DEF ImportOrder, MarkOwned, Marker
  <2>8. CutShortNotSupplied'
    <3>1. import = c => "TOTAL" \in flags
      BY <2>1, <1>22 DEF ImportOrder, ImportHeld, Running, Free
    <3>2. enabled' = enabled
      BY <2>1, <3>1, Types DEF EnableReplication, DataTypeOK
    <3>3. QED
      BY <2>1, <1>22, <3>2 DEF ImportOrder, CutShortNotSupplied
  <2>9. QED
    BY <2>4, <2>5, <2>6, <2>7, <2>8 DEF OwnImport
<1>23. ASSUME NEW c \in Conns, Destroy(c), 
             Sound(c), ImportOrder, upset = {}, upset' = {}
      PROVE  OwnImport(c)
  <2>1. DestroyDoes(c)
    BY <1>23, DestroyEffect
  <2>2. /\ Running(c) = {}
        /\ \/ ext[c].acquired /\ Relinquish(c)
           \/ ~ext[c].acquired /\ UNCHANGED <<replica, upset>>
        /\ UNCHANGED <<reapStop, enabled, offline, partial, import, task, op, requests>>
    BY <1>23 DEF Destroy, replica, data, backend, Quiet, AccessInv, Running, Free
  <2>3. ext[c] \in ExtRec /\ sup[c] \in SupRec
    BY Types
  <2>4. import # c
    BY <1>23 DEF Destroy, ImportOrder, ImportHeld
  <2>5. KeptImport(c)
    <3>1. ASSUME NEW d \in Conns, d # c, Holds(d), "TOTAL" \in flags PROVE "TOTAL" \in flags'
      <4>1. ~Relinquish(c)
        BY <1>23, <3>1, RelinquishEffect DEF Holds
      <4>2. QED
        BY <3>1, <4>1, <2>2 DEF replica
    <3>2. QED
      BY <2>2, <3>1 DEF KeptImport
  <2>6. ImportHeld(c)'
    BY <2>2, <2>4 DEF ImportHeld
  <2>7. \A p \in Slots : TotalOp(c, p)'
    BY <2>2 DEF TotalOp, NoImport, Running, Free
  <2>8. MarkOwned'
    <3>1. "TOTAL_EXCL_RECV" \in flags' => "TOTAL_EXCL_RECV" \in flags
      BY <2>2, RelinquishEffect DEF replica
    <3>2. QED
      BY <2>2, <1>23, <3>1 DEF ImportOrder, MarkOwned, Marker
  <2>9. CutShortNotSupplied'
    BY <2>2, <1>23 DEF ImportOrder, CutShortNotSupplied
  <2>10. QED
    BY <2>5, <2>6, <2>7, <2>8, <2>9 DEF OwnImport
<1>24. ASSUME LocalUpdate, ImportOrder, upset = {}, upset' = {}
      PROVE  KeptImport("server") /\ MarkOwned' /\ CutShortNotSupplied'
  <2>1. /\ abort' = "sent"
        /\ UNCHANGED <<flags, locker, reapStop, enabled, offline, partial, import, task, ext, flagged, conn, op, sup, requests, upset>>
    BY <1>24 DEF LocalUpdate, data, backend
  <2>2. KeptImport("server")
    BY <2>1 DEF KeptImport
  <2>3. MarkOwned'
    BY <2>1, <1>24 DEF ImportOrder, MarkOwned, Marker
  <2>4. CutShortNotSupplied'
    BY <2>1, <1>24 DEF ImportOrder, CutShortNotSupplied
  <2>5. QED
    BY <2>2, <2>3, <2>4
<1>25. ASSUME TaskStart, ImportOrder, upset = {}, upset' = {}
      PROVE  KeptImport("server") /\ MarkOwned' /\ CutShortNotSupplied'
  <2>1. /\ import = "nobody" /\ import' = "task" /\ task' = "disable"
        /\ requests < MaxRequests /\ requests' = requests + 1
        /\ UNCHANGED <<flags, locker, abort, reapStop, enabled, offline, partial, ext, flagged, conn, op, sup, upset>>
    BY <1>25 DEF TaskStart, replica, data
  <2>2. KeptImport("server")
    BY <2>1, SessionAssumption DEF KeptImport
  <2>3. MarkOwned'
    BY <2>1, <1>25 DEF ImportOrder, MarkOwned, Marker
  <2>4. CutShortNotSupplied'
    BY <2>1, <1>25 DEF ImportOrder, CutShortNotSupplied
  <2>5. QED
    BY <2>2, <2>3, <2>4
<1>26. ASSUME TaskDisable, ImportOrder, upset = {}, upset' = {}
      PROVE  KeptImport("server") /\ MarkOwned' /\ CutShortNotSupplied'
  <2>1. /\ task = "disable"
        /\ \/ DisableWaits /\ UNCHANGED task
           \/ DisableReplication /\ task' = "running"
        /\ UNCHANGED <<reapStop, partial, import, ext, flagged, conn, op, sup, requests, upset>>
    BY <1>26 DEF TaskDisable
  <2>2. /\ flags \subseteq flags' /\ enabled' = FALSE
        /\ "TOTAL_EXCL_RECV" \in flags' => "TOTAL_EXCL_RECV" \in flags
    BY <2>1, DisableEffect, DisableWaitsEffect
  <2>3. KeptImport("server")
    BY <2>1, <2>2 DEF KeptImport
  <2>4. MarkOwned'
    BY <2>1, <2>2, <1>26 DEF ImportOrder, MarkOwned, Marker
  <2>5. CutShortNotSupplied'
    BY <2>2 DEF CutShortNotSupplied
  <2>6. QED
    BY <2>3, <2>4, <2>5
<1>27. ASSUME TaskEnd, ImportOrder, upset = {}, upset' = {}
      PROVE  KeptImport("server") /\ MarkOwned' /\ CutShortNotSupplied'
  <2>1. /\ task = "running" /\ EnableReplication("server") /\ partial' = FALSE
        /\ task' = "none" /\ import' = "nobody"
        /\ UNCHANGED <<reapStop, ext, flagged, conn, op, sup, requests>>
    BY <1>27 DEF TaskEnd
  <2>2. KeptImport("server")
    <3>1. ASSUME NEW d \in Conns, d # "server", Holds(d), "TOTAL" \in flags PROVE "TOTAL" \in flags'
      <4>1. ~Relinquish("server")
        BY <1>27, <3>1, RelinquishEffect DEF Holds
      <4>2. QED
        BY <3>1, <4>1, <2>1 DEF EnableReplication
    <3>2. QED
      BY <2>1, <3>1, SessionAssumption DEF KeptImport
  <2>3. MarkOwned'
    <3>1. "TOTAL_EXCL_RECV" \in flags' => "TOTAL_EXCL_RECV" \in flags
      BY <2>1, RelinquishEffect DEF EnableReplication
    <3>2. QED
      BY <2>1, <1>27, <3>1 DEF ImportOrder, MarkOwned, Marker
  <2>4. CutShortNotSupplied'
    BY <2>1, <1>27 DEF ImportOrder, CutShortNotSupplied
  <2>5. QED
    BY <2>2, <2>3, <2>4
<1>28. ASSUME TaskFails, ImportOrder, upset = {}, upset' = {}
      PROVE  KeptImport("server") /\ MarkOwned' /\ CutShortNotSupplied'
  <2>1. /\ task = "running" /\ partial' \in {partial, TRUE}
        /\ task' = "none" /\ import' = "nobody"
        /\ UNCHANGED <<flags, locker, abort, reapStop, enabled, offline, ext, flagged, conn, op, sup, requests, upset>>
    BY <1>28 DEF TaskFails, replica
  <2>2. enabled = FALSE
    BY <2>1 DEF AccessInv, ImportMeans
  <2>3. KeptImport("server")
    BY <2>1, SessionAssumption DEF KeptImport
  <2>4. MarkOwned'
    BY <2>1, <1>28 DEF ImportOrder, MarkOwned, Marker
  <2>5. CutShortNotSupplied'
    BY <2>1, <2>2 DEF CutShortNotSupplied
  <2>6. QED
    BY <2>3, <2>4, <2>5
<1>29. ASSUME NEW c \in Conns, NEW o \in Slots, Handle(c, o) \/ Supply(c, o), upset' = {} PROVE ImportOrder'
  <2>1. Apart(c) /\ Kept(c) /\ upset = {}
    BY <1>29, OpApart
  <2>2. ImportOrder /\ Sound(c)
    BY <2>1 DEF ImportInv, SessionInv
  <2>3. OwnImport(c)
    BY <1>29, <2>1, <2>2, <1>1, <1>2, <1>3, <1>4, <1>5, <1>6, <1>7, <1>8, <1>9, <1>10,
         <1>11, <1>12, <1>13, <1>14, <1>15, <1>16, <1>17, <1>18 DEF Handle, Supply
  <2>4. \A d \in Conns : d # c => ImportHeld(d)' /\ \A p \in Slots : TotalOp(d, p)'
    BY <1>29, <2>1, <2>2, <2>3, OthersImport DEF OwnImport
  <2>5. QED
    BY <2>3, <2>4 DEF OwnImport, ImportOrder
<1>30. ASSUME NEW c \in Conns, GiveUp(c) \/ Close(c) \/ ImportFails(c) \/ DestroyStop(c) \/ Destroy(c), upset' = {} PROVE ImportOrder'
  <2>1. Apart(c) /\ Kept(c) /\ upset = {}
    BY <1>30, ConnApart
  <2>2. ImportOrder /\ Sound(c)
    BY <2>1 DEF ImportInv, SessionInv
  <2>3. OwnImport(c)
    BY <1>30, <2>1, <2>2, <1>19, <1>20, <1>21, <1>22, <1>23
  <2>4. \A d \in Conns : d # c => ImportHeld(d)' /\ \A p \in Slots : TotalOp(d, p)'
    BY <1>30, <2>1, <2>2, <2>3, OthersImport DEF OwnImport
  <2>5. QED
    BY <2>3, <2>4 DEF OwnImport, ImportOrder
<1>31. ASSUME LocalUpdate \/ TaskStart \/ TaskDisable \/ TaskEnd \/ TaskFails, upset' = {} PROVE ImportOrder'
  <2>1. Apart("server") /\ Kept("server") /\ upset = {}
    BY <1>31, ServerApart
  <2>2. ImportOrder
    BY <2>1 DEF ImportInv
  <2>3. KeptImport("server") /\ MarkOwned' /\ CutShortNotSupplied'
    BY <1>31, <2>1, <2>2, <1>24, <1>25, <1>26, <1>27, <1>28
  <2>4. \A d \in Conns : ImportHeld(d)' /\ \A p \in Slots : TotalOp(d, p)'
    BY <1>31, <2>1, <2>2, <2>3, OthersImport, SessionAssumption
  <2>5. QED
    BY <2>3, <2>4 DEF ImportOrder
<1>32. CASE UNCHANGED vars
  BY <1>32 DEF vars, replica, data, backend, ImportInv, ImportOrder, ImportHeld, TotalOp, NoImport,
       Holds, InUse, MarkOwned, Marker, CutShortNotSupplied
<1>33. QED
  BY <1>29, <1>30, <1>31, <1>32 DEF Next, ImportInv

(* ImportInv holds in every behaviour.                                     *)
THEOREM ImportInvariant == Spec => []ImportInv
BY AccessInvariant, SessionInvariant, ImportInit, ImportNext, PTL DEF Spec

(* The mark that makes the replica refuse total updates is not leaked.     *)
THEOREM SessionMarkNotLeaked == Spec => []MarkNotLeaked
<1>1. ImportInv => MarkNotLeaked
  BY DEF ImportInv, ImportOrder, MarkOwned, Marker, MarkNotLeaked, StartPcs
<1>2. QED
  BY <1>1, ImportInvariant, PTL

(* The agreements of this replica do not send the data of a total update   *)
(* that was cut short.                                                     *)
THEOREM SessionPartialNotSupplied == Spec => []PartialNotSupplied
<1>1. ImportInv => PartialNotSupplied
  BY DEF ImportInv, ImportOrder, PartialNotSupplied
<1>2. QED
  BY <1>1, ImportInvariant, PTL
=============================================================================
