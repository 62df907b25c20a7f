---- MODULE ProducerProofs ----
(***************************************************************************)
(* Proofs about Producer for every stream, set of tables, retry limit and  *)
(* bound.  The argument: an LSN is safe to acknowledge when all that the   *)
(* transactions it covers contain is accounted for; every LSN the system   *)
(* holds (confirmed, applied, in flight) is safe, because the read loop    *)
(* accounts for each message before it acknowledges it and a message's LSN *)
(* covers no commit that comes after it.                                   *)
(***************************************************************************)
EXTENDS Producer, TLAPS

(* The LSNs that are safe to acknowledge: each transaction they cover is   *)
(* free of poison and its changes are accounted for.                       *)
SafeAcks ==
    {v \in Nat : \A i \in Index : IsCommit(i) /\ Stream[i].lsn <= v =>
                   \A j \in Index : j < i => ~Poison(j) /\ (j \in Changes => j \in Accounted)}

AckInv ==
    /\ confirmed \in SafeAcks
    /\ applied \in SafeAcks
    /\ replies \in Seq(SafeAcks)

(* The last message of the stream that is dealt with. *)
Done == IF proc = "parsed" /\ cur > 0 THEN pos - 1 ELSE pos

(* What the process and the walsender agree on during a session: the       *)
(* tables described so far, and that nothing before Done is left over.     *)
ViewInv ==
    /\ active
    /\ cache = sent
    /\ \A r \in CustomTyped : sent[r] = 0

ProgressInv ==
    /\ \A j \in Index : j <= pos => ~Poison(j)
    /\ \A j \in Changes : j <= Done => j \in Accounted

(* The message being handled is the last one sent, and its tables have     *)
(* been described; a relation message carries no LSN.                      *)
MessageInv ==
    /\ cur = 0 => received = 0
    /\ cur > 0 => cur = pos /\ received = Stream[pos].lsn
    /\ proc = "parsed" /\ cur > 0 =>
          \A r \in Relations : Touches(cur, r) => sent[r] = Stream[cur].schema[r]

SessionInv ==
    /\ proc \in Attached => ViewInv /\ ProgressInv
    /\ proc \in {"parsed", "handled"} => MessageInv

(* What is left when there is no session. *)
IdleInv ==
    /\ ~active => replies = <<>>
    /\ proc \in {"down", "exited"} => queued = {}

IInv == TypeOK /\ IdleInv /\ SessionInv /\ AckInv
----------------------------------------------------------------------------
(* Types *)

(* The facts of StreamAssumption about one message. *)
LEMMA StreamTypes ==
    /\ Len(Stream) \in Nat
    /\ \A i \in Index : /\ Stream[i].kind \in Kinds
                        /\ Stream[i].lsn \in Nat
                        /\ Stream[i].schema \in [Relations -> Nat]
<1> DEFINE T == [kind : Kinds, lsn : Nat, schema : [Relations -> Nat]]
<1>1. Stream \in Seq(T)
  BY StreamAssumption
<1>2. Len(Stream) \in Nat /\ \A i \in Index : Stream[i] \in T
  <2> HIDE DEF T
  <2>1. QED BY <1>1 DEF Index
<1>3. QED BY <1>2

(* Each action of the server keeps its variables typed. *)
LEMMA SlotTypes ==
    ASSUME SlotTypeOK,
           \/ SlotAcquire(RestartLsn)
           \/ \E r \in Relations : SendRelation(r)
           \/ SendNext
           \/ Reply(received) /\ received \in Nat
           \/ Reply(applied) /\ applied \in Nat
           \/ SlotConfirm
           \/ SlotRelease
           \/ UNCHANGED slotVars
    PROVE  SlotTypeOK'
<1> USE StreamTypes DEF SlotTypeOK
<1>1. CASE SlotAcquire(RestartLsn)
  BY <1>1 DEF SlotAcquire, NoSchema
<1>2. CASE \E r \in Relations : SendRelation(r)
  <2>1. PICK r \in Relations : SendRelation(r)
    BY <1>2
  <2>2. pos + 1 \in Index
    BY <2>1 DEF SendRelation, Announces, Index
  <2>3. Stream[pos + 1].schema[r] \in Nat
    BY <2>2
  <2>4. sent' \in [Relations -> Nat]
    BY <2>1, <2>3 DEF SendRelation
  <2>5. QED BY <2>1, <2>4 DEF SendRelation
<1>3. CASE SendNext
  BY <1>3 DEF SendNext
<1>4. CASE \/ Reply(received) /\ received \in Nat
           \/ Reply(applied) /\ applied \in Nat
  <2>1. PICK v \in Nat : Reply(v)
    BY <1>4
  <2>2. replies' \in Seq(Nat)
    BY <2>1 DEF Reply
  <2>3. QED BY <2>1, <2>2 DEF Reply
<1>5. CASE SlotConfirm
  <2>1. Head(replies) \in Nat /\ Tail(replies) \in Seq(Nat)
    BY <1>5 DEF SlotConfirm
  <2>2. QED BY <1>5, <2>1 DEF SlotConfirm
<1>6. CASE SlotRelease
  <2>1. <<>> \in Seq(Nat)
    OBVIOUS
  <2>2. QED BY <1>6, <2>1 DEF SlotRelease
<1>7. CASE UNCHANGED slotVars
  BY <1>7 DEF slotVars
<1>8. QED BY <1>1, <1>2, <1>3, <1>4, <1>5, <1>6, <1>7

(* So does each action of librdkafka. *)
LEMMA OutputTypes ==
    ASSUME OutputTypeOK,
           \/ OutputStart(pos')
           \/ cur \in Changes /\ (Produce(cur) \/ Discard(cur))
           \/ Deliver
           \/ OutputDrop
           \/ UNCHANGED outputVars
    PROVE  OutputTypeOK'
<1> USE StreamTypes, OutputAssumption DEF OutputTypeOK
<1>1. CASE OutputStart(pos')
  <2>1. Len(log) \in Nat
    OBVIOUS
  <2>2. QED BY <1>1, <2>1 DEF OutputStart
<1>2. CASE cur \in Changes /\ (Produce(cur) \/ Discard(cur))
  BY <1>2 DEF Produce, Discard, Changes
<1>3. CASE Deliver
  <2>1. PICK i \in Changes : DeliverOk(i) \/ DeliverRetry(i) \/ DeliverFail(i)
    BY <1>3 DEF Deliver
  <2>2. ASSUME Stored(i) PROVE log' \in Seq(Changes)
    BY <2>2 DEF Stored
  <2>3. CASE DeliverOk(i)
    BY <2>2, <2>3 DEF DeliverOk
  <2>4. CASE DeliverRetry(i)
    <3>1. attempts' \in [Index -> 0 .. Retries]
      BY <2>4 DEF DeliverRetry, Changes
    <3>2. QED BY <2>2, <2>4, <3>1 DEF DeliverRetry
  <2>5. CASE DeliverFail(i)
    BY <2>2, <2>5 DEF DeliverFail
  <2>6. QED BY <2>1, <2>3, <2>4, <2>5
<1>4. CASE OutputDrop
  BY <1>4 DEF OutputDrop
<1>5. CASE UNCHANGED outputVars
  BY <1>5 DEF outputVars
<1>6. QED BY <1>1, <1>2, <1>3, <1>4, <1>5

LEMMA TypeInit == Init => TypeOK
<1> USE StreamTypes, OutputAssumption
<1>1. Init => SlotTypeOK /\ OutputTypeOK
  <2>1. <<>> \in Seq(Nat) /\ <<>> \in Seq(Changes)
    OBVIOUS
  <2>2. Init => SlotTypeOK
    <3> SUFFICES ASSUME SlotInit PROVE SlotTypeOK
      BY DEF Init
    <3>1. sent \in [Relations -> Nat] /\ pos \in 0 .. Len(Stream)
      BY DEF SlotInit, NoSchema
    <3>2. QED BY <2>1, <3>1 DEF SlotInit, SlotTypeOK
  <2>3. Init => OutputTypeOK
    BY <2>1 DEF Init, OutputInit, OutputTypeOK
  <2>4. QED BY <2>2, <2>3
<1>2. QED BY <1>1 DEF Init, TypeOK, ProcStates, NoSchema

LEMMA TypeStep == TypeOK /\ [Next]_vars => TypeOK'
<1> SUFFICES ASSUME TypeOK, [Next]_vars PROVE TypeOK'
  OBVIOUS
<1> USE StreamTypes DEF TypeOK
<1>1. CASE Start
  <2>1. SlotTypeOK' /\ OutputTypeOK'
    BY <1>1, SlotTypes, OutputTypes DEF Start
  <2>2. QED BY <1>1, <2>1 DEF Start, ProcStates, NoSchema
<1>2. CASE StartFails \/ OperatorStart \/ ReadError
  <2>1. SlotTypeOK' /\ OutputTypeOK'
    BY <1>2, SlotTypes, OutputTypes DEF StartFails, OperatorStart, ReadError
  <2>2. QED BY <1>2, <2>1 DEF StartFails, OperatorStart, ReadError, ProcStates
<1>3. CASE Kill \/ ReadUnparsed \/ FlushAndExit
  <2>1. SlotTypeOK' /\ OutputTypeOK'
    BY <1>3, SlotTypes, OutputTypes DEF Kill, ReadUnparsed, FlushAndExit, Die
  <2>2. QED BY <1>3, <2>1 DEF Kill, ReadUnparsed, FlushAndExit, Die, ProcStates
<1>4. ASSUME NEW r \in Relations, ReadRelation(r) PROVE TypeOK'
  <2>1. SlotTypeOK' /\ OutputTypeOK'
    BY <1>4, SlotTypes, OutputTypes DEF ReadRelation
  <2>2. cache' \in [Relations -> Nat]
    BY <1>4 DEF ReadRelation, SendRelation, Announces, Index, SlotTypeOK
  <2>3. QED BY <1>4, <2>1, <2>2 DEF ReadRelation, ProcStates
<1>5. CASE ReadMessage
  <2>1. SlotTypeOK' /\ OutputTypeOK'
    BY <1>5, SlotTypes, OutputTypes DEF ReadMessage
  <2>2. received' \in Nat /\ cur' \in 0 .. Len(Stream)
    BY <1>5 DEF ReadMessage, SendNext, SlotTypeOK, Index
  <2>3. QED BY <1>5, <2>1, <2>2 DEF ReadMessage, ProcStates
<1>6. CASE Handle
  <2>1. cur > 0 /\ (IsRow(cur) \/ Stream[cur].kind = "T") => cur \in Changes
    BY DEF IsRow, Changes, Index
  <2>2. OutputTypeOK'
    BY <1>6, <2>1, OutputTypes DEF Handle, HandleRow, HandleTruncate, HandleOther, HandleThrows
  <2>3. SlotTypeOK'
    BY <1>6, SlotTypes DEF Handle, HandleRow, HandleTruncate, HandleOther, HandleThrows
  <2>4. QED
    BY <1>6, <2>2, <2>3 DEF Handle, HandleRow, HandleTruncate, HandleOther, HandleThrows, ProcStates
<1>7. CASE FinishMessage
  <2>1. SlotTypeOK' /\ OutputTypeOK'
    BY <1>7, SlotTypes, OutputTypes DEF FinishMessage, Reply
  <2>2. QED BY <1>7, <2>1 DEF FinishMessage, ProcStates
<1>8. CASE ReadKeepalive \/ ReadCopyDone
  <2>1. SlotTypeOK' /\ OutputTypeOK'
    BY <1>8, SlotTypes, OutputTypes DEF ReadKeepalive, ReadCopyDone
  <2>2. QED BY <1>8, <2>1 DEF ReadKeepalive, ReadCopyDone, ProcStates, procVars
<1>9. CASE KafkaDelivers \/ ServerConfirms \/ ServerReleases
  <2>1. SlotTypeOK' /\ OutputTypeOK'
    BY <1>9, SlotTypes, OutputTypes DEF KafkaDelivers, ServerConfirms, ServerReleases
  <2>2. QED BY <1>9, <2>1 DEF KafkaDelivers, ServerConfirms, ServerReleases, procVars
<1>10. CASE UNCHANGED vars
  <2>1. SlotTypeOK' /\ OutputTypeOK'
    BY <1>10, SlotTypes, OutputTypes DEF vars
  <2>2. QED BY <1>10, <2>1 DEF vars, procVars
<1>11. QED
  BY <1>1, <1>2, <1>3, <1>4, <1>5, <1>6, <1>7, <1>8, <1>9, <1>10 DEF Next, Read

(* The variables stay in their types, whatever the stream. *)
THEOREM TypeCorrect == Spec => []TypeOK
BY TypeInit, TypeStep, PTL DEF Spec
----------------------------------------------------------------------------
(* What the steps preserve *)

LEMMA LoggedAppend ==
    ASSUME NEW i, log \in Seq(Changes), i \in Changes, log' = Append(log, i)
    PROVE  Logged' = Logged \cup {i}
<1>1. /\ DOMAIN log' = 1 .. Len(log) + 1
      /\ Len(log) \in Nat
      /\ DOMAIN log = 1 .. Len(log)
      /\ log'[Len(log) + 1] = i
      /\ \A k \in DOMAIN log : log'[k] = log[k]
  OBVIOUS
<1>2. \A k \in DOMAIN log' : k \in DOMAIN log \/ k = Len(log) + 1
  BY <1>1
<1>3. QED BY <1>1, <1>2 DEF Logged

(* Outside Start, no change is ever forgotten. *)
LEMMA AccountedGrows ==
    ASSUME OutputTypeOK,
           \/ Produce(cur) \/ Discard(cur)
           \/ Deliver
           \/ OutputDrop
           \/ UNCHANGED outputVars
    PROVE  Accounted \subseteq Accounted'
<1>1. CASE Produce(cur) \/ Discard(cur)
  BY <1>1 DEF Produce, Discard, Accounted, Logged
<1>2. CASE Deliver
  <2>1. PICK i \in Changes : DeliverOk(i) \/ DeliverRetry(i) \/ DeliverFail(i)
    BY <1>2 DEF Deliver
  <2>2. log' = log => Logged' = Logged
    BY DEF Logged
  <2>3. log' = Append(log, i) => Logged' = Logged \cup {i}
    BY LoggedAppend DEF OutputTypeOK
  <2>4. CASE DeliverOk(i)
    BY <2>3, <2>4 DEF DeliverOk, Stored, Accounted
  <2>5. CASE DeliverRetry(i)
    BY <2>2, <2>3, <2>5 DEF DeliverRetry, Stored, Accounted
  <2>6. CASE DeliverFail(i)
    BY <2>2, <2>3, <2>6 DEF DeliverFail, Stored, Accounted
  <2>7. QED BY <2>1, <2>4, <2>5, <2>6
<1>3. CASE OutputDrop
  BY <1>3 DEF OutputDrop, Accounted, Logged
<1>4. CASE UNCHANGED outputVars
  BY <1>4 DEF outputVars, Accounted, Logged
<1>5. QED BY <1>1, <1>2, <1>3, <1>4

LEMMA SafeAcksGrow ==
    ASSUME Accounted \subseteq Accounted'
    PROVE  SafeAcks \subseteq SafeAcks'
BY DEF SafeAcks

(* A position the server ignores covers nothing. *)
LEMMA ZeroSafe == 0 \in SafeAcks
BY StreamTypes, StreamAssumption DEF SafeAcks, IsCommit

LEMMA SeqGrows ==
    ASSUME NEW A, NEW B, NEW s \in Seq(A), A \subseteq B
    PROVE  s \in Seq(B)
<1>1. Len(s) \in Nat /\ s \in [1 .. Len(s) -> B]
  OBVIOUS
<1>2. QED BY <1>1

(* A step that acknowledges nothing keeps the acknowledged LSNs safe. *)
LEMMA AckSame ==
    ASSUME AckInv, Accounted \subseteq Accounted',
           UNCHANGED <<confirmed, applied, replies>>
    PROVE  AckInv'
<1>1. SafeAcks \subseteq SafeAcks'
  BY SafeAcksGrow
<1>2. replies' \in Seq(SafeAcks')
  BY <1>1, SeqGrows DEF AckInv
<1>3. QED BY <1>1, <1>2 DEF AckInv

(* So does one that reports a safe LSN or none. *)
LEMMA AckReply ==
    ASSUME AckInv, UNCHANGED outputVars, applied' \in SafeAcks,
           Reply(applied')
    PROVE  AckInv'
<1>1. SafeAcks' = SafeAcks
  BY DEF outputVars, SafeAcks, Accounted, Logged
<1>2. replies' \in Seq(SafeAcks)
  BY DEF Reply, AckInv
<1>3. QED BY <1>1, <1>2 DEF AckInv, Reply
----------------------------------------------------------------------------
(* The inductive invariant *)

LEMMA InvInit == Init => IInv
<1> SUFFICES ASSUME Init PROVE IInv
  OBVIOUS
<1>1. TypeOK
  BY TypeInit
<1>2. IdleInv /\ SessionInv
  BY DEF Init, SlotInit, OutputInit, IdleInv, SessionInv, Attached
<1>3. AckInv
  <2>1. <<>> \in Seq(SafeAcks)
    OBVIOUS
  <2>2. QED BY <2>1, ZeroSafe DEF Init, SlotInit, AckInv
<1>4. QED BY <1>1, <1>2, <1>3 DEF IInv

(* A new session starts behind a confirmed transaction, so all it skips is *)
(* accounted for; what was lost beyond that point will be read again.      *)
LEMMA StartStep == IInv /\ Start => IdleInv' /\ SessionInv' /\ AckInv'
<1> SUFFICES ASSUME IInv, Start PROVE IdleInv' /\ SessionInv' /\ AckInv'
  OBVIOUS
<1> USE StreamTypes
<1>1. TypeOK /\ SlotTypeOK /\ OutputTypeOK /\ IdleInv /\ AckInv
  BY DEF IInv, TypeOK
<1>2. /\ pos' \in 0 .. Len(Stream)
      /\ pos' # 0 => IsCommit(pos') /\ Stream[pos'].lsn <= confirmed
      /\ \A i \in Index : i > pos' => ~(IsCommit(i) /\ Stream[i].lsn <= confirmed)
  BY <1>1 DEF Start, SlotAcquire, RestartLsn, ResumesAt, SlotTypeOK
<1>3. pos' # 0 => pos' \in Index /\ pos' \notin Changes /\ ~Poison(pos')
  <2>1. pos' # 0 => pos' \in Index /\ Stream[pos'].kind = "C"
    BY <1>2 DEF Index, IsCommit
  <2>2. QED BY <2>1, StreamAssumption DEF Changes, RowKinds, Poison, Touches
<1>4. replies = <<>> /\ queued = {} /\ replies' = <<>> /\ confirmed' = confirmed
  BY <1>1 DEF IdleInv, Start, SlotAcquire
<1>5. \A j \in Index : j <= pos' /\ j \in Accounted => j \in Accounted'
  BY <1>4 DEF Accounted, Logged, Start, OutputStart
<1>6. \A j \in Index : j < pos' => ~Poison(j) /\ (j \in Changes => j \in Accounted)
  <2>1. CASE pos' = 0
    BY <2>1 DEF Index
  <2>2. CASE pos' # 0
    <3>1. pos' \in Index /\ IsCommit(pos') /\ Stream[pos'].lsn <= confirmed
      BY <2>2, <1>2, <1>3
    <3>2. QED BY <3>1, <1>1 DEF AckInv, SafeAcks
  <2>3. QED BY <2>1, <2>2
<1>7. IdleInv'
  BY <1>4 DEF IdleInv, Start, SlotAcquire
<1>8. AckInv'
  <2>1. ASSUME NEW i \in Index, IsCommit(i), Stream[i].lsn <= confirmed,
               NEW j \in Index, j < i
        PROVE  ~Poison(j) /\ (j \in Changes => j \in Accounted')
    <3>1. i <= pos'
      BY <1>2, <2>1 DEF Index
    <3>2. j < pos'
      BY <2>1, <3>1, <1>2 DEF Index
    <3>3. QED BY <3>2, <1>2, <1>5, <1>6 DEF Index
  <2>2. confirmed' \in SafeAcks'
    BY <2>1, <1>4, <1>1 DEF SafeAcks, SlotTypeOK
  <2>3. applied' \in SafeAcks'
    <3>1. (0 \in SafeAcks)'
      BY ZeroSafe, PTL
    <3>2. QED BY <3>1 DEF Start
  <2>4. replies' \in Seq(SafeAcks')
    BY <1>4
  <2>5. QED BY <2>2, <2>3, <2>4 DEF AckInv
<1>9. SessionInv'
  <2>1. active' /\ proc' = "idle" /\ cache' = sent' /\ sent' = NoSchema /\ cur' = 0
    BY DEF Start, SlotAcquire
  <2>2. \A r \in CustomTyped : sent'[r] = 0
    BY <2>1, StreamAssumption DEF NoSchema
  <2>3. \A j \in Index : j <= pos' =>
           ~Poison(j) /\ (j \in Changes => j \in Accounted')
    <3> SUFFICES ASSUME NEW j \in Index, j <= pos'
                 PROVE  ~Poison(j) /\ (j \in Changes => j \in Accounted')
      OBVIOUS
    <3>1. CASE j < pos'
      BY <3>1, <1>5, <1>6
    <3>2. CASE j = pos'
      BY <3>2, <1>2, <1>3 DEF Index
    <3>3. QED BY <3>1, <3>2, <1>2 DEF Index
  <2>4. QED BY <2>1, <2>2, <2>3 DEF SessionInv, ViewInv, ProgressInv, Done, Changes
<1>10. QED BY <1>7, <1>8, <1>9

(* Reading a message: what is described before it keeps cache and sent     *)
(* equal, and a message with poison is not read.                           *)
LEMMA ReadStep ==
    ASSUME IInv, (\E r \in Relations : ReadRelation(r)) \/ ReadMessage
    PROVE  IdleInv' /\ SessionInv' /\ AckInv'
<1> USE StreamTypes
<1>1. /\ TypeOK /\ SlotTypeOK /\ OutputTypeOK /\ IdleInv /\ AckInv /\ SessionInv
      /\ proc = "idle" /\ proc' = "parsed" /\ UNCHANGED outputVars
      /\ UNCHANGED <<confirmed, active, replies, applied>>
  BY DEF IInv, TypeOK, ReadRelation, ReadMessage, SendRelation, SendNext
<1>2. Accounted' = Accounted
  BY <1>1 DEF outputVars, Accounted, Logged
<1>3. IdleInv' /\ AckInv'
  BY <1>1, <1>2, AckSame DEF IdleInv
<1>4. /\ cache = sent /\ \A r \in CustomTyped : sent[r] = 0
      /\ \A j \in Index : j <= pos => ~Poison(j)
      /\ \A j \in Changes : j <= pos => j \in Accounted
  BY <1>1 DEF SessionInv, Attached, ViewInv, ProgressInv, Done
<1>5. ASSUME NEW r \in Relations, ReadRelation(r) PROVE SessionInv'
  <2>1. pos' = pos /\ cur' = 0 /\ received' = 0 /\ cache' = sent'
    BY <1>4, <1>5 DEF ReadRelation, SendRelation
  <2>2. \A q \in CustomTyped : sent'[q] = 0
    BY <1>1, <1>4, <1>5, StreamAssumption
       DEF ReadRelation, SendRelation, SlotTypeOK
  <2>3. ViewInv'
    BY <1>1, <2>1, <2>2 DEF SessionInv, Attached, ViewInv
  <2>4. ProgressInv' /\ MessageInv'
    BY <1>1, <1>2, <1>4, <2>1 DEF ProgressInv, MessageInv, Done
  <2>5. QED BY <2>3, <2>4 DEF SessionInv
<1>6. CASE ReadMessage
  <2>1. /\ pos' = pos + 1 /\ pos' \in Index /\ cur' = pos' /\ cur' > 0
        /\ received' = Stream[pos'].lsn /\ sent' = sent /\ cache' = cache
        /\ Stream[pos'].kind # "O"
    BY <1>1, <1>6 DEF ReadMessage, SendNext, SlotTypeOK, Index
  <2>2. \A r \in Relations : Touches(pos', r) => sent[r] = Stream[pos'].schema[r]
    BY <2>1, <1>6 DEF ReadMessage, SendNext, Announces
  <2>3. ~Poison(pos')
    BY <2>1, <2>2, <1>4, StreamAssumption DEF Poison, Touches
  <2>4. \A j \in Index : j <= pos' => ~Poison(j)
    BY <1>1, <1>4, <2>1, <2>3 DEF SlotTypeOK, Index
  <2>5. \A j \in Changes : j <= pos' - 1 => j \in Accounted'
    BY <1>1, <1>2, <1>4, <2>1 DEF SlotTypeOK
  <2>6. ViewInv'
    BY <1>1, <1>4, <2>1 DEF SessionInv, Attached, ViewInv
  <2>7. ProgressInv'
    <3>1. Done' = pos' - 1
      BY <1>1, <2>1 DEF Done
    <3>2. QED BY <2>4, <2>5, <3>1 DEF ProgressInv
  <2>8. MessageInv'
    BY <2>1, <2>2 DEF MessageInv, Touches, Index
  <2>9. QED BY <1>3, <2>6, <2>7, <2>8 DEF SessionInv
<1>7. QED BY <1>3, <1>5, <1>6

(* Handling a message accounts for it: its table is in the cache, so a row *)
(* is never dropped.                                                       *)
LEMMA HandleStep ==
    ASSUME IInv, Handle
    PROVE  IdleInv' /\ SessionInv' /\ AckInv'
<1> USE StreamTypes
<1>1. /\ TypeOK /\ SlotTypeOK /\ OutputTypeOK /\ IdleInv /\ AckInv /\ SessionInv
      /\ proc = "parsed" /\ proc' \in {"handled", "idle"}
      /\ UNCHANGED <<slotVars, cur, cache, received, applied>>
  BY DEF IInv, TypeOK, Handle, HandleRow, HandleTruncate, HandleOther, HandleThrows
<1>2. Accounted \subseteq Accounted'
  BY <1>1, AccountedGrows DEF Handle, HandleRow, HandleTruncate, HandleOther, HandleThrows
<1>3. IdleInv' /\ AckInv'
  BY <1>1, <1>2, AckSame DEF IdleInv, slotVars
<1>4. cur > 0 => cur \in Index /\ cur = pos
  BY <1>1 DEF TypeOK, SessionInv, MessageInv, Index
<1>5. cur > 0 /\ cur \in Changes => cur \in Accounted'
  <2> SUFFICES ASSUME cur > 0, cur \in Changes PROVE cur \in Accounted'
    OBVIOUS
  <2>1. Produce(cur) \/ Discard(cur) => cur \in Accounted'
    BY DEF Produce, Discard, Accounted
  <2>2. ASSUME IsRow(cur) PROVE \E r \in Relations : Touches(cur, r) /\ cache[r] # 0
    <3>1. PICK r \in Relations : Stream[cur].schema[r] > 0
      BY <1>4, <2>2, StreamAssumption DEF IsRow
    <3>2. Touches(cur, r) /\ cache[r] = Stream[cur].schema[r]
      BY <1>1, <3>1 DEF SessionInv, Attached, ViewInv, MessageInv, Touches
    <3>3. QED BY <3>1, <3>2
  <2>3. QED
    BY <1>1, <2>1, <2>2 DEF Handle, HandleRow, HandleTruncate, HandleOther, HandleThrows, Changes, IsRow
<1>6. \A j \in Changes : j <= pos => j \in Accounted'
  <2>1. \A j \in Changes : j <= Done => j \in Accounted'
    BY <1>1, <1>2 DEF SessionInv, Attached, ProgressInv
  <2>2. Done = IF cur > 0 THEN pos - 1 ELSE pos
    BY <1>1 DEF Done
  <2>3. pos \in Nat /\ \A j \in Changes : j \in Nat
    BY <1>1 DEF SlotTypeOK, Changes, Index
  <2>4. \A j \in Changes : j <= pos => j <= pos - 1 \/ j = pos
    BY <2>3
  <2>5. CASE cur > 0
    BY <1>4, <1>5, <2>1, <2>2, <2>4, <2>5
  <2>6. CASE ~(cur > 0)
    BY <2>1, <2>2, <2>6
  <2>7. QED BY <2>5, <2>6
<1>7. SessionInv'
  <2>1. ViewInv /\ ProgressInv /\ MessageInv
    BY <1>1 DEF SessionInv, Attached
  <2>2. ViewInv' /\ MessageInv'
    BY <1>1, <2>1 DEF slotVars, ViewInv, MessageInv
  <2>3. ProgressInv'
    <3>1. pos' = pos /\ Done' = pos
      BY <1>1 DEF slotVars, Done
    <3>2. QED BY <1>6, <2>1, <3>1 DEF ProgressInv
  <2>4. QED BY <2>2, <2>3 DEF SessionInv
<1>8. QED BY <1>3, <1>7

(* A message's LSN covers no commit after it, and all before it is         *)
(* accounted for when it is acknowledged.                                  *)
LEMMA FinishStep ==
    ASSUME IInv, FinishMessage
    PROVE  IdleInv' /\ SessionInv' /\ AckInv'
<1> USE StreamTypes
<1>1. /\ TypeOK /\ SlotTypeOK /\ IdleInv /\ AckInv /\ SessionInv
      /\ proc = "handled" /\ proc' = "idle" /\ applied' = received
      /\ Reply(applied')
      /\ UNCHANGED <<outputVars, cur, cache, received>>
      /\ UNCHANGED <<confirmed, active, pos, sent>>
  BY DEF IInv, TypeOK, FinishMessage, Reply
<1>2. \A j \in Index : j <= pos => ~Poison(j) /\ (j \in Changes => j \in Accounted)
  BY <1>1 DEF SessionInv, Attached, ProgressInv, Done
<1>3. received \in SafeAcks
  <2>1. CASE received = 0
    BY <2>1, ZeroSafe
  <2>2. CASE cur > 0 /\ cur = pos /\ received = Stream[pos].lsn
    <3>1. pos \in Index
      BY <1>1, <2>2 DEF SlotTypeOK, Index
    <3>2. \A i \in Index : IsCommit(i) /\ Stream[i].lsn <= received => i <= pos
      <4> SUFFICES ASSUME NEW i \in Index, IsCommit(i), pos < i
                   PROVE  ~(Stream[i].lsn <= received)
        BY <3>1 DEF Index
      <4>1. Stream[pos].lsn < Stream[i].lsn
        BY <3>1, StreamAssumption DEF IsCommit
      <4>2. QED BY <2>2, <3>1, <4>1
    <3>3. \A i, j \in Index : i <= pos /\ j < i => j <= pos
      BY <3>1 DEF Index
    <3>4. QED BY <1>1, <1>2, <3>2, <3>3 DEF SafeAcks, TypeOK
  <2>3. QED BY <1>1, <2>1, <2>2 DEF SessionInv, MessageInv, TypeOK
<1>4. AckInv'
  BY <1>1, <1>3, AckReply
<1>5. ViewInv'
  BY <1>1 DEF SessionInv, Attached, ViewInv
<1>6. Accounted' = Accounted
  BY <1>1 DEF outputVars, Accounted, Logged
<1>7. SessionInv'
  BY <1>1, <1>2, <1>5, <1>6 DEF SessionInv, ProgressInv, Done, Changes
<1>8. QED BY <1>1, <1>4, <1>5, <1>7 DEF IdleInv, ViewInv

(* The process ends or is ended: its queue is accounted for as lost.       *)
LEMMA StopStep ==
    ASSUME IInv, Kill \/ ReadUnparsed \/ FlushAndExit
    PROVE  IdleInv' /\ SessionInv' /\ AckInv'
<1>1. /\ OutputTypeOK /\ IdleInv /\ AckInv
      /\ OutputDrop /\ proc' \in {"down", "exited"}
      /\ UNCHANGED <<confirmed, active, replies, applied>>
  BY DEF IInv, TypeOK, Kill, ReadUnparsed, FlushAndExit, Die, SendNext, slotVars
<1>2. AckInv'
  BY <1>1, AccountedGrows, AckSame
<1>3. QED BY <1>1, <1>2 DEF IdleInv, SessionInv, Attached, OutputDrop

(* Steps that start or end nothing and neither read nor handle a message.  *)
LEMMA QuietStep ==
    ASSUME IInv,
           \/ StartFails \/ OperatorStart \/ ReadError
           \/ KafkaDelivers \/ UNCHANGED vars
    PROVE  IdleInv' /\ SessionInv' /\ AckInv'
<1>1. /\ OutputTypeOK /\ IdleInv /\ SessionInv /\ AckInv
      /\ UNCHANGED <<slotVars, cur, cache, received, applied>>
      /\ Deliver \/ UNCHANGED outputVars
      /\ proc' = proc \/ proc' \in {"down", "exited", "closing"}
  BY DEF IInv, TypeOK, StartFails, OperatorStart, ReadError, KafkaDelivers, vars, procVars
<1>2. Accounted \subseteq Accounted'
  BY <1>1, AccountedGrows
<1>3. AckInv'
  BY <1>1, <1>2, AckSame DEF slotVars
<1>4. IdleInv'
  <2>1. (KafkaDelivers => proc' \notin {"down", "exited"})
    BY DEF KafkaDelivers, procVars, Attached
  <2>2. StartFails \/ OperatorStart \/ ReadError \/ UNCHANGED vars =>
           /\ queued' = queued
           /\ proc' \in {"down", "exited"} => proc \in {"down", "exited"}
    BY DEF StartFails, OperatorStart, ReadError, vars, outputVars, procVars
  <2>3. QED BY <1>1, <2>1, <2>2 DEF IdleInv, slotVars
<1>5. SessionInv'
  <2>1. CASE proc' \in {"down", "exited", "closing"}
    BY <2>1 DEF SessionInv, Attached
  <2>2. CASE proc' = proc
    <3>1. UNCHANGED <<active, pos, sent, cur, cache, received>> /\ Done' = Done
      BY <1>1, <2>2 DEF slotVars, Done
    <3>2. ViewInv => ViewInv'
      BY <3>1 DEF ViewInv
    <3>3. ProgressInv => ProgressInv'
      BY <3>1, <1>2 DEF ProgressInv
    <3>4. MessageInv => MessageInv'
      BY <3>1, <2>2 DEF MessageInv
    <3>5. QED BY <1>1, <2>2, <3>2, <3>3, <3>4 DEF SessionInv
  <2>3. QED BY <1>1, <2>1, <2>2
<1>6. QED BY <1>3, <1>4, <1>5

(* Status updates sent and read outside the handling of a message.         *)
LEMMA StatusStep ==
    ASSUME IInv, ReadKeepalive \/ ReadCopyDone \/ ServerConfirms \/ ServerReleases
    PROVE  IdleInv' /\ SessionInv' /\ AckInv'
<1>1. /\ SlotTypeOK /\ IdleInv /\ SessionInv /\ AckInv
      /\ UNCHANGED <<outputVars, pos, sent, cur, cache, received, applied>>
  BY DEF IInv, TypeOK, ReadKeepalive, ReadCopyDone, ServerConfirms, ServerReleases,
         Reply, SlotConfirm, SlotRelease, procVars
<1>2. Accounted' = Accounted /\ SafeAcks' = SafeAcks
  BY <1>1 DEF outputVars, Accounted, Logged, SafeAcks
<1>3. CASE ReadKeepalive \/ ReadCopyDone
  <2>1. /\ proc = "idle" /\ proc' \in {"idle", "ended"}
        /\ active' = active /\ applied' = applied /\ Reply(applied')
    BY <1>3 DEF ReadKeepalive, ReadCopyDone, Reply, procVars
  <2>2. AckInv'
    BY <1>1, <2>1, AckReply DEF AckInv
  <2>3. ViewInv /\ ProgressInv
    BY <1>1, <2>1 DEF SessionInv, Attached
  <2>4. Done = pos /\ Done' = pos
    BY <1>1, <2>1 DEF Done
  <2>5. ViewInv' /\ ProgressInv'
    BY <1>1, <1>2, <2>1, <2>3, <2>4 DEF ViewInv, ProgressInv
  <2>6. IdleInv'
    BY <2>1, <2>5 DEF IdleInv, ViewInv
  <2>7. QED BY <2>1, <2>2, <2>5, <2>6 DEF SessionInv
<1>4. CASE ServerConfirms \/ ServerReleases
  <2>1. proc' = proc /\ Done' = Done
    BY <1>1, <1>4 DEF ServerConfirms, ServerReleases, procVars, Done
  <2>2. /\ confirmed' = confirmed \/ (replies # <<>> /\ confirmed' = Head(replies))
        /\ replies' = <<>> \/ (replies # <<>> /\ replies' = Tail(replies))
    BY <1>4 DEF ServerConfirms, ServerReleases, SlotConfirm, SlotRelease
  <2>3. replies # <<>> => Head(replies) \in SafeAcks /\ Tail(replies) \in Seq(SafeAcks)
    BY <1>1 DEF AckInv
  <2>4. AckInv'
    <3>1. <<>> \in Seq(SafeAcks)
      OBVIOUS
    <3>2. QED BY <1>1, <1>2, <2>2, <2>3, <3>1 DEF AckInv
  <2>5. \/ active /\ active'
        \/ active' = FALSE /\ replies' = <<>> /\ proc \notin Attached
    <3>1. CASE ServerConfirms
      <4>1. active /\ active' = active
        BY <3>1 DEF ServerConfirms, SlotConfirm
      <4>2. QED BY <4>1, Zenon
    <3>2. CASE ServerReleases
      BY <3>2 DEF ServerReleases, SlotRelease
    <3>3. QED BY <1>4, <3>1, <3>2
  <2>6. IdleInv'
    BY <1>1, <2>1, <2>5 DEF IdleInv, outputVars
  <2>7. proc \in Attached => ViewInv' /\ ProgressInv'
    <3> SUFFICES ASSUME proc \in Attached PROVE ViewInv' /\ ProgressInv'
      OBVIOUS
    <3>1. ViewInv /\ ProgressInv
      BY <1>1 DEF SessionInv
    <3>2. QED BY <1>1, <1>2, <2>1, <2>5, <3>1 DEF ViewInv, ProgressInv
  <2>8. MessageInv => MessageInv'
    BY <1>1, <2>1 DEF MessageInv
  <2>9. QED BY <1>1, <2>1, <2>4, <2>6, <2>7, <2>8 DEF SessionInv
<1>5. QED BY <1>3, <1>4

LEMMA InvStep == IInv /\ [Next]_vars => IInv'
<1> SUFFICES ASSUME IInv, [Next]_vars PROVE IInv'
  OBVIOUS
<1>1. TypeOK'
  BY TypeStep DEF IInv
<1>2. IdleInv' /\ SessionInv' /\ AckInv'
  BY StartStep, ReadStep, HandleStep, FinishStep, StopStep, QuietStep, StatusStep
     DEF Next, Read
<1>3. QED BY <1>1, <1>2 DEF IInv

LEMMA Invariance == Spec => []IInv
BY InvInit, InvStep, PTL DEF Spec
----------------------------------------------------------------------------
(* Whatever the stream and however often the process is killed, PostgreSQL *)
(* is told to forget a transaction only when each of its changes is in the *)
(* topic, on its way there, or reported refused or lost by Kafka.          *)
THEOREM NothingSkipped == Spec => []ConfirmedAccounted
<1>1. IInv => ConfirmedAccounted
  BY DEF IInv, AckInv, SafeAcks, ConfirmedAccounted, Changes, Index
<1>2. QED BY Invariance, <1>1, PTL

(* Every row is decoded with the definition of its table it was written    *)
(* under, so that the drop of rows of unknown tables never happens.        *)
THEOREM SchemaNeverStale == Spec => []SchemaCurrent
<1>1. IInv => SchemaCurrent
  BY DEF IInv, SessionInv, ViewInv, MessageInv, SchemaCurrent, Attached
<1>2. QED BY Invariance, <1>1, PTL

(* No transaction that contains a message the parser cannot handle is ever *)
(* confirmed: the slot stays in front of it for good.                      *)
THEOREM PoisonHoldsSlot == Spec => []PoisonNeverConfirmed
<1>1. IInv => PoisonNeverConfirmed
  BY StreamTypes DEF IInv, AckInv, SafeAcks, PoisonNeverConfirmed, TypeOK, SlotTypeOK
<1>2. QED BY Invariance, <1>1, PTL
----------------------------------------------------------------------------
(* Retries are the only source of duplicates and disorder in the topic     *)
(* within a run.  The argument: a change still queued behind a later or    *)
(* equal one in the topic has already been tried, since librdkafka sends   *)
(* what was never tried in order.                                          *)

(* Positions in the topic written by this run of the process. *)
Run == runStart + 1 .. Len(log)

OrderInv ==
    /\ \A i \in queued : i <= Done
    /\ \A a \in Run : log[a] <= Done
    /\ \A i \in queued : attempts[i] > 0 => i \in retried
    /\ \A a \in Run : \A i \in queued : i <= log[a] => i \in retried
    /\ DisorderOnlyByRetry

LEMMA RunTypes ==
    ASSUME IInv
    PROVE  /\ Run \subseteq DOMAIN log /\ DOMAIN log \subseteq Int
           /\ \A a \in Run : log[a] \in Int
           /\ queued \subseteq Int
<1>1. log \in Seq(Changes) /\ runStart \in Nat /\ queued \subseteq Changes
  BY DEF IInv, TypeOK, OutputTypeOK
<1>2. Changes \subseteq Int
  BY StreamTypes DEF Changes, Index
<1>3. /\ Len(log) \in Nat /\ DOMAIN log = 1 .. Len(log)
      /\ \A a \in DOMAIN log : log[a] \in Changes
  BY <1>1
<1>4. Run \subseteq DOMAIN log
  BY <1>1, <1>3 DEF Run
<1>5. DOMAIN log \subseteq Int
  BY <1>3
<1>6. \A a \in Run : log[a] \in Int
  BY <1>2, <1>3, <1>4
<1>7. QED BY <1>1, <1>2, <1>4, <1>5, <1>6

LEMMA OrderInit == Init => OrderInv
BY DEF Init, OutputInit, OrderInv, Run, DisorderOnlyByRetry

(* Steps that produce and deliver nothing only move on in the stream.      *)
LEMMA OrderKept ==
    ASSUME OrderInv, IInv, IInv', UNCHANGED outputVars \/ OutputDrop \/ Discard(cur),
           Done' >= Done
    PROVE  OrderInv'
<1>1. /\ queued' \subseteq queued
      /\ UNCHANGED <<attempts, log, retried, runStart>>
  BY DEF outputVars, OutputDrop, Discard
<1>2. Done \in Int /\ Done' \in Int /\ Changes \subseteq Int
  BY StreamTypes DEF IInv, TypeOK, SlotTypeOK, Done, Changes, Index
<1>3. /\ queued \subseteq Int
      /\ \A a \in Run : log[a] \in Int
  BY RunTypes
<1>4. Run' = Run
  BY <1>1 DEF Run
<1>5. \A x \in Int : x <= Done => x <= Done'
  BY <1>2
<1>6. (\A i \in queued' : i <= Done') /\ (\A a \in Run' : log'[a] <= Done')
  BY <1>1, <1>3, <1>4, <1>5 DEF OrderInv
<1>7. DisorderOnlyByRetry'
  BY <1>1 DEF OrderInv, DisorderOnlyByRetry
<1>8. QED BY <1>1, <1>4, <1>6, <1>7 DEF OrderInv

(* A change is produced once per run, after all earlier ones.              *)
LEMMA OrderProduce ==
    ASSUME OrderInv, IInv, proc = "parsed", cur \in Changes, cur > 0, Produce(cur),
           proc' = "handled", UNCHANGED pos
    PROVE  OrderInv'
<1>1. cur = pos /\ Done = pos - 1 /\ Done' = pos /\ pos \in Int /\ cur \in Index
  BY StreamTypes DEF IInv, TypeOK, SlotTypeOK, SessionInv, MessageInv, Done, Changes
<1>2. UNCHANGED <<log, retried, runStart>> /\ Run' = Run
  BY DEF Produce, Run
<1>3. \A i \in queued' : i \in queued \/ i = cur
  BY DEF Produce
<1>4. /\ queued \subseteq Int
      /\ \A a \in Run : log[a] \in Int
      /\ Run \subseteq Int
  BY RunTypes
<1>5. /\ \A i \in queued : i < cur
      /\ \A a \in Run : log[a] < cur
  BY <1>1, <1>4 DEF OrderInv
<1>6. (\A i \in queued' : i <= Done') /\ (\A a \in Run' : log'[a] <= Done')
  <2>1. \A x \in Int : x < cur => x <= Done'
    BY <1>1
  <2>2. cur <= Done'
    BY <1>1
  <2>3. \A i \in queued' : i <= Done'
    BY <1>3, <1>4, <1>5, <2>1, <2>2
  <2>4. \A a \in Run' : log'[a] <= Done'
    BY <1>2, <1>4, <1>5, <2>1
  <2>5. QED BY <2>3, <2>4
<1>7. \A i \in queued' : attempts'[i] > 0 => i \in retried'
  <2>1. attempts' = [attempts EXCEPT ![cur] = 0] /\ attempts \in [Index -> 0 .. Retries]
    BY DEF Produce, IInv, TypeOK, OutputTypeOK
  <2>2. attempts'[cur] = 0
    BY <2>1, <1>1
  <2>3. \A i \in queued : i # cur /\ i \in Index
    BY <1>4, <1>5 DEF IInv, TypeOK, OutputTypeOK, Changes
  <2>4. \A i \in queued : attempts'[i] = attempts[i]
    BY <2>1, <2>3
  <2>5. QED BY <1>2, <1>3, <2>2, <2>4 DEF OrderInv
<1>8. \A a \in Run' : \A i \in queued' : i <= log'[a] => i \in retried'
  <2> SUFFICES ASSUME NEW a \in Run, NEW i \in queued', i <= log[a]
               PROVE  i \in retried
    BY <1>2
  <2>1. i # cur
    BY <1>4, <1>5, <1>1
  <2>2. QED BY <1>3, <2>1 DEF OrderInv
<1>9. DisorderOnlyByRetry'
  BY <1>2 DEF OrderInv, DisorderOnlyByRetry
<1>10. QED BY <1>6, <1>7, <1>8, <1>9 DEF OrderInv

(* Delivering, retrying and failing: when a change is stored, every        *)
(* earlier one still queued has been tried.                                *)
LEMMA OrderDeliver ==
    ASSUME OrderInv, IInv, Deliver, Done' = Done
    PROVE  OrderInv'
<1>1. PICK k \in Changes : DeliverOk(k) \/ DeliverRetry(k) \/ DeliverFail(k)
  BY DEF Deliver
<1>2. /\ queued \subseteq Changes /\ Changes \subseteq Int
      /\ log \in Seq(Changes) /\ Len(log) \in Nat /\ runStart \in Nat
      /\ attempts \in [Index -> 0 .. Retries] /\ k \in queued /\ k \in Index
      /\ queued \subseteq Index
  BY <1>1, StreamTypes
     DEF IInv, TypeOK, OutputTypeOK, Changes, Index, DeliverOk, DeliverRetry,
         DeliverFail, Sendable
<1>3. /\ queued' \subseteq queued /\ retried \subseteq retried' /\ runStart' = runStart
      /\ \A i \in queued' : attempts'[i] = attempts[i] \/ i \in retried'
  BY <1>1, <1>2 DEF DeliverOk, DeliverRetry, DeliverFail
<1>4. \A i \in queued' : attempts'[i] > 0 => i \in retried'
  BY <1>3 DEF OrderInv
<1>5. \A i \in queued' : i <= Done'
  BY <1>3 DEF OrderInv
<1>6. CASE log' = log
  <2>1. Run' = Run
    BY <1>3, <1>6 DEF Run
  <2>2. DisorderOnlyByRetry'
    BY <1>3, <1>6 DEF OrderInv, DisorderOnlyByRetry
  <2>3. QED BY <1>3, <1>4, <1>5, <1>6, <2>1, <2>2 DEF OrderInv
<1>7. CASE log' = Append(log, k) /\ Sendable(k)
  <2>1. /\ \A a \in Run' : a \in Run \/ a = Len(log) + 1
        /\ \A a \in Run : a \in DOMAIN log /\ log'[a] = log[a] /\ log[a] \in Int
        /\ log'[Len(log) + 1] = k
        /\ Len(log') = Len(log) + 1
    <3>1. /\ Len(log') = Len(log) + 1 /\ log'[Len(log) + 1] = k
          /\ \A a \in DOMAIN log : log'[a] = log[a]
      BY <1>2, <1>7
    <3>2. \A a \in Run' : a \in Run \/ a = Len(log) + 1
      BY <1>2, <1>3, <3>1 DEF Run
    <3>3. QED BY <3>1, <3>2, RunTypes
  <2>2. k <= Done
    BY <1>2 DEF OrderInv
  <2>3. \A a \in Run' : log'[a] <= Done'
    BY <2>1, <2>2 DEF OrderInv
  <2>4. \A i \in queued' : i <= k => i \in retried'
    <3>1. \A i \in queued' : i < k => i \in retried'
      BY <1>2, <1>3, <1>7 DEF Sendable, OrderInv
    <3>2. k \in queued' => k \in retried'
      BY <1>1, <1>2 DEF DeliverOk, DeliverRetry, DeliverFail
    <3>3. QED BY <1>2, <1>3, <3>1, <3>2
  <2>5. \A a \in Run' : \A i \in queued' : i <= log'[a] => i \in retried'
    BY <1>3, <2>1, <2>4 DEF OrderInv
  <2>6. \A a \in Run : k <= log[a] => k \in retried
    BY <1>2 DEF OrderInv
  <2>7. DisorderOnlyByRetry'
    <3> SUFFICES ASSUME NEW a \in Run', NEW b \in Run', a < b, log'[b] <= log'[a]
                 PROVE  log'[b] \in retried'
      BY DEF DisorderOnlyByRetry, Run
    <3>1. a \in Run
      BY <1>2, <2>1 DEF Run
    <3>2. CASE b \in Run
      BY <1>3, <2>1, <3>1, <3>2 DEF OrderInv, DisorderOnlyByRetry, Run
    <3>3. CASE b = Len(log) + 1
      BY <1>3, <2>1, <2>6, <3>1, <3>3
    <3>4. QED BY <2>1, <3>2, <3>3
  <2>8. QED BY <1>4, <1>5, <2>3, <2>5, <2>7 DEF OrderInv
<1>8. log' = log \/ (log' = Append(log, k) /\ Sendable(k))
  BY <1>1 DEF DeliverOk, DeliverRetry, DeliverFail, Stored
<1>9. QED BY <1>6, <1>7, <1>8

LEMMA OrderStep == OrderInv /\ IInv /\ IInv' /\ [Next]_vars => OrderInv'
<1> SUFFICES ASSUME OrderInv, IInv, IInv', [Next]_vars PROVE OrderInv'
  OBVIOUS
<1>1. pos \in Int /\ cur \in Int
  BY StreamTypes DEF IInv, TypeOK, SlotTypeOK
<1>2. CASE Start
  BY <1>2 DEF Start, OutputStart, OrderInv, Run, DisorderOnlyByRetry, IInv, TypeOK, OutputTypeOK
<1>3. CASE Read \/ Kill \/ FlushAndExit
  <2>1. UNCHANGED outputVars \/ OutputDrop
    BY <1>3 DEF Read, ReadRelation, ReadMessage, ReadUnparsed, Kill, FlushAndExit, Die
  <2>2. Done' >= Done
    BY <1>1, <1>3 DEF Read, ReadRelation, ReadMessage, ReadUnparsed, SendRelation, SendNext,
       Kill, FlushAndExit, Die, Done, slotVars
  <2>3. QED BY <2>1, <2>2, OrderKept
<1>4. CASE HandleRow \/ HandleTruncate
  <2>1. cur > 0 /\ cur \in Changes /\ proc = "parsed" /\ proc' = "handled" /\ UNCHANGED pos
    BY <1>4, StreamTypes
       DEF HandleRow, HandleTruncate, IsRow, Changes, Index, slotVars, IInv, TypeOK
  <2>2. CASE Produce(cur)
    BY <2>1, <2>2, OrderProduce
  <2>3. CASE UNCHANGED outputVars
    <3>1. Done' >= Done
      BY <1>1, <2>1 DEF Done
    <3>2. QED BY <2>3, <3>1, OrderKept
  <2>4. QED BY <1>4, <2>2, <2>3 DEF HandleRow, HandleTruncate
<1>5. CASE HandleThrows
  <2>1. Discard(cur) /\ UNCHANGED <<pos, cur>> /\ proc' = "idle"
    BY <1>5 DEF HandleThrows, slotVars
  <2>2. Done' >= Done
    BY <1>1, <2>1 DEF Done
  <2>3. QED BY <2>1, <2>2, OrderKept
<1>6. CASE KafkaDelivers
  <2>1. Deliver /\ Done' = Done
    BY <1>6 DEF KafkaDelivers, slotVars, procVars, Done
  <2>2. QED BY <2>1, OrderDeliver
<1>7. CASE \/ StartFails \/ OperatorStart \/ ReadError \/ HandleOther \/ FinishMessage
           \/ ReadKeepalive \/ ReadCopyDone \/ ServerConfirms \/ ServerReleases
           \/ UNCHANGED vars
  <2>1. UNCHANGED <<outputVars, pos, cur>>
    BY <1>7 DEF StartFails, OperatorStart, ReadError, HandleOther, FinishMessage,
       ReadKeepalive, ReadCopyDone, ServerConfirms, ServerReleases, Reply, SlotConfirm,
       SlotRelease, slotVars, procVars, vars
  <2>2. proc' = "parsed" => proc = "parsed"
    BY <1>7 DEF StartFails, OperatorStart, ReadError, HandleOther, FinishMessage,
       ReadKeepalive, ReadCopyDone, ServerConfirms, ServerReleases, procVars, vars
  <2>3. Done' >= Done
    BY <1>1, <2>1, <2>2 DEF Done
  <2>4. QED BY <2>1, <2>3, OrderKept
<1>8. QED BY <1>2, <1>3, <1>4, <1>5, <1>6, <1>7 DEF Next, Handle

(* Within one run of the process the topic repeats or reorders a change    *)
(* only if librdkafka retried it, for every stream and retry limit.        *)
THEOREM OnlyRetriesDisorder == Spec => []DisorderOnlyByRetry
<1>1. OrderInv => DisorderOnlyByRetry
  BY DEF OrderInv
<1>2. QED BY Invariance, OrderInit, OrderStep, <1>1, PTL DEF Spec
====
