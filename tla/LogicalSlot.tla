---- MODULE LogicalSlot ----
(***************************************************************************)
(* PostgreSQL's side of the replication connection, modelled from the way  *)
(* producer_azs/postgresql_replicator.cpp uses it: a replication slot with *)
(* its confirmed position, and the walsender that streams to the process   *)
(* that holds the slot.                                                    *)
(***************************************************************************)
EXTENDS ChangeStream

CONSTANT MaxReplies   \* bound on status updates not yet read by the walsender

VARIABLES
    confirmed,  \* the slot's confirmed_flush_lsn
    active,     \* a walsender holds the slot
    pos,        \* the last message of Stream sent in this session
    sent,       \* version of each table described in this session, 0 for none
    replies     \* status updates on their way to the walsender

slotVars == <<confirmed, active, pos, sent, replies>>

NoSchema == [r \in Relations |-> 0]

SlotTypeOK ==
    /\ confirmed \in Nat
    /\ active \in BOOLEAN
    /\ pos \in 0 .. Len(Stream)
    /\ sent \in [Relations -> Nat]
    /\ replies \in Seq(Nat)

SlotInit ==
    /\ confirmed = 0
    /\ active = FALSE
    /\ pos = 0
    /\ sent = NoSchema
    /\ replies = <<>>

(* Decoding from lsn v skips the transactions whose commit is not past v:  *)
(* streaming resumes right after the last of them.                         *)
ResumesAt(v, p) ==
    /\ p # 0 => IsCommit(p) /\ Stream[p].lsn <= v
    /\ \A i \in Index : i > p => ~(IsCommit(i) /\ Stream[i].lsn <= v)

(* START_REPLICATION from lsn v: refused while another walsender holds the *)
(* slot; a start before the confirmed position is moved up to it.          *)
SlotAcquire(v) ==
    /\ ~active
    /\ active' = TRUE
    /\ \E p \in 0 .. Len(Stream) :
          /\ ResumesAt(IF v > confirmed THEN v ELSE confirmed, p)
          /\ pos' = p
    /\ sent' = NoSchema
    /\ UNCHANGED <<confirmed, replies>>

(* Before a message is sent, each table it touches is described unless     *)
(* this session already described that version.                            *)
Announces(r) ==
    /\ pos < Len(Stream)
    /\ Touches(pos + 1, r)
    /\ sent[r] # Stream[pos + 1].schema[r]

SendRelation(r) ==
    /\ Announces(r)
    /\ sent' = [sent EXCEPT ![r] = Stream[pos + 1].schema[r]]
    /\ UNCHANGED <<confirmed, active, pos, replies>>

SendNext ==
    /\ pos < Len(Stream)
    /\ \A r \in Relations : ~Announces(r)
    /\ pos' = pos + 1
    /\ UNCHANGED <<confirmed, active, sent, replies>>

(* The walsender reads a status update.  An invalid (zero) position is     *)
(* ignored; a position behind the confirmed one moves it back or not,      *)
(* depending on the server's version.                                      *)
SlotConfirm ==
    /\ active
    /\ replies # <<>>
    /\ replies' = Tail(replies)
    /\ \/ Head(replies) = 0 /\ UNCHANGED confirmed
       \/ Head(replies) > 0 /\ confirmed' = Head(replies)
       \/ Head(replies) < confirmed /\ UNCHANGED confirmed
    /\ UNCHANGED <<active, pos, sent>>

(* The walsender notices that its client is gone; what it did not read is  *)
(* dropped.                                                                *)
SlotRelease ==
    /\ active
    /\ active' = FALSE
    /\ replies' = <<>>
    /\ UNCHANGED <<confirmed, pos, sent>>
====
