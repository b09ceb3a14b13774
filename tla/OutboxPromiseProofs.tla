------------------------ MODULE OutboxPromiseProofs ------------------------
(***************************************************************************)
(* Proofs about the outbox's promise: whatever implements it neither       *)
(* repeats a line without a fault, nor reorders two, nor lies about one    *)
(* but after a fault or a shutdown that raised.                            *)
(***************************************************************************)
EXTENDS OutboxPromise, TLAPS

(* Rows are queued in order, so an unqueued or unanswered row is never     *)
(* older than the newest row written.                                      *)
QueuedInOrder == \A r, q \in Row : q < r /\ state[r] # "none" => state[q] # "none"
WrittenInOrder == \A r \in Row : ~Answered(state[r]) => newest <= r

PInv == /\ PTypeOK
        /\ QueuedInOrder
        /\ WrittenInOrder
        /\ DuplicatesNeedAFault
        /\ AnswerMatchesWire

(* The inductive invariant holds at the start and is kept by every step.   *)
LEMMA PInvStart == PInit => PInv
  BY DEF PInit, PInv, PTypeOK, QueuedInOrder, WrittenInOrder,
     DuplicatesNeedAFault, AnswerMatchesWire, Answered, Row

LEMMA PInvKept == PInv /\ [PNext]_pvars => PInv'
<1> USE DEF Row, Answered
<1> SUFFICES ASSUME PInv, [PNext]_pvars PROVE PInv'
  OBVIOUS
<1> USE DEF PInv, PTypeOK, QueuedInOrder, WrittenInOrder, DuplicatesNeedAFault,
            AnswerMatchesWire
<1>1. ASSUME NEW r \in Row, Queue(r) PROVE PInv'
  BY <1>1 DEF Queue
<1>2. ASSUME NEW r \in Row, Write(r) PROVE PInv'
  BY <1>2 DEF Write, Oldest
<1>3. ASSUME NEW r \in Row, NEW a \in {"sent", "failed"}, Answer(r, a) PROVE PInv'
  BY <1>3 DEF Answer, Oldest
<1>4. CASE Fault
  BY <1>4 DEF Fault
<1>5. CASE UNCHANGED pvars
  BY <1>5 DEF pvars
<1>6. ASSUME NEW r \in Row, CutShort(r) \/ TakeBack(r) PROVE PInv'
  BY <1>6 DEF CutShort, TakeBack
<1> QED
  BY <1>1, <1>2, <1>3, <1>4, <1>5, <1>6 DEF PNext

(* The promise keeps its inductive invariant.                              *)
THEOREM PromiseInvariant == PSpec => []PInv
<1>1. PInit => PInv
  BY PInvStart
<1>2. PInv /\ [PNext]_pvars => PInv'
  BY PInvKept
<1> QED
  BY <1>1, <1>2, PTL DEF PSpec

(* A repeat of a line needs a fault.                                       *)
THEOREM PromiseNoRepeat == PSpec => []DuplicatesNeedAFault
<1>1. PInv => DuplicatesNeedAFault
  BY DEF PInv
<1> QED
  BY <1>1, PromiseInvariant, PTL

(* The polled answer is true of the wire.                                  *)
THEOREM PromiseTruth == PSpec => []AnswerMatchesWire
<1>1. PInv => AnswerMatchesWire
  BY DEF PInv
<1> QED
  BY <1>1, PromiseInvariant, PTL

(* Lines are written in the order they were queued.                        *)
THEOREM PromiseOrder == PSpec => WireInQueueOrder
<1>1. PInv /\ [PNext]_pvars => [newest' >= newest]_newest
  <2> SUFFICES ASSUME PInv, PNext PROVE newest' >= newest \/ newest' = newest
    BY DEF pvars
  <2>1. ASSUME NEW r \in Row, Write(r) PROVE newest' >= newest
    BY <2>1
       DEF Write, Oldest, PInv, PTypeOK, WrittenInOrder, Answered, Row
  <2> QED
    BY <2>1 DEF PNext, Queue, Answer, CutShort, TakeBack, Fault
<1> QED
  BY <1>1, PromiseInvariant, PTL DEF PSpec, WireInQueueOrder

(* An answered line is not written again, and only a shutdown that raised  *)
(* right after it was written can take its answer back.                    *)
THEOREM PromiseFinal == PSpec => AnswerIsFinal
<1>1. PInv /\ [PNext]_pvars =>
        [\A r \in Row : Answered(state[r]) =>
            /\ copies'[r] = copies[r]
            /\ \/ state'[r] = state[r]
               \/ /\ state[r] = "sent" /\ state'[r] = "failed"
                  /\ r \in cut /\ newest = r]_pvars
  <2> SUFFICES ASSUME PInv, PNext, NEW r \in Row, Answered(state[r])
               PROVE  /\ copies'[r] = copies[r]
                      /\ \/ state'[r] = state[r]
                         \/ /\ state[r] = "sent" /\ state'[r] = "failed"
                            /\ r \in cut /\ newest = r
    OBVIOUS
  <2> USE DEF PInv, PTypeOK, Answered
  <2>1. ASSUME NEW q \in Row, Queue(q) \/ Write(q) \/ CutShort(q)
        PROVE  state'[r] = state[r] /\ copies'[r] = copies[r]
    BY <2>1 DEF Queue, Write, CutShort, Oldest
  <2>2. ASSUME NEW q \in Row, NEW a \in {"sent", "failed"}, Answer(q, a)
        PROVE  state'[r] = state[r] /\ copies'[r] = copies[r]
    BY <2>2 DEF Answer, Oldest
  <2>3. ASSUME NEW q \in Row, TakeBack(q)
        PROVE  /\ copies'[r] = copies[r]
               /\ \/ state'[r] = state[r]
                  \/ /\ state[r] = "sent" /\ state'[r] = "failed"
                     /\ r \in cut /\ newest = r
    BY <2>3 DEF TakeBack
  <2> QED
    BY <2>1, <2>2, <2>3 DEF PNext, Fault
<1> QED
  BY <1>1, PromiseInvariant, PTL DEF PSpec, AnswerIsFinal
=============================================================================
