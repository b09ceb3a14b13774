--------------------------- MODULE OutboxPromise ---------------------------
(***************************************************************************)
(* What the outbox promises to the person who pressed "send", without the  *)
(* processes, threads and sockets that keep the promise.                   *)
(*                                                                         *)
(* Lines are answered strictly oldest first.  Writing a line to IRC and    *)
(* answering it ("sent" or "failed") are two steps of the live process, so *)
(* a fault between them (a crash, or an UPDATE that finds the database     *)
(* locked for longer than its timeout) may write a line again: one extra   *)
(* copy per fault at most, never one without.  A shutdown that raises may  *)
(* have the row in hand answered "failed" although it was written, even    *)
(* after it was answered "sent".                                           *)
(*                                                                         *)
(* Delivery.tla implements this module.                                    *)
(***************************************************************************)
EXTENDS Naturals

CONSTANTS MaxRows,      \* lines queued in one behaviour (bound)
          MaxFaults     \* crashes and failed UPDATEs in one behaviour (bound)

VARIABLES state,        \* what /api/send/status knows of each line
          copies,       \* how often each line was written to a socket
          newest,       \* the largest row written so far
          faults,       \* faults suffered so far
          cut           \* rows a raising shutdown found in hand

pvars == <<state, copies, newest, faults, cut>>

Row == 1 .. MaxRows

Answered(s) == s \in {"sent", "failed"}

(* The row the outbox is about: the oldest one without an answer.          *)
Oldest(r) == /\ state[r] = "pending"
             /\ \A q \in Row : state[q] = "pending" => r <= q

PInit == /\ state = [r \in Row |-> "none"]
         /\ copies = [r \in Row |-> 0]
         /\ newest = 0
         /\ faults = 0
         /\ cut = {}

Queue(r) == /\ state[r] = "none"
            /\ \A q \in Row : q < r => state[q] # "none"
            /\ state' = [state EXCEPT ![r] = "pending"]
            /\ UNCHANGED <<copies, newest, faults, cut>>

Write(r) == /\ Oldest(r)
            /\ copies[r] <= faults
            /\ copies' = [copies EXCEPT ![r] = @ + 1]
            /\ newest' = r
            /\ UNCHANGED <<state, faults, cut>>

Answer(r, a) == /\ Oldest(r)
                /\ a = "sent" => copies[r] > 0
                /\ a = "failed" => (copies[r] = 0 \/ faults > 0 \/ r \in cut)
                /\ state' = [state EXCEPT ![r] = a]
                /\ UNCHANGED <<copies, newest, faults, cut>>

Fault == /\ faults < MaxFaults
         /\ faults' = faults + 1
         /\ UNCHANGED <<state, copies, newest, cut>>

(* The latest line written may lose its "sent", the oldest unanswered one  *)
(* the truth of its "failed".                                              *)
CutShort(r) == /\ Oldest(r) \/ (state[r] = "sent" /\ newest = r)
               /\ cut' = cut \cup {r}
               /\ UNCHANGED <<state, copies, newest, faults>>

TakeBack(r) == /\ state[r] = "sent" /\ newest = r /\ r \in cut
               /\ state' = [state EXCEPT ![r] = "failed"]
               /\ UNCHANGED <<copies, newest, faults, cut>>

PNext == \/ \E r \in Row : Queue(r) \/ Write(r) \/ CutShort(r) \/ TakeBack(r)
         \/ \E r \in Row, a \in {"sent", "failed"} : Answer(r, a)
         \/ Fault

PSpec == PInit /\ [][PNext]_pvars

-----------------------------------------------------------------------------
(* Shape of the state.                                                     *)
PTypeOK == /\ state \in [Row -> {"none", "pending", "sent", "failed"}]
           /\ copies \in [Row -> Nat]
           /\ newest \in Row \cup {0}
           /\ faults \in Nat
           /\ cut \subseteq Row

(* A line is on the wire at most once more than there were faults: a crash *)
(* may repeat a line, ordinary running and a graceful restart never do.    *)
DuplicatesNeedAFault == \A r \in Row : copies[r] <= 1 + faults

(* The answer a client polls tells the truth about the wire: "sent" only   *)
(* for a line that was written; "failed" only for one that was not, so     *)
(* that sending it again is safe, unless there was a fault or a shutdown   *)
(* raised with this very row in hand.                                      *)
AnswerMatchesWire ==
  \A r \in Row : /\ state[r] = "sent" => copies[r] > 0
                 /\ state[r] = "failed" /\ faults = 0 /\ r \notin cut => copies[r] = 0

(* Lines reach the wire in the order people queued them, repeats included. *)
WireInQueueOrder == [][newest' >= newest]_newest

(* An answered line is never written again, and keeps its answer for good  *)
(* unless it is the latest one written and a shutdown raised with it in    *)
(* hand, which turns "sent" into "failed".                                 *)
AnswerIsFinal ==
  [][\A r \in Row : Answered(state[r]) =>
        /\ copies'[r] = copies[r]
        /\ \/ state'[r] = state[r]
           \/ /\ state[r] = "sent" /\ state'[r] = "failed"
              /\ r \in cut /\ newest = r]_pvars
=============================================================================
