----------------------------- MODULE FeedProofs -----------------------------
(***************************************************************************)
(* Proofs about Feed: its type, that an answer of /api/meta counts what    *)
(* was there when it was asked for and is not older than META_TTL, that a  *)
(* stream skips nothing and holds one slot, and that locate() lines up     *)
(* with search(), for any numbers of readers, pages, slots, messages,      *)
(* edits and ticks and any size of batch.                                  *)
(***************************************************************************)
EXTENDS Feed, FiniteSetTheorems, SequenceTheorems, TLAPS

-----------------------------------------------------------------------------
(* The inductive invariant.                                                *)

Asker == [pc: {"idle", "ids", "messages", "tags", "put", "told"}, key: Keys, now: Nat,
          total: Nat, edits: Nat, asked: Nat, since: Nat]
Listener == [pc: {"closed", "counted", "open", "ends"}, from: Nat, last: Nat,
             heard: Seq(Ids), start: Nat]

ArchiveOK ==
  /\ messages \in Seq([ts: Times, chan: Chans]) /\ Len(messages) <= MaxMessages
  /\ edits \in 0..MaxEdits /\ tags \subseteq 1..edits

(* Every tick began with no more edits than the next, and than there are.  *)
History ==
  /\ clock \in 0..MaxClock /\ editsAt \in [0..MaxClock -> Nat]
  /\ \A t \in 0..clock : editsAt[t] <= edits
  /\ \A t, u \in 0..clock : t <= u => editsAt[t] <= editsAt[u]

(* The figures in the cache are not older than its key, and have the edits *)
(* made before the tick they are dated with.                               *)
Entry ==
  /\ cache \in [key: Keys, total: Nat, edits: Nat, at: Nat]
  /\ cache.total >= cache.key[1]
  /\ cache.at <= clock /\ cache.edits >= editsAt[cache.at]

(* The same for what a thread has read so far: its key is not older than   *)
(* the request, nor is the tick its answer is dated with.                  *)
Answer(q) ==
  /\ q.since <= clock
  /\ q.pc \in {"ids", "messages", "tags", "put"} =>
       q.asked <= q.key[1] /\ q.key[1] <= Len(messages)
  /\ q.pc \in {"tags", "put"} => q.total >= q.key[1]
  /\ q.pc \in {"messages", "tags", "put"} => q.since <= q.now /\ q.now <= clock
  /\ q.pc = "put" => q.edits >= editsAt[q.now]
  /\ q.pc = "told" =>
       /\ q.total >= q.asked
       /\ q.since + 1 >= MetaTTL => q.edits >= editsAt[q.since + 1 - MetaTTL]

Answers == reader \in [Readers -> Asker] /\ \A r \in Readers : Answer(reader[r])

(* From its place s on, h counts on from f, d numbers long.                *)
Counts(h, s, d, f) == Len(h) = s + d /\ \A i \in 1..d : h[s + i] = f + i

(* What an open stream has sent since it began is what came after `from`.  *)
InStep(q) ==
  q.pc = "open" => q.from <= q.last /\ Counts(q.heard, q.start, q.last - q.from, q.from)

Holding == {p \in Pages : page[p].pc # "closed"}

Streams ==
  /\ page \in [Pages -> Listener] /\ \A p \in Pages : InStep(page[p])
  /\ streams \in 0..MaxStreams /\ streams = Cardinality(Holding)

Asked == requests \in 0..MaxRequests

IInv == ArchiveOK /\ History /\ Entry /\ Answers /\ Streams /\ Asked

-----------------------------------------------------------------------------
(* Lemmas about the operators.                                             *)

(* Ids of tags start at one and have a largest.                            *)
LEMMA Largest ==
  ASSUME NEW n \in Nat, NEW S \in SUBSET (1..n), S # {}
  PROVE  \E t \in S : \A u \in S : u <= t
<1> DEFINE T == {n - s : s \in S}
<1>1. T \subseteq Nat /\ T # {}
  <2>1. \A s \in S : s \in 1..n /\ n - s \in Nat
    OBVIOUS
  <2>2. PICK s \in S : TRUE
    OBVIOUS
  <2>3. n - s \in T
    BY <2>2
  <2> QED
    BY <2>1, <2>3
<1>2. PICK x \in T : \A y \in T : ~(<<y, x>> \in OpToRel(<, Nat))
  BY <1>1, NatLessThanWellFounded, WFMin
<1>3. \A y \in T : ~(y < x)
  BY <1>1, <1>2 DEF OpToRel
<1>4. PICK t \in S : x = n - t
  OBVIOUS
<1>5. \A u \in S : u <= t
  <2> TAKE u \in S
  <2>1. ~(n - u < n - t)
    BY <1>3, <1>4
  <2> QED
    BY <2>1
<1> QED
  BY <1>4, <1>5

LEMMA MaxTagIsATag ==
  ASSUME edits \in Nat, tags \subseteq 1..edits
  PROVE  MaxTag \in 0..edits /\ Cardinality(tags) \in Nat
<1>1. Cardinality(tags) \in Nat
  <2>1. IsFiniteSet(1..edits)
    BY FS_Interval
  <2>2. IsFiniteSet(tags)
    BY <2>1, FS_Subset
  <2> QED
    BY <2>2, FS_CardinalityType
<1>2. CASE tags = {}
  BY <1>1, <1>2 DEF MaxTag
<1>3. CASE tags # {}
  <2>1. \E t \in tags : \A u \in tags : u <= t
    BY <1>3, Largest
  <2>2. MaxTag \in tags
    BY <1>3, <2>1 DEF MaxTag
  <2> QED
    BY <1>1, <2>2
<1> QED
  BY <1>2, <1>3

LEMMA CountUp ==
  ASSUME NEW n \in Nat, NEW a \in Nat
  PROVE  /\ [i \in 1..n |-> a + i] \in Seq(Nat)
         /\ Len([i \in 1..n |-> a + i]) = n
OBVIOUS

(* The rows a poll reads are those after the last, without a gap, and no   *)
(* more than a batch.                                                      *)
LEMMA RowsAreNext ==
  ASSUME NEW p \in Pages, ArchiveOK, Streams
  PROVE  /\ Rows(p) \in Seq(Ids)
         /\ \A i \in 1..Len(Rows(p)) : Rows(p)[i] = page[p].last + i
<1>1. /\ page[p].last \in Nat /\ Len(messages) \in Nat
      /\ Batch \in Nat \ {0} /\ MaxMessages \in Nat
  BY FeedAssumption DEF ArchiveOK, Streams, Listener
<1>2. PICK a \in Nat : a = page[p].last
  BY <1>1
<1>3. PICK n \in Nat : /\ 1..(Len(messages) - a) = 1..n
                       /\ (n = 0 \/ n = Len(messages) - a)
  <2>1. CASE Len(messages) <= a
    <3>1. 1..(Len(messages) - a) = 1..0
      BY <1>1, <1>2, <2>1
    <3> QED
      BY <3>1
  <2>2. CASE Len(messages) > a
    BY <1>1, <1>2, <2>2
  <2> QED
    BY <1>1, <1>2, <2>1, <2>2
<1> DEFINE s == [i \in 1..n |-> a + i]
           k == IF Batch < n THEN Batch ELSE n
<1>4. s \in Seq(Nat) /\ Len(s) = n
  BY CountUp
<1>5. k \in 0..n
  BY <1>1
<1>6. Rows(p) = SubSeq(s, 1, k)
  BY <1>2, <1>3, <1>4 DEF Rows, Limit
<1>7. \A i \in 1..k : s[i] = a + i /\ s[i] \in Ids
  BY <1>1, <1>3, <1>5 DEF Ids, ArchiveOK
<1> HIDE DEF s, k
<1>8. /\ SubSeq(s, 1, k) \in Seq(Ids)
      /\ Len(SubSeq(s, 1, k)) = IF 1 <= k THEN k ELSE 0
      /\ \A i \in 1..k : SubSeq(s, 1, k)[i] = s[i]
  <2>1. 1 \in Int /\ k \in Int /\ k - 1 + 1 = k
    BY <1>5
  <2>2. \A i \in 1..k : SubSeq(s, 1, k)[i] = s[1 + i - 1]
    BY <1>7, <2>1, SubSeqProperties
  <2> QED
    BY <1>5, <1>7, <2>1, <2>2, SubSeqProperties
<1> QED
  BY <1>2, <1>5, <1>6, <1>7, <1>8

-----------------------------------------------------------------------------
(* The archive grows, members edit, time passes.                           *)

(* What a thread has read stays good whatever happens to the archive.      *)
LEMMA AnswerStays ==
  ASSUME NEW q \in Asker, Answer(q), ArchiveOK, History, ArchiveOK', History',
         Len(messages') >= Len(messages), clock' >= clock,
         \A t \in 0..clock : editsAt'[t] = editsAt[t]
  PROVE  Answer(q)'
<1>1. /\ q.since \in Nat /\ q.now \in Nat /\ q.edits \in Nat /\ q.asked \in Nat
      /\ q.total \in Nat /\ q.key[1] \in Nat
  BY DEF Asker, Keys
<1>2. clock \in Nat /\ clock' \in Nat /\ Len(messages) \in Nat /\ Len(messages') \in Nat
  BY FeedAssumption DEF ArchiveOK, History
<1>3. MetaTTL \in Nat \ {0}
  BY FeedAssumption
<1>4. ASSUME q.pc = "told", q.since + 1 >= MetaTTL
      PROVE  q.since + 1 - MetaTTL \in 0..clock
  BY <1>1, <1>2, <1>3, <1>4, SMTT(30) DEF Answer
<1>5. ASSUME q.pc = "put"
      PROVE  q.now \in 0..clock
  BY <1>1, <1>2, <1>5 DEF Answer
<1>6. /\ q.since <= clock'
      /\ q.pc \in {"ids", "messages", "tags", "put"} =>
           q.asked <= q.key[1] /\ q.key[1] <= Len(messages')
      /\ q.pc \in {"tags", "put"} => q.total >= q.key[1]
      /\ q.pc \in {"messages", "tags", "put"} => q.since <= q.now /\ q.now <= clock'
  BY <1>1, <1>2 DEF Answer
<1>7. q.pc = "put" => q.edits >= editsAt'[q.now]
  BY <1>5 DEF Answer
<1>8. q.pc = "told" =>
        /\ q.total >= q.asked
        /\ q.since + 1 >= MetaTTL => q.edits >= editsAt'[q.since + 1 - MetaTTL]
  BY <1>4 DEF Answer
<1> QED
  BY <1>6, <1>7, <1>8 DEF Answer

(* So does what is in the cache.                                           *)
LEMMA OthersStay ==
  ASSUME IInv, ArchiveOK', History',
         Len(messages') >= Len(messages), clock' >= clock,
         \A t \in 0..clock : editsAt'[t] = editsAt[t],
         UNCHANGED <<reader, streams, page>>, Asked',
         cache' = cache \/ cache' = [cache EXCEPT !.key = NoKey]
  PROVE  IInv'
<1>1. Answers'
  <2>1. reader' \in [Readers -> Asker]
    BY DEF IInv, Answers
  <2>2. ASSUME NEW r \in Readers
        PROVE  Answer(reader[r])'
    <3>1. PICK q \in Asker : q = reader[r] /\ q = reader'[r]
      BY DEF IInv, Answers
    <3>2. Answer(q)
      BY <3>1 DEF IInv, Answers, Answer
    <3>3. Answer(q)'
      BY <3>2, AnswerStays DEF IInv
    <3> QED
      BY <3>1, <3>3 DEF Answer
  <2> QED
    BY <2>1, <2>2 DEF Answers
<1>2. Entry'
  <2>1. cache.at \in 0..clock /\ clock' \in Nat
    BY DEF IInv, Entry, History
  <2>2. /\ cache' \in [key: Keys, total: Nat, edits: Nat, at: Nat]
        /\ cache'.total = cache.total /\ cache'.edits = cache.edits /\ cache'.at = cache.at
        /\ cache'.key[1] = cache.key[1] \/ cache'.key[1] = 0
    BY DEF IInv, Entry, NoKey, Keys
  <2>3. cache'.total >= cache'.key[1]
    BY <2>2 DEF IInv, Entry
  <2>4. cache'.edits >= editsAt'[cache'.at] /\ cache'.at <= clock'
    BY <2>1, <2>2 DEF IInv, Entry, History
  <2> QED
    BY <2>2, <2>3, <2>4 DEF Entry
<1>3. Streams'
  BY DEF IInv, Streams, Holding
<1> QED
  BY <1>1, <1>2, <1>3 DEF IInv

LEMMA StoreKeeps ==
  ASSUME IInv, StoreLive \/ StoreImport
  PROVE  IInv'
<1>1. /\ Len(messages) < MaxMessages /\ UNCHANGED <<tags, edits, clock, editsAt, requests>>
      /\ UNCHANGED <<reader, streams, page>>
      /\ \E t \in Times, c \in Chans : messages' = Append(messages, [ts |-> t, chan |-> c])
      /\ cache' = cache \/ cache' = [cache EXCEPT !.key = NoKey]
  BY DEF StoreLive, StoreImport, Store
<1>2. messages' \in Seq([ts: Times, chan: Chans]) /\ Len(messages') = Len(messages) + 1
  BY <1>1 DEF IInv, ArchiveOK
<1>3. ArchiveOK'
  BY <1>1, <1>2, FeedAssumption DEF IInv, ArchiveOK
<1>4. History' /\ Asked' /\ clock' >= clock
  BY <1>1 DEF IInv, History, Asked
<1>5. Len(messages') >= Len(messages)
  BY <1>2 DEF IInv, ArchiveOK
<1> QED
  BY <1>1, <1>3, <1>4, <1>5, OthersStay

LEMMA EditKeeps ==
  ASSUME IInv, AddTag \/ DeleteTag \/ ChangeTag
  PROVE  IInv'
<1>1. /\ edits < MaxEdits /\ edits' = edits + 1
      /\ UNCHANGED <<messages, clock, editsAt, cache, reader, streams, page, requests>>
  BY DEF AddTag, DeleteTag, ChangeTag, EditTag
<1>2. edits \in Nat /\ MaxEdits \in Nat /\ MaxTag \in 0..edits /\ tags \subseteq 1..edits
  BY FeedAssumption, MaxTagIsATag DEF IInv, ArchiveOK
<1>3. tags' \subseteq tags \cup {MaxTag + 1}
  BY DEF AddTag, DeleteTag, ChangeTag
<1>4. tags' \subseteq 1..edits'
  BY <1>1, <1>2, <1>3
<1>5. ArchiveOK'
  BY <1>1, <1>2, <1>4 DEF IInv, ArchiveOK
<1>6. History' /\ Asked' /\ clock' >= clock
  <2>1. clock \in 0..MaxClock /\ editsAt \in [0..MaxClock -> Nat] /\ MaxClock \in Nat
    BY FeedAssumption DEF IInv, History
  <2>2. \A t \in 0..clock : editsAt[t] \in Nat /\ editsAt[t] <= edits'
    BY <1>1, <1>2, <2>1 DEF IInv, History
  <2> QED
    BY <1>1, <2>1, <2>2 DEF IInv, History, Asked
<1>7. Len(messages') >= Len(messages)
  BY <1>1 DEF IInv, ArchiveOK
<1> QED
  BY <1>1, <1>5, <1>6, <1>7, OthersStay

LEMMA TickKeeps ==
  ASSUME IInv, Tick
  PROVE  IInv'
<1>1. /\ clock < MaxClock /\ clock' = clock + 1
      /\ editsAt' = [editsAt EXCEPT ![clock + 1] = edits]
      /\ UNCHANGED <<messages, tags, edits, cache, reader, streams, page, requests>>
  BY DEF Tick
<1>2. /\ clock \in Nat /\ MaxClock \in Nat /\ edits \in Nat
      /\ editsAt \in [0..MaxClock -> Nat] /\ clock + 1 \in 0..MaxClock
  BY <1>1, FeedAssumption DEF IInv, History, ArchiveOK
<1>3. editsAt' \in [0..MaxClock -> Nat] /\ editsAt'[clock + 1] = edits
  BY <1>1, <1>2
<1>4. \A t \in 0..clock : editsAt'[t] = editsAt[t] /\ editsAt'[t] <= edits
  BY <1>1, <1>2 DEF IInv, History
<1>5. \A t \in 0..clock' : t \in 0..clock \/ t = clock + 1
  BY <1>1, <1>2
<1>6. \A t, u \in 0..clock' : t <= u => editsAt'[t] <= editsAt'[u]
  <2> TAKE t, u \in 0..clock'
  <2> HAVE t <= u
  <2>1. CASE u = clock + 1
    BY <1>2, <1>3, <1>4, <1>5, <2>1
  <2>2. CASE u \in 0..clock
    <3>1. t \in 0..clock
      BY <1>2, <2>2
    <3> QED
      BY <1>4, <2>2, <3>1 DEF IInv, History
  <2> QED
    BY <1>5, <2>1, <2>2
<1>7. History'
  BY <1>1, <1>2, <1>3, <1>4, <1>5, <1>6 DEF History
<1>8. ArchiveOK' /\ Asked' /\ clock' >= clock /\ Len(messages') >= Len(messages)
  BY <1>1, <1>2 DEF IInv, ArchiveOK, Asked
<1> QED
  BY <1>1, <1>4, <1>7, <1>8, OthersStay

-----------------------------------------------------------------------------
(* /api/meta.                                                              *)

(* A step of one thread.                                                   *)
LEMMA OneAsks ==
  ASSUME IInv, NEW r \in Readers, NEW q \in Asker, Answer(q), Asked',
         reader' = [reader EXCEPT ![r] = q], UNCHANGED <<archive, streams, page>>,
         Entry'
  PROVE  IInv'
<1>1. UNCHANGED <<messages, tags, edits, clock, editsAt>>
  BY DEF archive
<1>2. Answer(q)'
  BY <1>1 DEF Answer
<1>3. Answers'
  <2>1. reader' \in [Readers -> Asker]
    BY DEF IInv, Answers
  <2>2. ASSUME NEW t \in Readers
        PROVE  Answer(reader[t])'
    <3>1. CASE t = r
      BY <1>2, <3>1 DEF IInv, Answers, Answer
    <3>2. CASE t # r
      <4>1. reader'[t] = reader[t] /\ Answer(reader[t])
        BY <3>2 DEF IInv, Answers
      <4> QED
        BY <1>1, <4>1 DEF Answer
    <3> QED
      BY <3>1, <3>2
  <2> QED
    BY <2>1, <2>2 DEF Answers
<1>4. ArchiveOK' /\ History'
  BY <1>1 DEF IInv, ArchiveOK, History
<1>5. Streams'
  BY DEF IInv, Streams, Holding
<1> QED
  BY <1>3, <1>4, <1>5 DEF IInv

LEMMA AskerFields ==
  ASSUME IInv, NEW r \in Readers
  PROVE  /\ reader[r] \in Asker /\ Answer(reader[r])
         /\ clock \in Nat /\ Len(messages) \in Nat /\ edits \in Nat /\ MetaTTL \in Nat \ {0}
         /\ \A t \in 0..clock : editsAt[t] \in Nat /\ editsAt[t] <= edits
         /\ NoReader \in Asker /\ Answer(NoReader)
<1>1. /\ clock \in 0..MaxClock /\ MaxClock \in Nat /\ editsAt \in [0..MaxClock -> Nat]
      /\ Len(messages) \in Nat /\ edits \in Nat /\ MetaTTL \in Nat \ {0}
  BY FeedAssumption DEF IInv, ArchiveOK, History
<1>2. NoReader \in Asker /\ NoReader.pc = "idle" /\ NoReader.since = 0
  BY DEF NoReader, NoKey, Keys, Asker
<1>3. Answer(NoReader)
  BY <1>1, <1>2 DEF Answer
<1>4. \A t \in 0..clock : editsAt[t] \in Nat /\ editsAt[t] <= edits
  BY <1>1 DEF IInv, History
<1> QED
  BY <1>1, <1>2, <1>3, <1>4 DEF IInv, Answers

LEMMA AskKeeps ==
  ASSUME IInv, NEW r \in Readers, Ask(r)
  PROVE  IInv'
<1> DEFINE q == [NoReader EXCEPT !.pc = "ids", !.key = <<Len(messages), 0, 0>>,
                                 !.asked = Len(messages), !.since = clock]
<1>1. /\ requests < MaxRequests /\ requests' = requests + 1
      /\ reader' = [reader EXCEPT ![r] = q] /\ UNCHANGED <<archive, cache, streams, page>>
  BY DEF Ask
<1>2. q \in Asker /\ q.pc = "ids" /\ q.asked = Len(messages) /\ q.since = clock
      /\ q.key[1] = Len(messages)
  BY AskerFields DEF NoReader, Asker, Keys, NoKey
<1>3. Answer(q)
  <2> HIDE DEF q
  <2> QED
    BY <1>2, AskerFields DEF Answer
<1>4. Asked' /\ Entry /\ Entry'
  BY <1>1, FeedAssumption DEF IInv, Asked, Entry, archive
<1> HIDE DEF q
<1> QED
  BY <1>1, <1>2, <1>3, <1>4, OneAsks

(* What the cache holds for the key of a request is an answer to it.       *)
LEMMA ToldIsGood ==
  ASSUME IInv, NEW r \in Readers, NEW total \in Nat, NEW seen \in Nat, NEW at \in Nat,
         total >= reader[r].asked, seen >= editsAt[at], at <= clock,
         at + MetaTTL >= reader[r].since + 1, Asked', Entry',
         Tell(r, total, seen), UNCHANGED <<archive, streams, page>>
  PROVE  IInv'
<1> DEFINE q == [NoReader EXCEPT !.pc = "told", !.total = total, !.edits = seen,
                                 !.asked = reader[r].asked, !.since = reader[r].since]
<1>1. reader' = [reader EXCEPT ![r] = q]
  BY DEF Tell
<1>2. /\ reader[r].asked \in Nat /\ reader[r].since \in Nat /\ reader[r].since <= clock
      /\ clock \in Nat /\ MetaTTL \in Nat \ {0} /\ clock <= MaxClock /\ MaxClock \in Nat
  BY AskerFields, FeedAssumption, SMTT(30) DEF Asker, Answer, IInv, History
<1>3. /\ q \in Asker /\ q.pc = "told" /\ q.total = total /\ q.edits = seen
      /\ q.asked = reader[r].asked /\ q.since = reader[r].since
  BY <1>2 DEF NoReader, Asker, Keys, NoKey
<1>4. ASSUME reader[r].since + 1 >= MetaTTL
      PROVE  seen >= editsAt[reader[r].since + 1 - MetaTTL]
  <2>1. PICK t \in 0..clock : t = reader[r].since + 1 - MetaTTL
    BY <1>2, <1>4
  <2>2. t <= at /\ at \in 0..clock
    BY <1>2, <2>1
  <2>3. editsAt[t] <= editsAt[at] /\ editsAt[t] \in Nat /\ editsAt[at] \in Nat
    BY <2>2, AskerFields DEF IInv, History
  <2> QED
    BY <2>1, <2>3
<1> HIDE DEF q
<1>5. Answer(q)
  BY <1>2, <1>3, <1>4 DEF Answer
<1> QED
  BY <1>1, <1>3, <1>5, OneAsks DEF IInv

LEMMA LookupKeeps ==
  ASSUME IInv, NEW r \in Readers, Lookup(r)
  PROVE  IInv'
<1> DEFINE key == <<reader[r].key[1], Cardinality(tags), MaxTag>>
           q == [reader[r] EXCEPT !.pc = "messages", !.key = key, !.now = clock]
<1>1. /\ reader[r].pc = "ids" /\ UNCHANGED <<archive, cache, streams, page, requests>>
      /\ \/ cache.key = key /\ clock - cache.at < MetaTTL /\ Tell(r, cache.total, cache.edits)
         \/ reader' = [reader EXCEPT ![r] = q]
  BY DEF Lookup, Does
<1>2. Asked' /\ Entry /\ Entry'
  BY <1>1 DEF IInv, Asked, Entry, archive
<1>3. /\ reader[r] \in Asker /\ reader[r].asked <= reader[r].key[1]
      /\ reader[r].key[1] <= Len(messages) /\ reader[r].since <= clock
      /\ reader[r].asked \in Nat /\ reader[r].since \in Nat /\ reader[r].key[1] \in Nat
      /\ clock \in Nat /\ MetaTTL \in Nat \ {0} /\ Len(messages) \in Nat
  BY <1>1, AskerFields DEF Answer, Asker, Keys
<1>4. key \in Keys /\ key[1] = reader[r].key[1]
  <2>1. MaxTag \in Nat /\ Cardinality(tags) \in Nat
    BY FeedAssumption, MaxTagIsATag DEF IInv, ArchiveOK
  <2> QED
    BY <1>3, <2>1 DEF Keys
<1>5. CASE cache.key = key /\ clock - cache.at < MetaTTL /\ Tell(r, cache.total, cache.edits)
  <2> HIDE DEF key
  <2>1. /\ cache.total \in Nat /\ cache.edits \in Nat /\ cache.at \in Nat
        /\ cache.total >= cache.key[1] /\ cache.edits >= editsAt[cache.at]
        /\ cache.at <= clock
    BY DEF IInv, Entry
  <2>2. cache.total >= reader[r].asked
    <3>1. cache.key[1] = reader[r].key[1]
      BY <1>4, <1>5
    <3> QED
      BY <1>3, <2>1, <3>1
  <2>3. cache.at + MetaTTL >= reader[r].since + 1
    <3>1. PICK at \in Nat, since \in Nat, now \in Nat, ttl \in Nat :
            /\ at = cache.at /\ since = reader[r].since /\ now = clock /\ ttl = MetaTTL
            /\ since <= now /\ now - at < ttl
      BY <1>3, <1>5, <2>1
    <3>2. at + ttl >= since + 1
      BY <3>1
    <3> QED
      BY <3>1, <3>2
  <2> QED
    BY <1>1, <1>2, <1>5, <2>1, <2>2, <2>3, ToldIsGood
<1>6. CASE reader' = [reader EXCEPT ![r] = q]
  <2> HIDE DEF key
  <2>1. /\ q \in Asker /\ q.pc = "messages" /\ q.key = key /\ q.now = clock
        /\ q.asked = reader[r].asked /\ q.since = reader[r].since
    BY <1>3, <1>4 DEF Asker
  <2> HIDE DEF q
  <2>2. Answer(q)
    BY <1>3, <1>4, <2>1 DEF Answer
  <2> QED
    BY <1>1, <1>2, <1>6, <2>1, <2>2, OneAsks
<1> QED
  BY <1>1, <1>5, <1>6

LEMMA ReadKeeps ==
  ASSUME IInv, NEW r \in Readers, ReadMessages(r) \/ ReadTags(r)
  PROVE  IInv'
<1>1. UNCHANGED <<archive, cache, streams, page, requests>>
  BY DEF ReadMessages, ReadTags, Does
<1>2. Asked' /\ Entry /\ Entry'
  BY <1>1 DEF IInv, Asked, Entry, archive
<1>3. reader[r] \in Asker /\ Answer(reader[r]) /\ Len(messages) \in Nat /\ edits \in Nat
  BY AskerFields
<1>4. CASE ReadMessages(r)
  <2> DEFINE q == [reader[r] EXCEPT !.pc = "tags", !.total = Len(messages)]
  <2>1. reader[r].pc = "messages" /\ reader' = [reader EXCEPT ![r] = q]
    BY <1>4 DEF ReadMessages, Does
  <2>2. /\ q \in Asker /\ q.pc = "tags" /\ q.total = Len(messages) /\ q.key = reader[r].key
        /\ q.now = reader[r].now /\ q.asked = reader[r].asked /\ q.since = reader[r].since
    BY <1>3 DEF Asker
  <2> HIDE DEF q
  <2>3. Answer(q)
    BY <1>3, <2>1, <2>2 DEF Answer
  <2> QED
    BY <1>1, <1>2, <2>1, <2>2, <2>3, OneAsks
<1>5. CASE ReadTags(r)
  <2> DEFINE q == [reader[r] EXCEPT !.pc = "put", !.edits = edits]
  <2>1. reader[r].pc = "tags" /\ reader' = [reader EXCEPT ![r] = q]
    BY <1>5 DEF ReadTags, Does
  <2>2. /\ q \in Asker /\ q.pc = "put" /\ q.total = reader[r].total /\ q.key = reader[r].key
        /\ q.now = reader[r].now /\ q.asked = reader[r].asked /\ q.since = reader[r].since
        /\ q.edits = edits
    BY <1>3 DEF Asker
  <2>3. reader[r].now \in 0..clock
    BY <1>3, <2>1 DEF Answer, Asker
  <2>4. editsAt[reader[r].now] <= edits
    BY <2>3, AskerFields
  <2> HIDE DEF q
  <2>5. Answer(q)
    BY <1>3, <2>1, <2>2, <2>4 DEF Answer
  <2> QED
    BY <1>1, <1>2, <2>1, <2>2, <2>5, OneAsks
<1> QED
  BY <1>4, <1>5

LEMMA PutKeeps ==
  ASSUME IInv, NEW r \in Readers, Put(r) \/ Told(r)
  PROVE  IInv'
<1>1. UNCHANGED <<archive, streams, page, requests>>
  BY DEF Put, Told, Does
<1>2. Asked'
  BY <1>1 DEF IInv, Asked
<1>3. CASE Put(r)
  <2>1. /\ reader[r].pc = "put" /\ Tell(r, reader[r].total, reader[r].edits)
        /\ cache' = [key |-> reader[r].key, total |-> reader[r].total,
                     edits |-> reader[r].edits, at |-> reader[r].now]
    BY <1>3 DEF Put, Does
  <2>2. /\ reader[r].key \in Keys /\ reader[r].total \in Nat /\ reader[r].edits \in Nat
        /\ reader[r].now \in Nat /\ reader[r].since \in Nat /\ reader[r].asked \in Nat
        /\ reader[r].key[1] \in Nat /\ MetaTTL \in Nat \ {0}
    BY AskerFields DEF Asker, Keys
  <2>3. /\ reader[r].asked <= reader[r].key[1] /\ reader[r].total >= reader[r].key[1]
        /\ reader[r].since <= reader[r].now /\ reader[r].now <= clock
        /\ reader[r].edits >= editsAt[reader[r].now]
    BY <2>1, AskerFields DEF Answer
  <2>4. Entry'
    BY <1>1, <2>1, <2>2, <2>3 DEF Entry, archive
  <2>5. reader[r].total >= reader[r].asked /\ reader[r].now + MetaTTL >= reader[r].since + 1
    BY <2>2, <2>3
  <2> QED
    BY <1>1, <1>2, <2>1, <2>2, <2>3, <2>4, <2>5, ToldIsGood
<1>4. CASE Told(r)
  <2>1. reader' = [reader EXCEPT ![r] = NoReader] /\ UNCHANGED cache
    BY <1>4 DEF Told
  <2>2. Entry /\ Entry'
    BY <1>1, <2>1 DEF IInv, Entry, archive
  <2> QED
    BY <1>1, <1>2, <2>1, <2>2, AskerFields, OneAsks
<1> QED
  BY <1>3, <1>4

-----------------------------------------------------------------------------
(* Streams.                                                                *)

(* A step of one stream: a slot is taken or given back with the stream.    *)
LEMMA OneStreams ==
  ASSUME IInv, NEW p \in Pages, NEW q \in Listener, InStep(q),
         page' = [page EXCEPT ![p] = q],
         UNCHANGED <<archive, cache, reader>>, Asked',
         \/ page[p].pc = "closed" /\ q.pc # "closed" /\ streams' = streams + 1
            /\ streams < MaxStreams
         \/ page[p].pc # "closed" /\ q.pc = "closed" /\ streams' = streams - 1
         \/ page[p].pc # "closed" /\ q.pc # "closed" /\ streams' = streams
  PROVE  IInv'
<1>1. page \in [Pages -> Listener] /\ page'[p] = q
      /\ \A t \in Pages : t # p => page'[t] = page[t]
  BY DEF IInv, Streams
<1>2. /\ streams \in 0..MaxStreams /\ streams = Cardinality(Holding) /\ MaxStreams \in Nat
      /\ IsFiniteSet(Holding)
  BY FeedAssumption, FS_Subset DEF IInv, Streams, Holding
<1>3. streams' \in 0..MaxStreams /\ streams' = Cardinality(Holding')
  <2>1. CASE page[p].pc = "closed" /\ q.pc # "closed" /\ streams' = streams + 1
             /\ streams < MaxStreams
    <3>1. Holding' = Holding \cup {p} /\ p \notin Holding
      BY <1>1, <2>1 DEF Holding
    <3>2. Cardinality(Holding') = Cardinality(Holding) + 1
      BY <1>2, <3>1, FS_AddElement
    <3> QED
      BY <1>2, <2>1, <3>2
  <2>2. CASE page[p].pc # "closed" /\ q.pc = "closed" /\ streams' = streams - 1
    <3>1. Holding' = Holding \ {p} /\ p \in Holding
      BY <1>1, <2>2 DEF Holding
    <3>2. Cardinality(Holding') = Cardinality(Holding) - 1
      BY <1>2, <3>1, FS_RemoveElement
    <3>3. IsFiniteSet(Holding')
      BY <1>2, <3>1, FS_RemoveElement
    <3>4. Cardinality(Holding') \in Nat
      BY <3>3, FS_CardinalityType
    <3> QED
      BY <1>2, <2>2, <3>2, <3>4
  <2>3. CASE page[p].pc # "closed" /\ q.pc # "closed" /\ streams' = streams
    <3>1. Holding' = Holding
      BY <1>1, <2>3 DEF Holding
    <3> QED
      BY <1>2, <2>3, <3>1
  <2> QED
    BY <2>1, <2>2, <2>3
<1>4. page' \in [Pages -> Listener]
  BY <1>1
<1>5. ASSUME NEW t \in Pages
      PROVE  InStep(page[t])'
  <2>1. CASE t = p
    BY <1>1, <2>1 DEF InStep
  <2>2. CASE t # p
    <3>1. page'[t] = page[t] /\ InStep(page[t])
      BY <1>1, <2>2 DEF IInv, Streams
    <3> QED
      BY <3>1 DEF InStep
  <2> QED
    BY <2>1, <2>2
<1>6. Streams'
  BY <1>3, <1>4, <1>5 DEF Streams
<1>7. ArchiveOK' /\ History' /\ Entry'
  BY DEF IInv, archive, ArchiveOK, History, Entry
<1>8. Answers'
  BY DEF IInv, archive, Answers, Answer
<1> QED
  BY <1>6, <1>7, <1>8 DEF IInv

LEMMA ListenerFields ==
  ASSUME IInv, NEW p \in Pages
  PROVE  /\ page[p] \in Listener /\ InStep(page[p])
         /\ page[p].from \in Nat /\ page[p].last \in Nat /\ page[p].start \in Nat
         /\ page[p].heard \in Seq(Ids) /\ Len(page[p].heard) \in Nat
         /\ Len(messages) \in Nat
BY FeedAssumption DEF IInv, Streams, Listener, ArchiveOK

(* A stream that is not open has nothing to be in step with.               *)
LEMMA NotOpen ==
  ASSUME NEW q, q.pc # "open"
  PROVE  InStep(q)
BY DEF InStep

LEMMA ConnectKeeps ==
  ASSUME IInv, NEW p \in Pages, Connect(p)
  PROVE  IInv'
<1> DEFINE q == [page[p] EXCEPT !.pc = "counted"]
<1>1. /\ page[p].pc = "closed" /\ requests < MaxRequests /\ requests' = requests + 1
      /\ streams < MaxStreams /\ streams' = streams + 1
      /\ page' = [page EXCEPT ![p] = q] /\ UNCHANGED <<archive, cache, reader>>
  BY DEF Connect, Asks
<1>2. q \in Listener /\ q.pc = "counted"
  BY ListenerFields DEF Listener
<1>3. Asked'
  BY <1>1, FeedAssumption DEF IInv, Asked
<1> HIDE DEF q
<1> QED
  BY <1>1, <1>2, <1>3, NotOpen, OneStreams

LEMMA BeginsKeeps ==
  ASSUME IInv, NEW p \in Pages, Begins(p)
  PROVE  IInv'
<1>1. PICK from \in {Len(messages)} \cup (IF page[p].heard = <<>> THEN {}
                                          ELSE {Last(page[p].heard)}) :
        page' = [page EXCEPT ![p].pc = "open", ![p].from = from, ![p].last = from,
                             ![p].start = Len(page[p].heard)]
  BY DEF Begins
<1>2. /\ page[p].pc = "counted" /\ UNCHANGED <<archive, cache, reader, requests>>
      /\ UNCHANGED streams
  BY DEF Begins, Serves
<1>3. from \in Nat
  <2>1. page[p].heard # <<>> => Last(page[p].heard) \in Ids
    BY ListenerFields DEF Last
  <2> QED
    BY <1>1, <2>1, ListenerFields DEF Ids
<1> DEFINE q == [page[p] EXCEPT !.pc = "open", !.from = from, !.last = from,
                                !.start = Len(page[p].heard)]
<1>4. page' = [page EXCEPT ![p] = q]
  BY <1>1, ListenerFields DEF IInv, Streams
<1>5. /\ q \in Listener /\ q.pc = "open" /\ q.from = from /\ q.last = from
      /\ q.heard = page[p].heard /\ q.start = Len(page[p].heard)
  BY <1>3, ListenerFields DEF Listener
<1> HIDE DEF q
<1>6. InStep(q)
  BY <1>3, <1>5, ListenerFields DEF InStep, Counts
<1>7. Asked'
  BY <1>2 DEF IInv, Asked
<1> QED
  BY <1>2, <1>4, <1>5, <1>6, <1>7, OneStreams

(* What follows goes on where what was sent ended.                         *)
LEMMA GoesOn ==
  ASSUME NEW f \in Nat, NEW d \in Nat, NEW s \in Nat, NEW n \in Nat,
         NEW old \in Seq(Ids), NEW rows \in Seq(Ids), Len(rows) = n,
         Counts(old, s, d, f), \A j \in 1..n : rows[j] = f + d + j
  PROVE  Counts(old \o rows, s, d + n, f)
<1>1. Len(old) = s + d /\ \A i \in 1..d : old[s + i] = f + i
  BY DEF Counts
<1>2. Len(old \o rows) = s + (d + n)
  <2>1. Len(old \o rows) = Len(old) + Len(rows)
    BY ConcatProperties, Zenon
  <2> QED
    BY <1>1, <2>1
<1>3. \A i \in 1..d : (old \o rows)[s + i] = f + i
  <2> TAKE i \in 1..d
  <2>1. s + i \in 1..Len(old)
    BY <1>1
  <2>2. (old \o rows)[s + i] = old[s + i]
    BY <2>1
  <2> QED
    BY <1>1, <2>2
<1>4. ASSUME NEW i \in (d + 1)..(d + n)
      PROVE  (old \o rows)[s + i] = f + i
  <2>1. PICK j \in 1..n : i = d + j
    <3>1. i - d \in 1..n /\ i = d + (i - d)
      OBVIOUS
    <3> QED
      BY <3>1
  <2>2. s + i = Len(old) + j
    BY <1>1, <2>1
  <2>3. (old \o rows)[Len(old) + j] = rows[j]
    OBVIOUS
  <2>4. rows[j] = f + i
    BY <2>1
  <2> QED
    BY <2>2, <2>3, <2>4
<1>5. \A i \in 1..(d + n) : i \in 1..d \/ i \in (d + 1)..(d + n)
  OBVIOUS
<1> QED
  BY <1>2, <1>3, <1>4, <1>5 DEF Counts

LEMMA PollKeeps ==
  ASSUME IInv, NEW p \in Pages, Poll(p)
  PROVE  IInv'
<1>1. /\ page[p].pc = "open" /\ UNCHANGED <<archive, cache, reader, requests>>
      /\ Rows(p) # <<>> /\ UNCHANGED streams
      /\ page' = [page EXCEPT ![p].last = Last(Rows(p)), ![p].heard = @ \o Rows(p)]
  BY DEF Poll, Serves
<1>2. PICK rows \in Seq(Ids) :
        /\ rows = Rows(p)
        /\ \A i \in 1..Len(rows) : rows[i] = page[p].last + i
  BY RowsAreNext DEF IInv
<1>3. PICK n \in Nat \ {0} : n = Len(rows)
  BY <1>1, <1>2
<1>4. PICK old \in Seq(Ids) : old = page[p].heard
  BY ListenerFields
<1>5. Last(rows) = page[p].last + n
  BY <1>2, <1>3 DEF Last
<1>6. /\ page[p] \in Listener /\ old \o rows \in Seq(Ids) /\ page[p].last + n \in Nat
  BY <1>4, ListenerFields
<1> DEFINE q == [page[p] EXCEPT !.last = page[p].last + n, !.heard = old \o rows]
<1>7. page' = [page EXCEPT ![p] = q]
  BY <1>1, <1>2, <1>4, <1>5 DEF IInv, Streams
<1>8. /\ q \in Listener /\ q.pc = "open" /\ q.from = page[p].from
      /\ q.last = page[p].last + n /\ q.start = page[p].start /\ q.heard = old \o rows
  BY <1>1, <1>6 DEF Listener
<1> HIDE DEF q
<1>9. InStep(q)
  <2>1. /\ page[p].from <= page[p].last
        /\ Counts(old, page[p].start, page[p].last - page[p].from, page[p].from)
    BY <1>1, <1>4, ListenerFields DEF InStep
  <2>2. PICK f \in Nat, d \in Nat, s \in Nat :
          /\ f = page[p].from /\ s = page[p].start /\ d = page[p].last - page[p].from
          /\ page[p].last = f + d
    BY <2>1, ListenerFields
  <2>3. Counts(old, s, d, f)
    BY <2>1, <2>2
  <2>4. \A j \in 1..n : rows[j] = f + d + j
    BY <1>2, <1>3, <2>2
  <2>5. Counts(old \o rows, s, d + n, f)
    BY <1>3, <2>3, <2>4, GoesOn
  <2>6. q.last - q.from = d + n /\ q.from <= q.last
    <3>1. q.from = f /\ q.last = f + d + n /\ n \in Nat
      BY <1>3, <1>8, <2>2
    <3> QED
      BY <3>1
  <2> QED
    BY <1>8, <2>2, <2>5, <2>6 DEF InStep
<1>10. Asked'
  BY <1>1 DEF IInv, Asked
<1> QED
  BY <1>1, <1>7, <1>8, <1>9, <1>10, OneStreams

LEMMA EndingKeeps ==
  ASSUME IInv, NEW p \in Pages, PollFails(p) \/ LoopEnds(p)
  PROVE  IInv'
<1>1. /\ page[p].pc \in {"counted", "open"} /\ UNCHANGED <<archive, cache, reader, requests>>
      /\ UNCHANGED streams
  BY DEF PollFails, LoopEnds, Serves
<1>2. Asked'
  BY <1>1 DEF IInv, Asked
<1>3. CASE PollFails(p)
  <2>1. PICK arrived \in {<<>>, Rows(p)} :
          page' = [page EXCEPT ![p].pc = "ends", ![p].heard = @ \o arrived]
    BY <1>3 DEF PollFails
  <2> DEFINE q == [page[p] EXCEPT !.pc = "ends", !.heard = page[p].heard \o arrived]
  <2>2. arrived \in Seq(Ids) /\ page[p].heard \o arrived \in Seq(Ids)
    <3>1. <<>> \in Seq(Ids) /\ Rows(p) \in Seq(Ids)
      BY RowsAreNext DEF IInv
    <3>2. arrived \in Seq(Ids) /\ page[p].heard \in Seq(Ids)
      BY <3>1, ListenerFields
    <3> QED
      BY <3>2
  <2>3. q \in Listener /\ q.pc = "ends" /\ page' = [page EXCEPT ![p] = q]
    BY <2>1, <2>2, ListenerFields DEF Listener, IInv, Streams
  <2> HIDE DEF q
  <2> QED
    BY <1>1, <1>2, <2>3, NotOpen, OneStreams
<1>4. CASE LoopEnds(p)
  <2> DEFINE q == [page[p] EXCEPT !.pc = "ends", !.start = Len(page[p].heard)]
  <2>1. page' = [page EXCEPT ![p] = q]
    BY <1>4 DEF LoopEnds, IInv, Streams
  <2>2. q \in Listener /\ q.pc = "ends"
    BY ListenerFields DEF Listener
  <2> HIDE DEF q
  <2> QED
    BY <1>1, <1>2, <2>1, <2>2, NotOpen, OneStreams
<1> QED
  BY <1>3, <1>4

LEMMA EndsKeeps ==
  ASSUME IInv, NEW p \in Pages, Ends(p)
  PROVE  IInv'
<1> DEFINE q == [NoPage EXCEPT !.heard = page[p].heard]
<1>1. /\ page[p].pc = "ends" /\ UNCHANGED <<archive, cache, reader, requests>>
      /\ streams' = streams - 1 /\ page' = [page EXCEPT ![p] = q]
  BY DEF Ends, Serves
<1>2. q \in Listener /\ q.pc = "closed"
  BY ListenerFields DEF NoPage, Listener
<1>3. Asked'
  BY <1>1 DEF IInv, Asked
<1> HIDE DEF q
<1> QED
  BY <1>1, <1>2, <1>3, NotOpen, OneStreams

-----------------------------------------------------------------------------
(* The theorems.                                                           *)

(* The end of a sequence that counts up.                                   *)
LEMMA Window ==
  ASSUME NEW f \in Nat, NEW d \in Nat, NEW s \in Nat, NEW h \in Seq(Ids),
         Counts(h, s, d, f)
  PROVE  SubSeq(h, s + 1, s + d) = [i \in 1..d |-> f + i]
<1> USE DEF Counts
<1>1. PICK m \in Int, n \in Int : m = s + 1 /\ n = s + d
  OBVIOUS
<1>2. \A i \in m..n : h[i] \in Ids
  BY <1>1
<1>3. /\ SubSeq(h, m, n) \in Seq(Ids)
      /\ Len(SubSeq(h, m, n)) = IF m <= n THEN n - m + 1 ELSE 0
      /\ \A i \in 1..(n - m + 1) : SubSeq(h, m, n)[i] = h[m + i - 1]
  BY <1>2, SubSeqProperties
<1>4. Len(SubSeq(h, m, n)) = d
  BY <1>1, <1>3
<1>5. \A i \in 1..d : SubSeq(h, m, n)[i] = f + i
  <2> TAKE i \in 1..d
  <2>1. m + i - 1 = s + i /\ i \in 1..(n - m + 1)
    BY <1>1
  <2> QED
    BY <1>3, <2>1
<1>6. SubSeq(h, m, n) = [i \in 1..d |-> SubSeq(h, m, n)[i]]
  BY <1>3, <1>4
<1> QED
  BY <1>1, <1>5, <1>6

LEMMA Starts ==
  ASSUME Init
  PROVE  IInv
<1>1. ArchiveOK /\ Asked /\ clock = 0
  BY FeedAssumption DEF Init, ArchiveOK, Asked
<1>2. History
  BY FeedAssumption DEF Init, History
<1>3. Entry
  BY FeedAssumption DEF Init, Entry, NoKey, Keys
<1>4. Answers
  <2>1. NoReader \in Asker /\ NoReader.pc = "idle" /\ NoReader.since = 0
    BY DEF NoReader, NoKey, Keys, Asker
  <2>2. Answer(NoReader)
    BY <1>1, <2>1 DEF Answer
  <2> QED
    BY <2>1, <2>2 DEF Init, Answers
<1>5. Streams
  <2>1. NoPage \in Listener /\ NoPage.pc = "closed"
    BY DEF NoPage, Listener
  <2>2. Holding = {} /\ \A p \in Pages : InStep(page[p])
    BY <2>1 DEF Init, Holding, InStep
  <2> QED
    BY <2>1, <2>2, FeedAssumption, FS_EmptySet DEF Init, Streams
<1> QED
  BY <1>1, <1>2, <1>3, <1>4, <1>5 DEF IInv

LEMMA Keeps ==
  ASSUME IInv, [Next]_vars
  PROVE  IInv'
<1>1. CASE UNCHANGED vars
  BY <1>1 DEF vars, archive, IInv, ArchiveOK, History, Entry, Answers, Answer, Streams,
              InStep, Counts, Holding, Asked
<1>2. CASE Next
  <2>1. ASSUME NEW r \in Readers, Meta(r)
        PROVE  IInv'
    BY <2>1, AskKeeps, LookupKeeps, ReadKeeps, PutKeeps DEF Meta
  <2>2. ASSUME NEW p \in Pages, Stream(p)
        PROVE  IInv'
    BY <2>2, ConnectKeeps, BeginsKeeps, PollKeeps, EndingKeeps, EndsKeeps DEF Stream
  <2> QED
    BY <1>2, <2>1, <2>2, StoreKeeps, EditKeeps, TickKeeps DEF Next
<1> QED
  BY <1>1, <1>2

THEOREM FeedInvariant == Spec => []IInv
<1>1. Init => IInv
  BY Starts
<1>2. IInv /\ [Next]_vars => IInv'
  BY Keeps
<1> QED
  BY <1>1, <1>2, PTL DEF Spec

(* Every variable keeps its type.  A slot counter that is decremented once *)
(* too often, or a tag's id beyond the number of edits, would leave it.    *)
THEOREM TypeCorrect == Spec => []TypeOK
<1>1. IInv => TypeOK
  <2> SUFFICES ASSUME IInv PROVE TypeOK
    OBVIOUS
  <2>1. MaxEdits \in Nat /\ edits \in 0..MaxEdits /\ tags \subseteq 1..MaxEdits
    BY FeedAssumption DEF IInv, ArchiveOK
  <2>2. clock \in Nat /\ editsAt \in [0..MaxClock -> Nat]
    BY FeedAssumption DEF IInv, History
  <2> QED
    BY <2>1, <2>2 DEF IInv, ArchiveOK, Entry, Answers, Asker, Streams, Listener, Asked, TypeOK
<1> QED
  BY <1>1, FeedInvariant, PTL

(* An answer of /api/meta counts every message there was when it was asked *)
(* for, with any number of threads filling the cache and any imports.      *)
THEOREM AnswersCover == Spec => []MetaCoversItsAsking
<1>1. IInv => MetaCoversItsAsking
  BY DEF IInv, Answers, Answer, MetaCoversItsAsking
<1> QED
  BY <1>1, FeedInvariant, PTL

(* What the key of the cache does not show is told after META_TTL seconds. *)
THEOREM AnswersAreRecent == Spec => []MetaAtMostTTLOld
<1>1. IInv => MetaAtMostTTLOld
  BY DEF IInv, Answers, Answer, MetaAtMostTTLOld
<1> QED
  BY <1>1, FeedInvariant, PTL

(* A stream skips nothing and repeats nothing, at any size of batch.       *)
THEOREM StreamIsWhole == Spec => []StreamMissesNothing
<1>1. IInv => StreamMissesNothing
  <2> SUFFICES ASSUME IInv, NEW p \in Pages, page[p].pc = "open"
               PROVE  Received(p) = [i \in 1..(page[p].last - page[p].from) |->
                                       page[p].from + i]
    BY DEF StreamMissesNothing
  <2>1. /\ page[p].from <= page[p].last
        /\ Counts(page[p].heard, page[p].start, page[p].last - page[p].from, page[p].from)
    BY ListenerFields DEF InStep
  <2>2. PICK f \in Nat, d \in Nat, s \in Nat :
          /\ f = page[p].from /\ s = page[p].start /\ d = page[p].last - page[p].from
    BY <2>1, ListenerFields
  <2>3. PICK h \in Seq(Ids) : h = page[p].heard
    BY ListenerFields
  <2>4. Counts(h, s, d, f)
    BY <2>1, <2>2, <2>3
  <2>5. SubSeq(h, s + 1, s + d) = [i \in 1..d |-> f + i]
    BY <2>4, Window
  <2>6. Received(p) = SubSeq(h, s + 1, s + d)
    BY <2>3, <2>2, <2>4 DEF Received, Counts
  <2> QED
    BY <2>2, <2>5, <2>6
<1> QED
  BY <1>1, FeedInvariant, PTL

(* Each open stream holds one slot of _streams, and nobody else does.      *)
THEOREM NoSlotLeaks == Spec => []SlotsMatchStreams
<1>1. IInv => SlotsMatchStreams
  BY DEF IInv, Streams, Holding, SlotsMatchStreams
<1> QED
  BY <1>1, FeedInvariant, PTL

-----------------------------------------------------------------------------
(* Sorting: ORDER BY ts, id puts the messages in one order, in which a     *)
(* message's place is the number of those ahead of it.                     *)

LEMMA AheadOrders ==
  ASSUME ArchiveOK, NEW order
  PROVE  /\ \A i \in DOMAIN messages : ~Ahead(i, i, order)
         /\ \A i, j \in DOMAIN messages : i # j => Ahead(i, j, order) \/ Ahead(j, i, order)
         /\ \A i, j, k \in DOMAIN messages :
              Ahead(i, j, order) /\ Ahead(j, k, order) => Ahead(i, k, order)
<1>1. \A i \in DOMAIN messages : i \in Nat /\ messages[i].ts \in Nat
  <2>1. \A m \in [ts: Times, chan: Chans] : m.ts \in Nat
    BY FeedAssumption
  <2>2. \A i \in DOMAIN messages : i \in Nat /\ messages[i] \in [ts: Times, chan: Chans]
    <3>1. messages \in Seq([ts: Times, chan: Chans])
      BY DEF ArchiveOK
    <3>2. DOMAIN messages = 1..Len(messages) /\ Len(messages) \in Nat
      BY <3>1, LenProperties
    <3>3. \A i \in 1..Len(messages) : messages[i] \in [ts: Times, chan: Chans]
      BY <3>1, ElementOfSeq
    <3> HIDE DEF ArchiveOK
    <3> QED
      BY <3>2, <3>3
  <2> QED
    BY <2>1, <2>2
<1> DEFINE ts(i) == messages[i].ts
<1>2. \A i \in DOMAIN messages : i \in Nat /\ ts(i) \in Nat
  BY <1>1
<1>3. \A i, j : Before(i, j) <=> ts(i) < ts(j) \/ (ts(i) = ts(j) /\ i < j)
  BY DEF Before
<1> HIDE DEF ts
<1> QED
  BY <1>2, <1>3 DEF Ahead

(* Those of S that come before m.                                          *)
AheadOf(S, m, order) == {i \in S : Ahead(i, m, order)}

Sorts(s, S, order) ==
  /\ s \in [1..Cardinality(S) -> S]
  /\ \A i, j \in 1..Cardinality(S) : i < j => Ahead(s[i], s[j], order)

LEMMA SomeMessages ==
  ASSUME ArchiveOK, NEW S \in SUBSET DOMAIN messages
  PROVE  IsFiniteSet(S) /\ Cardinality(S) \in Nat
<1>1. DOMAIN messages = 1..Len(messages) /\ Len(messages) \in Nat
  BY DEF ArchiveOK
<1>2. IsFiniteSet(DOMAIN messages)
  BY <1>1, FS_Interval
<1> QED
  BY <1>2, FS_Subset, FS_CardinalityType

(* Further down the list, there are more ahead.                            *)
LEMMA MoreAhead ==
  ASSUME ArchiveOK, NEW S \in SUBSET DOMAIN messages, NEW order,
         NEW i \in S, NEW j \in S, Ahead(i, j, order)
  PROVE  Cardinality(AheadOf(S, i, order)) < Cardinality(AheadOf(S, j, order))
<1> DEFINE A == AheadOf(S, i, order)
           B == AheadOf(S, j, order)
<1>1. A \subseteq B /\ i \in B /\ i \notin A
  BY AheadOrders DEF AheadOf
<1>2. IsFiniteSet(B) /\ Cardinality(B) \in Nat /\ A \in SUBSET DOMAIN messages
  BY SomeMessages DEF AheadOf
<1>3. Cardinality(A) \in Nat
  BY <1>2, SomeMessages
<1>4. Cardinality(A) <= Cardinality(B) /\ (Cardinality(B) = Cardinality(A) => B = A)
  BY <1>1, <1>2, FS_Subset
<1> QED
  BY <1>1, <1>2, <1>3, <1>4

(* A message's rank, one above the number of those ahead, is its place.    *)
LEMMA RanksCount ==
  ASSUME ArchiveOK, NEW S \in SUBSET DOMAIN messages, NEW order
  PROVE  [m \in S |-> Cardinality(AheadOf(S, m, order)) + 1]
           \in Bijection(S, 1..Cardinality(S))
<1> DEFINE n == Cardinality(S)
           rank == [m \in S |-> Cardinality(AheadOf(S, m, order)) + 1]
<1>1. n \in Nat /\ IsFiniteSet(S)
  BY SomeMessages
<1>2. ASSUME NEW m \in S
      PROVE  Cardinality(AheadOf(S, m, order)) \in 0..(n - 1)
  <2>1. AheadOf(S, m, order) \subseteq S \ {m} /\ AheadOf(S, m, order) \in SUBSET DOMAIN messages
    BY AheadOrders DEF AheadOf
  <2>2. IsFiniteSet(S \ {m}) /\ Cardinality(S \ {m}) = n - 1
    BY <1>1, FS_RemoveElement
  <2>3. Cardinality(AheadOf(S, m, order)) <= n - 1 /\ Cardinality(AheadOf(S, m, order)) \in Nat
    BY <2>1, <2>2, FS_Subset, SomeMessages
  <2> QED
    BY <1>1, <2>3
<1>3. rank \in [S -> 1..n]
  BY <1>1, <1>2
<1>4. ASSUME NEW i \in S, NEW j \in S, i # j
      PROVE  rank[i] # rank[j]
  <2>1. Ahead(i, j, order) \/ Ahead(j, i, order)
    BY <1>4, AheadOrders
  <2>2. \/ Cardinality(AheadOf(S, i, order)) < Cardinality(AheadOf(S, j, order))
        \/ Cardinality(AheadOf(S, j, order)) < Cardinality(AheadOf(S, i, order))
    BY <2>1, MoreAhead
  <2> QED
    BY <1>2, <2>2
<1>5. rank \in Injection(S, 1..n)
  BY <1>3, <1>4 DEF Injection, IsInjective
<1>6. IsFiniteSet(1..n) /\ Cardinality(1..n) = n
  BY <1>1, FS_Interval
<1>7. rank \in Surjection(S, 1..n)
  BY <1>5, <1>6, FS_Injection
<1> QED
  BY <1>5, <1>7 DEF Bijection

(* So there is a sorted sequence, and Sorted() chooses one.                *)
LEMMA SortedSorts ==
  ASSUME ArchiveOK, NEW S \in SUBSET DOMAIN messages, NEW order
  PROVE  Sorts(Sorted(S, order), S, order)
<1> DEFINE n == Cardinality(S)
           count(m) == Cardinality(AheadOf(S, m, order))
           rank == [m \in S |-> count(m) + 1]
           s == [k \in 1..n |-> CHOOSE m \in S : rank[m] = k]
<1>1. rank \in Surjection(S, 1..n) /\ n \in Nat
  BY RanksCount, SomeMessages DEF Bijection
<1>2. \A k \in 1..n : s[k] \in S /\ rank[s[k]] = k
  BY <1>1 DEF Surjection
<1>3. s \in [1..n -> S]
  BY <1>2
<1>4. \A m \in S : count(m) \in Nat /\ rank[m] = count(m) + 1
  BY SomeMessages DEF AheadOf
<1>5. ASSUME NEW i \in 1..n, NEW j \in 1..n, i < j
      PROVE  Ahead(s[i], s[j], order)
  <2>1. s[i] \in S /\ s[j] \in S /\ count(s[i]) = i - 1 /\ count(s[j]) = j - 1
    <3>1. \A k \in 1..n : s[k] \in S /\ count(s[k]) = k - 1
      <4> SUFFICES ASSUME NEW k \in 1..n
                   PROVE  s[k] \in S /\ count(s[k]) = k - 1
        OBVIOUS
      <4>1. s[k] \in S /\ rank[s[k]] = k
        BY <1>2
      <4>2. count(s[k]) \in Nat /\ rank[s[k]] = count(s[k]) + 1
        BY <1>4, <4>1
      <4> HIDE DEF n, rank, count, s
      <4> QED
        BY <1>1, <4>1, <4>2
    <3> HIDE DEF n, rank, count, s
    <3> QED
      BY <3>1
  <2>2. ~(count(s[j]) < count(s[i])) /\ s[i] # s[j]
    BY <1>1, <1>5, <2>1
  <2>3. Ahead(s[i], s[j], order) \/ Ahead(s[j], s[i], order)
    BY <2>1, <2>2, AheadOrders
  <2> QED
    BY <2>1, <2>2, <2>3, MoreAhead DEF count
<1>6. \E t \in [1..n -> S] : \A i, j \in 1..n : i < j => Ahead(t[i], t[j], order)
  BY <1>3, <1>5
<1> QED
  BY <1>6 DEF Sorts, Sorted

(* Where a message is in a sorted sequence.                                *)
LEMMA Places ==
  ASSUME ArchiveOK, NEW S \in SUBSET DOMAIN messages, NEW order,
         NEW s, Sorts(s, S, order)
  PROVE  /\ \A p \in 1..Cardinality(S) : Cardinality(AheadOf(S, s[p], order)) = p - 1
         /\ \A m \in S : \E p \in 1..Cardinality(S) : s[p] = m
<1> DEFINE n == Cardinality(S)
<1>1. n \in Nat /\ IsFiniteSet(S) /\ IsFiniteSet(1..n) /\ Cardinality(1..n) = n
  BY SomeMessages, FS_Interval
<1>2. s \in [1..n -> S] /\ \A i, j \in 1..n : i < j => Ahead(s[i], s[j], order)
  BY DEF Sorts
<1> HIDE DEF n
<1>3. \A i, j \in 1..n : i # j => s[i] # s[j]
  <2> SUFFICES ASSUME NEW i \in 1..n, NEW j \in 1..n, i # j
               PROVE  s[i] # s[j]
    OBVIOUS
  <2>1. i < j \/ j < i
    BY <1>1
  <2> QED
    BY <1>2, <2>1, AheadOrders
<1>4. \A m \in S : \E p \in 1..n : s[p] = m
  <2>1. s \in Injection(1..n, S)
    BY <1>2, <1>3 DEF Injection, IsInjective
  <2>2. s \in Surjection(1..n, S)
    BY <1>1, <2>1, FS_Injection DEF n
  <2> QED
    BY <2>2 DEF Surjection
<1>5. ASSUME NEW p \in 1..n
      PROVE  Cardinality(AheadOf(S, s[p], order)) = p - 1
  <2> DEFINE f == [q \in 1..(p - 1) |-> s[q]]
             F == AheadOf(S, s[p], order)
  <2>1. p \in Nat /\ p - 1 \in Nat /\ \A q \in 1..(p - 1) : q \in 1..n /\ q < p
    BY <1>1
  <2>2. f \in [1..(p - 1) -> F]
    BY <1>2, <2>1 DEF AheadOf
  <2>3. \A m \in F : \E q \in 1..(p - 1) : f[q] = m
    <3> SUFFICES ASSUME NEW m \in F
                 PROVE  \E q \in 1..(p - 1) : f[q] = m
      OBVIOUS
    <3>1. m \in S /\ Ahead(m, s[p], order)
      BY DEF AheadOf
    <3>2. PICK q \in 1..n : s[q] = m
      BY <1>4, <3>1
    <3>3. ~(p < q) /\ q # p
      BY <1>2, <3>1, <3>2, AheadOrders
    <3>4. q \in 1..(p - 1)
      BY <1>1, <2>1, <3>3
    <3> QED
      BY <3>2, <3>4
  <2>4. f \in Bijection(1..(p - 1), F)
    BY <1>3, <2>1, <2>2, <2>3 DEF Bijection, Injection, IsInjective, Surjection
  <2>5. IsFiniteSet(1..(p - 1)) /\ Cardinality(1..(p - 1)) = p - 1
    BY <2>1, FS_Interval
  <2> QED
    BY <2>4, <2>5, FS_Bijection DEF ExistsBijection
<1> QED
  BY <1>4, <1>5 DEF n

(* There is one sorted sequence.                                           *)
LEMMA SortedOnce ==
  ASSUME ArchiveOK, NEW S \in SUBSET DOMAIN messages, NEW order,
         NEW s, Sorts(s, S, order)
  PROVE  Sorted(S, order) = s
<1> DEFINE n == Cardinality(S)
           t == Sorted(S, order)
<1>1. Sorts(t, S, order) /\ n \in Nat
  BY SortedSorts, SomeMessages
<1>2. s \in [1..n -> S] /\ t \in [1..n -> S]
  BY <1>1 DEF Sorts
<1> HIDE DEF n, t
<1>3. ASSUME NEW p \in 1..n
      PROVE  s[p] = t[p]
  <2>1. PICK q \in 1..n : t[q] = s[p]
    <3>1. \A m \in S : \E q \in 1..Cardinality(S) : t[q] = m
      BY <1>1, Places
    <3> QED
      BY <1>2, <3>1 DEF n
  <2>2. Cardinality(AheadOf(S, s[p], order)) = p - 1 /\ Cardinality(AheadOf(S, t[q], order)) = q - 1
    BY <1>1, Places DEF n
  <2>3. p = q
    BY <1>1, <2>1, <2>2
  <2> QED
    BY <2>1, <2>3
<1>4. s = t
  <2>1. DOMAIN s = 1..n /\ DOMAIN t = 1..n
    BY <1>2
  <2>2. s = [p \in 1..n |-> s[p]] /\ t = [p \in 1..n |-> t[p]]
    BY <1>2
  <2> QED
    BY <1>3, <2>2, Zenon
<1> QED
  BY <1>4 DEF t

(* The beginning of a list, and of what is left of it after an offset.     *)
Least(a, b) == IF a < b THEN a ELSE b

LEMMA LimitTakes ==
  ASSUME NEW T, NEW s \in Seq(T), NEW k \in Nat
  PROVE  /\ Limit(s, k) \in Seq(T) /\ Len(Limit(s, k)) = Least(k, Len(s))
         /\ \A i \in 1..Least(k, Len(s)) : Limit(s, k)[i] = s[i]
<1> DEFINE l == Least(k, Len(s))
<1>1. Limit(s, k) = SubSeq(s, 1, l) /\ l \in Nat /\ l <= Len(s) /\ Len(s) \in Nat
  BY LenProperties DEF Limit, Least
<1>2. \A i \in 1..l : s[i] \in T
  BY <1>1, ElementOfSeq
<1> HIDE DEF l
<1>3. SubSeq(s, 1, l) \in Seq(T) /\ Len(SubSeq(s, 1, l)) = IF 1 <= l THEN l - 1 + 1 ELSE 0
  BY <1>1, <1>2, SubSeqProperties
<1>4. \A i \in 1..(l - 1 + 1) : SubSeq(s, 1, l)[i] = s[1 + i - 1]
  BY <1>1, <1>2, SubSeqProperties
<1>5. \A i \in 1..l : i \in 1..(l - 1 + 1) /\ 1 + i - 1 = i
  BY <1>1
<1>6. Len(SubSeq(s, 1, l)) = l
  BY <1>1, <1>3
<1> QED
  BY <1>1, <1>3, <1>4, <1>5, <1>6 DEF l

PageOf(s, o, k) == Limit(SubSeq(s, o + 1, Len(s)), k)

LEMMA PageTakes ==
  ASSUME NEW T, NEW s \in Seq(T), NEW o \in 0..Len(s), NEW k \in Nat
  PROVE  /\ PageOf(s, o, k) \in Seq(T) /\ Len(PageOf(s, o, k)) = Least(k, Len(s) - o)
         /\ \A i \in 1..Least(k, Len(s) - o) : PageOf(s, o, k)[i] = s[o + i]
<1> DEFINE n == Len(s)
<1>0. n \in Nat /\ \A i \in 1..n : s[i] \in T
  BY LenProperties, ElementOfSeq
<1> DEFINE r == SubSeq(s, o + 1, n)
<1> HIDE DEF n
<1>1. Len(s) = n /\ o \in 0..n
  BY DEF n
<1>2. \A i \in (o + 1)..n : s[i] \in T
  BY <1>0, <1>1
<1>3. r \in Seq(T) /\ Len(r) = IF o + 1 <= n THEN n - (o + 1) + 1 ELSE 0
  BY <1>0, <1>1, <1>2, SubSeqProperties
<1>4. \A i \in 1..(n - (o + 1) + 1) : r[i] = s[(o + 1) + i - 1]
  BY <1>0, <1>1, <1>2, SubSeqProperties
<1> HIDE DEF r
<1>5. Len(r) = n - o
  BY <1>0, <1>1, <1>3
<1>6. \A i \in 1..(n - o) : r[i] = s[o + i]
  <2> TAKE i \in 1..(n - o)
  <2>1. i \in 1..(n - (o + 1) + 1) /\ (o + 1) + i - 1 = o + i
    BY <1>0, <1>1
  <2> QED
    BY <1>4, <2>1
<1>7. Least(k, n - o) \in Nat /\ Least(k, n - o) <= n - o
  BY <1>0, <1>1 DEF Least
<1>8. /\ Limit(r, k) \in Seq(T) /\ Len(Limit(r, k)) = Least(k, n - o)
      /\ \A i \in 1..Least(k, n - o) : Limit(r, k)[i] = r[i]
  BY <1>3, <1>5, LimitTakes
<1>9. \A i \in 1..Least(k, n - o) : i \in 1..(n - o)
  BY <1>0, <1>1, <1>7
<1>10. PageOf(s, o, k) = Limit(r, k)
  BY <1>1 DEF r, PageOf
<1> QED
  BY <1>1, <1>6, <1>8, <1>9, <1>10

(* locate(): the page that begins where it says begins with the message.   *)
LEMMA LocatedFirst ==
  ASSUME ArchiveOK, NEW m \in DOMAIN messages, NEW F, NEW order
  PROVE  LET at == Locate(m, F, order, FALSE) IN
         IF at = -1 THEN m \notin Matching(F) ELSE Search(F, order, 1, at) = <<m>>
<1> DEFINE S == Matching(F)
           s == Sorted(S, order)
           n == Cardinality(S)
           at == Locate(m, F, order, FALSE)
<1>1. S \in SUBSET DOMAIN messages
  BY DEF Matching
<1>2. at = IF m \in S THEN Cardinality(AheadOf(S, m, order)) ELSE -1
  BY DEF Locate, AheadOf
<1>3. CASE m \notin S
  BY <1>2, <1>3
<1>4. CASE m \in S
  <2>1. Sorts(s, S, order) /\ n \in Nat
    BY <1>1, SortedSorts, SomeMessages
  <2>2. s \in [1..n -> S]
    BY <2>1 DEF Sorts
  <2>3. PICK p \in 1..n : s[p] = m
    BY <1>1, <1>4, <2>1, Places
  <2>4. at = p - 1
    <3>1. at = Cardinality(AheadOf(S, m, order))
      BY <1>2, <1>4
    <3> HIDE DEF s, S, at
    <3>2. Cardinality(AheadOf(S, s[p], order)) = p - 1
      BY <1>1, <2>1, <2>3, Places
    <3> QED
      BY <2>3, <3>1, <3>2
  <2> DEFINE q == Limit(SubSeq(s, at + 1, Len(s)), 1)
  <2>5. Search(F, order, 1, at) = q
    BY DEF Search
  <2> HIDE DEF n, s, S, at
  <2>6. at \in 0..n /\ at # -1 /\ at + 1 = p /\ Least(1, n - at) = 1
    BY <2>1, <2>4 DEF Least
  <2>7. q \in Seq(S) /\ Len(q) = 1 /\ q[1] = m
    <3>1. /\ q \in Seq(S) /\ Len(q) = Least(1, n - at)
          /\ \A i \in 1..Least(1, n - at) : q[i] = s[at + i]
      <4>1. s \in Seq(S) /\ Len(s) = n /\ q = PageOf(s, at, 1)
        BY <2>1, <2>2 DEF PageOf
      <4> QED
        BY <2>6, <4>1, PageTakes
    <3> HIDE DEF q
    <3> QED
      BY <2>3, <2>6, <3>1
  <2>8. q = <<m>>
    <3> HIDE DEF q
    <3> QED
      BY <2>7
  <2> QED
    BY <2>5, <2>6, <2>8 DEF at
<1> QED
  BY <1>3, <1>4

(* What is before a message in its sorted channel, newest first, and what  *)
(* is not, oldest first.                                                   *)
Earlier(S, m) == {i \in S : Before(i, m)}
Later(S, m) == {i \in S : ~Before(i, m)}
Back(s, p) == [k \in 1..(p - 1) |-> s[p - k]]
Forth(s, p, n) == [k \in 1..(n - p + 1) |-> s[p - 1 + k]]

LEMMA Halves ==
  ASSUME ArchiveOK, NEW S \in SUBSET DOMAIN messages, NEW s, Sorts(s, S, "asc"),
         NEW p \in 1..Cardinality(S)
  PROVE  /\ Sorted(Earlier(S, s[p]), "desc") = Back(s, p)
         /\ Sorted(Later(S, s[p]), "asc") = Forth(s, p, Cardinality(S))
<1> DEFINE n == Cardinality(S)
           m == s[p]
           E == {i \in S : Before(i, m)}
           L == {i \in S : ~Before(i, m)}
           e == [k \in 1..(p - 1) |-> s[p - k]]
           l == [k \in 1..(n - p + 1) |-> s[p - 1 + k]]
<1>1. n \in Nat /\ IsFiniteSet(S) /\ p \in 1..n
  BY SomeMessages
<1>2. s \in [1..n -> S] /\ \A i, j \in 1..n : i < j => Before(s[i], s[j])
  BY DEF Sorts, Ahead
<1>3. E \in SUBSET DOMAIN messages /\ L \in SUBSET DOMAIN messages
  OBVIOUS
<1>4. Cardinality(E) = p - 1
  BY Places DEF AheadOf, Ahead
<1>5. Cardinality(L) = n - p + 1
  <2>1. L = S \ E /\ S \cap E = E
    OBVIOUS
  <2>2. Cardinality(L) = n - Cardinality(E)
    <3> HIDE DEF E, L
    <3>1. Cardinality(S \ E) = Cardinality(S) - Cardinality(S \cap E)
      BY <1>1, FS_Difference
    <3> QED
      BY <2>1, <3>1
  <2> QED
    BY <1>1, <1>4, <2>2
<1>6. Sorts(e, E, "desc")
  <2>1. ASSUME NEW k \in 1..(p - 1)
        PROVE  e[k] \in E /\ p - k \in 1..n
    <3>1. p - k \in 1..n /\ p - k < p
      BY <1>1
    <3> QED
      BY <1>1, <1>2, <3>1
  <2>2. ASSUME NEW i \in 1..(p - 1), NEW j \in 1..(p - 1), i < j
        PROVE  Ahead(e[i], e[j], "desc")
    <3>1. p - j < p - i
      BY <1>1, <2>2
    <3> QED
      BY <1>2, <2>1, <3>1 DEF Ahead
  <2> QED
    BY <1>4, <2>1, <2>2 DEF Sorts
<1>7. Sorts(l, L, "asc")
  <2>1. ASSUME NEW k \in 1..(n - p + 1)
        PROVE  l[k] \in L /\ p - 1 + k \in 1..n
    <3>1. p - 1 + k \in 1..n /\ (p < p - 1 + k \/ p - 1 + k = p)
      BY <1>1
    <3>2. ~Before(s[p - 1 + k], m)
      <4>1. s[p - 1 + k] = m \/ Ahead(m, s[p - 1 + k], "asc")
        BY <1>2, <3>1 DEF Ahead
      <4>2. m \in DOMAIN messages /\ s[p - 1 + k] \in DOMAIN messages
        BY <1>1, <1>2, <3>1
      <4>3. ~Ahead(s[p - 1 + k], m, "asc")
        BY <4>1, <4>2, AheadOrders
      <4> QED
        BY <4>3 DEF Ahead
    <3> QED
      BY <1>2, <3>1, <3>2
  <2>2. ASSUME NEW i \in 1..(n - p + 1), NEW j \in 1..(n - p + 1), i < j
        PROVE  Ahead(l[i], l[j], "asc")
    <3>1. p - 1 + i < p - 1 + j
      BY <1>1, <2>2
    <3> QED
      BY <1>2, <2>1, <3>1 DEF Ahead
  <2> QED
    BY <1>5, <2>1, <2>2 DEF Sorts
<1>8. Earlier(S, m) = E /\ Later(S, m) = L /\ Back(s, p) = e /\ Forth(s, p, n) = l
  BY DEF Earlier, Later, Back, Forth
<1> HIDE DEF E, L, e, l
<1> QED
  BY <1>3, <1>6, <1>7, <1>8, SortedOnce

(* context() is a page of its channel.                                     *)
LEMMA ContextIsAPage ==
  ASSUME ArchiveOK, NEW m \in DOMAIN messages
  PROVE  LET at == Locate(m, {}, "asc", TRUE)
             skip == IF at > Span THEN at - Span ELSE 0 IN
         Context(m) = Search({messages[m].chan}, "asc", at - skip + Span + 1, skip)
<1> DEFINE F == {messages[m].chan}
           S == Matching(F)
           s == Sorted(S, "asc")
           n == Cardinality(S)
           at == Locate(m, {}, "asc", TRUE)
           skip == IF at > Span THEN at - Span ELSE 0
<1>1. S \in SUBSET DOMAIN messages /\ m \in S
  BY DEF Matching
<1>2. Sorts(s, S, "asc") /\ n \in Nat /\ Span \in Nat \ {0}
  BY <1>1, SortedSorts, SomeMessages, FeedAssumption
<1>3. s \in [1..n -> S]
  BY <1>2 DEF Sorts
<1>4. PICK p \in 1..n : s[p] = m
  BY <1>1, <1>2, Places
<1>5. at = p - 1
  <2>1. at = Cardinality(AheadOf(S, m, "asc"))
    BY <1>1 DEF Locate, AheadOf
  <2> HIDE DEF s, S, at
  <2>2. Cardinality(AheadOf(S, s[p], "asc")) = p - 1
    BY <1>1, <1>2, <1>4, Places
  <2> QED
    BY <1>4, <2>1, <2>2
<1> DEFINE e == [k \in 1..(p - 1) |-> s[p - k]]
           l == [k \in 1..(n - p + 1) |-> s[p - 1 + k]]
           a == Limit(e, Span)
           b == Limit(l, Span + 1)
           q == Limit(SubSeq(s, skip + 1, Len(s)), at - skip + Span + 1)
<1>6. Context(m) = Reverse(a) \o b
  <2>1. /\ Sorted(Earlier(S, m), "desc") = Back(s, p)
        /\ Sorted(Later(S, m), "asc") = Forth(s, p, n)
    <3> HIDE DEF s, S
    <3>1. /\ Sorted(Earlier(S, s[p]), "desc") = Back(s, p)
          /\ Sorted(Later(S, s[p]), "asc") = Forth(s, p, n)
      BY <1>1, <1>2, <1>4, Halves
    <3> QED
      BY <1>4, <3>1
  <2>2. Back(s, p) = e /\ Forth(s, p, n) = l
    BY DEF Back, Forth
  <2> HIDE DEF e, l
  <2> QED
    BY <2>1, <2>2 DEF Context, Earlier, Later
<1>7. Search(F, "asc", at - skip + Span + 1, skip) = q
  BY DEF Search
<1> HIDE DEF n, s, S, at
<1>8. p \in Nat /\ p >= 1 /\ p <= n
  BY <1>2
<1>9. /\ at - skip \in Nat /\ skip \in 0..n
      /\ at - skip = Least(Span, p - 1) /\ p - 1 - skip = Least(Span, p - 1)
  BY <1>2, <1>5, <1>8 DEF Least
<1> DEFINE u == Least(Span, p - 1)
           v == Least(Span + 1, n - p + 1)
<1>10. /\ u \in Nat /\ u <= p - 1 /\ v \in Nat /\ v <= n - p + 1
       /\ Least(at - skip + Span + 1, n - skip) = u + v
  <2>1. u \in Nat /\ u <= p - 1 /\ v \in Nat /\ v <= n - p + 1
    BY <1>2, <1>8 DEF Least
  <2>2. n - skip = u + (n - p + 1)
    BY <1>2, <1>8, <1>9
  <2> QED
    BY <1>2, <1>8, <1>9, <2>1, <2>2 DEF Least
<1> HIDE DEF skip
<1>11. /\ a \in Seq(S) /\ Len(a) = u
       /\ \A i \in 1..u : a[i] = s[p - i]
  <2>1. e \in Seq(S) /\ Len(e) = p - 1
    <3>1. \A k \in 1..(p - 1) : p - k \in 1..n
      BY <1>2, <1>8
    <3>2. e \in [1..(p - 1) -> S]
      BY <1>3, <3>1
    <3> QED
      BY <1>8, <3>2
  <2>2. Limit(e, Span) \in Seq(S) /\ Len(Limit(e, Span)) = u /\ \A i \in 1..u : Limit(e, Span)[i] = e[i]
    <3> HIDE DEF e
    <3> QED
      BY <1>2, <2>1, LimitTakes
  <2>3. \A i \in 1..u : e[i] = s[p - i]
    BY <1>8, <1>10
  <2> QED
    BY <2>2, <2>3
<1>12. /\ b \in Seq(S) /\ Len(b) = v
       /\ \A i \in 1..v : b[i] = s[p - 1 + i]
  <2>1. l \in Seq(S) /\ Len(l) = n - p + 1
    <3>1. \A k \in 1..(n - p + 1) : p - 1 + k \in 1..n
      BY <1>2, <1>8
    <3>2. l \in [1..(n - p + 1) -> S]
      BY <1>3, <3>1
    <3> QED
      BY <1>2, <1>8, <3>2
  <2>2. /\ Limit(l, Span + 1) \in Seq(S) /\ Len(Limit(l, Span + 1)) = v
        /\ \A i \in 1..v : Limit(l, Span + 1)[i] = l[i]
    <3> HIDE DEF l
    <3>1. Span + 1 \in Nat
      BY <1>2
    <3> QED
      BY <2>1, <3>1, LimitTakes
  <2>3. \A i \in 1..v : l[i] = s[p - 1 + i]
    BY <1>2, <1>8, <1>10
  <2> QED
    BY <2>2, <2>3
<1>13. q \in Seq(S) /\ Len(q) = u + v /\ \A i \in 1..(u + v) : q[i] = s[skip + i]
  <2>1. at - skip + Span + 1 \in Nat
    BY <1>2, <1>9
  <2> DEFINE k == at - skip + Span + 1
  <2>2. k \in Nat /\ q = Limit(SubSeq(s, skip + 1, Len(s)), k) /\ Least(k, n - skip) = u + v
    BY <1>10, <2>1
  <2> HIDE DEF k
  <2>3. s \in Seq(S) /\ Len(s) = n /\ q = PageOf(s, skip, k)
    BY <1>2, <1>3, <2>2 DEF PageOf
  <2>4. /\ PageOf(s, skip, k) \in Seq(S) /\ Len(PageOf(s, skip, k)) = Least(k, n - skip)
        /\ \A i \in 1..Least(k, n - skip) : PageOf(s, skip, k)[i] = s[skip + i]
    <3> HIDE DEF q, u, v
    <3>1. skip \in 0..Len(s) /\ Len(s) = n
      BY <1>9, <2>3
    <3> QED
      BY <2>2, <2>3, <3>1, PageTakes
  <2> HIDE DEF q, u, v
  <2> QED
    BY <2>2, <2>3, <2>4
<1> HIDE DEF a, b, q, u, v
<1> DEFINE r == Reverse(a)
<1>14. /\ r \in Seq(S) /\ Len(r) = u
       /\ \A i \in 1..u : r[i] = s[skip + i]
  <2>1. \A i \in 1..u : u - i + 1 \in 1..u /\ p - (u - i + 1) = skip + i
    BY <1>8, <1>9, <1>10 DEF u
  <2>2. r = [i \in 1..u |-> a[u - i + 1]]
    BY <1>11 DEF Reverse
  <2>3. r \in [1..u -> S]
    BY <1>11, <2>1, <2>2
  <2> QED
    BY <1>10, <1>11, <2>1, <2>2, <2>3
<1> HIDE DEF r
<1>15. r \o b \in Seq(S) /\ Len(r \o b) = u + v
  BY <1>12, <1>14, ConcatProperties
<1>16. ASSUME NEW i \in 1..(u + v)
       PROVE  (r \o b)[i] = q[i]
  <2>1. (r \o b)[i] = IF i <= u THEN r[i] ELSE b[i - u]
    BY <1>12, <1>14, ConcatProperties
  <2>2. CASE i <= u
    BY <1>10, <1>13, <1>14, <2>1, <2>2
  <2>3. CASE ~(i <= u)
    <3>1. i - u \in 1..v /\ p - 1 + (i - u) = skip + i
      BY <1>8, <1>9, <1>10, <2>3 DEF u
    <3> QED
      BY <1>12, <1>13, <2>1, <2>3, <3>1
  <2> QED
    BY <2>2, <2>3
<1>17. r \o b = q
  <2> DEFINE w == r \o b
  <2>1. w \in Seq(S) /\ Len(w) = Len(q) /\ q \in Seq(S) /\ \A i \in 1..Len(q) : w[i] = q[i]
    BY <1>13, <1>15, <1>16
  <2> HIDE DEF w
  <2>2. w = q
    BY <2>1, SeqEqual
  <2> QED
    BY <2>2 DEF w
<1> QED
  BY <1>6, <1>7, <1>17 DEF r, at, skip, q

(* The page that begins where locate() says begins with the message, in    *)
(* both orders and under any filter, and context() is the page of the      *)
(* channel around it (query.py, search(), locate() and context()).         *)
THEOREM LocatedIsFound == Spec => []LocateLinesUp
<1>1. IInv => LocateLinesUp
  <2> SUFFICES ASSUME ArchiveOK
               PROVE  LocateLinesUp
    BY DEF IInv
  <2> QED
    BY LocatedFirst, ContextIsAPage DEF LocateLinesUp
<1> QED
  BY <1>1, FeedInvariant, PTL
=============================================================================
