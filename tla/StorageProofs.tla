---------------------------- MODULE StorageProofs ----------------------------
(***************************************************************************)
(* Proofs about Storage: its state keeps its type, and what was imported   *)
(* stays in the archive, for any channels, lines, logs and bounds.         *)
(***************************************************************************)
EXTENDS Storage, FiniteSetTheorems, TLAPS

USE StorageAssumption

-----------------------------------------------------------------------------
(* The inductive invariant.                                                *)

DbTyped == db \in Database /\ IsFiniteSet(db.rows)

(* A line in hand has a channel id once it was looked up.                  *)
LoggerTyped ==
  /\ ids \in Cache
  /\ pc \in {"idle", "newChannel", "nick", "newNick", "seq", "insert"}
  /\ cur \in [chan: Names \cup {NoName}, line: Lines \cup {NoLine}, cid: 0..MaxId, seq: Nat]
  /\ pc # "idle" => cur.chan \in Names /\ cur.line \in Lines
  /\ pc \in {"nick", "newNick", "seq", "insert"} => cur.cid # 0

LinkTyped ==
  conn \in BOOLEAN /\ listening \subseteq Names /\ inbox \in Seq([chan: Names, line: Lines])

(* A transaction per file is never a dry run.                              *)
JobTyped == job \in Job /\ IsFiniteSet(job.view.rows) /\ (job.perFile => ~job.dry)

GhostsTyped ==
  /\ said \in Bag /\ taken \in Bag /\ imported \in Bag
  /\ gaps \subseteq Names \X Lines /\ overtook \in BOOLEAN /\ deleted \subseteq Names

CountersTyped == imports \in Nat /\ edits \in Nat /\ restarts \in Nat /\ faults \in Nat

Typed == DbTyped /\ LoggerTyped /\ LinkTyped /\ JobTyped /\ GhostsTyped /\ CountersTyped

(* The occurrence i of a line is filed under the channel.                  *)
Has(d, c, l, i) ==
  d.chan[c] # 0 /\ \E r \in d.rows : r.cid = d.chan[c] /\ r.line = l /\ r.seq = i

Covers(d, bag, gone) ==
  \A c \in Names \ gone, l \in Lines, i \in Nat : i < bag[c][l] => Has(d, c, l, i)

Extends(d, e, gone) ==
  /\ d.rows \subseteq e.rows
  /\ \A c \in Names \ gone : d.chan[c] # 0 => e.chan[c] = d.chan[c]

Uncommitted ==
  Locked => Extends(db, job.view, {}) /\ Covers(job.view, job.done, deleted)

NothingDone == job.pc = "read" => job.done = Nothing

(* The channels an import remembers from its earlier files.                *)
CacheIsCurrent ==
  \A c \in Names \ deleted :
    job.ids.chan[c] # 0 => job.ids.chan[c] = (IF Locked THEN job.view.chan[c] ELSE db.chan[c])

Kept == Covers(db, imported, deleted) /\ Uncommitted /\ NothingDone /\ CacheIsCurrent

IInv == Typed /\ Kept

-----------------------------------------------------------------------------
(* Sets and bags.                                                          *)

LEMMA MaxOfTwo ==
  ASSUME NEW a \in Nat, NEW b \in Nat
  PROVE  Max({a, b}) \in Nat /\ Max({a, b}) \in {a, b} /\ Max({a, b}) >= a /\ Max({a, b}) >= b
<1>1. \E x \in {a, b} : \A y \in {a, b} : x >= y
  OBVIOUS
<1> QED
  BY <1>1 DEF Max

LEMMA FiniteImage ==
  ASSUME NEW S, NEW T, NEW f \in [S -> T], IsFiniteSet(S)
  PROVE  IsFiniteSet({f[x] : x \in S})
<1> DEFINE R == {f[x] : x \in S}
<1>1. f \in Surjection(S, R)
  BY DEF Surjection
<1> QED
  BY <1>1, FS_Surjection

(* InsertOrIgnore adds what has no row with its key, and nothing else.     *)
LEMMA Inserted ==
  ASSUME NEW rows, NEW new
  PROVE  /\ rows \subseteq InsertOrIgnore(rows, new)
         /\ InsertOrIgnore(rows, new) \subseteq rows \cup new
         /\ \A r \in new : \E o \in InsertOrIgnore(rows, new) :
              o.cid = r.cid /\ o.line = r.line /\ o.seq = r.seq
BY DEF InsertOrIgnore

LEMMA InsertedIsFinite ==
  ASSUME NEW rows, NEW new, IsFiniteSet(rows), IsFiniteSet(new)
  PROVE  IsFiniteSet(InsertOrIgnore(rows, new))
<1>1. IsFiniteSet(rows \cup new)
  BY FS_Union
<1> QED
  BY <1>1, Inserted, FS_Subset

(* What a database covers, a larger one does.                              *)
LEMMA CoversMore ==
  ASSUME NEW d, NEW e, NEW bag, NEW gone, NEW more,
         gone \subseteq more, Extends(d, e, more), Covers(d, bag, gone)
  PROVE  Covers(e, bag, more)
BY DEF Extends, Covers, Has

-----------------------------------------------------------------------------
(* Types.                                                                  *)

(* A message of the inbox.                                                 *)
Message == [chan: Names, line: Lines]

LEMMA InboxOps ==
  /\ <<>> \in Seq(Message)
  /\ \A s \in Seq(Message), m \in Message : Append(s, m) \in Seq(Message)
  /\ \A s \in Seq(Message) : s # <<>> => Head(s) \in Message /\ Tail(s) \in Seq(Message)
<1> DEFINE M == Message
<1> HIDE DEF M
<1>1. /\ <<>> \in Seq(M)
      /\ \A s \in Seq(M), m \in M : Append(s, m) \in Seq(M)
      /\ \A s \in Seq(M) : s # <<>> => Head(s) \in M /\ Tail(s) \in Seq(M)
  OBVIOUS
<1> QED
  BY <1>1 DEF M

(* What the first number of a line comes from is a count.                  *)
LEMMA CountsAreNat ==
  ASSUME NEW d, IsFiniteSet(d.rows), NEW cid, NEW l
  PROVE  FirstLive(d, cid, l) \in Nat
<1>1. Numbered(d, cid, l) \subseteq d.rows
  BY DEF Numbered
<1>2. Cardinality(Numbered(d, cid, l)) \in Nat
  BY <1>1, FS_Subset, FS_CardinalityType
<1> QED
  BY <1>2 DEF FirstLive

LEMMA EmptyTyped == NoIds \in Cache /\ NoJob \in Job /\ IsFiniteSet(NoJob.view.rows)
<1>1. NoIds \in Cache
  BY DEF NoIds, Cache
<1>2. Empty \in Database
  BY DEF Empty, Database
<1>3. Nothing \in Bag
  BY DEF Nothing, Bag
<1>4. <<>> \in Seq(Doc)
  OBVIOUS
<1>5. NoJob \in Job
  BY <1>1, <1>2, <1>3, <1>4 DEF NoJob, Job
<1> QED
  BY <1>1, <1>5, FS_EmptySet DEF NoJob, Empty

(* The rows of a document: of each line as many as it has, numbered on.     *)
LEMMA DocumentRows ==
  ASSUME NEW doc \in Doc, NEW cid \in Id, NEW first \in [Lines -> Nat],
         NEW rows,
         rows = UNION {{[cid |-> cid, line |-> l, seq |-> i, of |-> doc.chan] :
                          i \in first[l]..(first[l] + doc.lines[l] - 1)} : l \in Lines}
  PROVE  rows \subseteq Row /\ IsFiniteSet(rows)
<1> DEFINE I(l) == first[l]..(first[l] + doc.lines[l] - 1)
           R(l) == {[cid |-> cid, line |-> l, seq |-> i, of |-> doc.chan] : i \in I(l)}
           RR == {R(l) : l \in Lines}
<1>1. \A l \in Lines : first[l] \in Nat /\ doc.lines[l] \in Nat
  BY DEF Doc
<1>2. rows \subseteq Row
  BY <1>1 DEF Doc, Row
<1>3. ASSUME NEW l \in Lines
      PROVE  IsFiniteSet(R(l))
  <2>1. IsFiniteSet(I(l))
    <3>1. first[l] \in Int /\ first[l] + doc.lines[l] - 1 \in Int
      BY <1>1
    <3> QED
      BY ONLY <3>1, FS_Interval DEF I
  <2> DEFINE f == [i \in I(l) |-> [cid |-> cid, line |-> l, seq |-> i, of |-> doc.chan]]
  <2>2. f \in [I(l) -> R(l)]
    OBVIOUS
  <2>3. R(l) = {f[i] : i \in I(l)}
    OBVIOUS
  <2> HIDE DEF f, I, R
  <2>4. IsFiniteSet({f[i] : i \in I(l)})
    BY <2>1, <2>2, FiniteImage
  <2> QED
    BY <2>3, <2>4
<1>4. IsFiniteSet(RR)
  <2> DEFINE g == [l \in Lines |-> R(l)]
  <2>1. g \in [Lines -> RR]
    OBVIOUS
  <2>2. RR = {g[l] : l \in Lines}
    OBVIOUS
  <2> HIDE DEF g, RR
  <2>3. IsFiniteSet({g[l] : l \in Lines})
    BY <2>1, FiniteImage
  <2> QED
    BY <2>2, <2>3
<1>5. \A S \in RR : IsFiniteSet(S)
  BY <1>3
<1>6. rows = UNION RR
  OBVIOUS
<1> HIDE DEF RR
<1> QED
  BY <1>2, <1>4, <1>5, <1>6, FS_UNION

(* What importing a document does to its transaction.                      *)
DocumentEffect(doc, known, cid, rows) ==
  /\ job.docs # <<>> /\ doc = Head(job.docs) /\ job'.docs = Tail(job.docs)
  /\ job.ids.chan[doc.chan] # 0 => HasChannel(job.view, job.ids.chan[doc.chan])
  /\ known = IF job.ids.chan[doc.chan] # 0 THEN job.ids.chan[doc.chan] ELSE job.view.chan[doc.chan]
  /\ cid = IF known # 0 THEN known ELSE NewId(job.view)
  /\ IsFiniteSet(rows)
  /\ \A l \in Lines, i \in Nat : i < doc.lines[l] =>
       \E r \in rows : r.cid = cid /\ r.line = l /\ r.seq = i
  /\ \A r \in rows : r.cid = cid /\ r.of = doc.chan /\ r.seq < doc.lines[r.line]
  /\ job' \in Job /\ job'.pc = "write" /\ job'.perFile = job.perFile /\ job'.dry = job.dry
  /\ job'.view.rows = InsertOrIgnore(job.view.rows, rows)
  /\ job'.view.chan = IF known = 0 THEN [job.view.chan EXCEPT ![doc.chan] = cid] ELSE job.view.chan
  /\ job'.ids.chan = [job.ids.chan EXCEPT ![doc.chan] = cid]
  /\ job'.done = [job.done EXCEPT ![doc.chan] = [l \in Lines |-> Max({@[l], doc.lines[l]})]]

LEMMA DocumentImported ==
  ASSUME JobTyped, ImportDocument
  PROVE  \E doc \in Doc, known \in 0..MaxId, cid \in Id, rows \in SUBSET Row :
           DocumentEffect(doc, known, cid, rows)
<1> DEFINE doc == Head(job.docs)
           cached == job.ids.chan[doc.chan]
           known == IF cached # 0 THEN cached ELSE job.view.chan[doc.chan]
           cid == IF known # 0 THEN known ELSE NewId(job.view)
           cache == ResetSeq(job.ids)
           first == [l \in Lines |-> NextSeq(cache, cid, l, FirstImported(job.view, cid, l))]
           rows == UNION {{[cid |-> cid, line |-> l, seq |-> i, of |-> doc.chan] :
                             i \in first[l]..(first[l] + doc.lines[l] - 1)} : l \in Lines}
           view == [chan |-> IF known = 0 THEN [job.view.chan EXCEPT ![doc.chan] = cid]
                             ELSE job.view.chan,
                    nicks |-> job.view.nicks \cup {NickOf[r.line] : r \in rows},
                    rows |-> InsertOrIgnore(job.view.rows, rows)]
           numbers == [k \in Id \X Lines |-> IF k[1] = cid THEN first[k[2]] + doc.lines[k[2]]
                                              ELSE cache.seq[k]]
           most == [l \in Lines |-> Max({job.done[doc.chan][l], doc.lines[l]})]
<1>1. doc \in Doc /\ Tail(job.docs) \in Seq(Doc)
  <2>1. job.docs \in Seq(Doc) /\ job.docs # <<>>
    BY DEF JobTyped, Job, ImportDocument
  <2> DEFINE D == Doc
  <2> HIDE DEF D
  <2>2. \A s \in Seq(D) : s # <<>> => Head(s) \in D /\ Tail(s) \in Seq(D)
    OBVIOUS
  <2> QED
    BY <2>1, <2>2 DEF D
<1>2. job.ids \in Cache /\ job.view \in Database /\ job.done \in Bag /\ job \in Job
      /\ IsFiniteSet(job.view.rows)
  BY DEF JobTyped, Job
<1>3. doc.chan \in Names /\ doc.lines \in [Lines -> Nat]
  BY <1>1 DEF Doc
<1>4. known \in 0..MaxId
  BY <1>2, <1>3 DEF Cache, Database
<1>5. cid \in Id
  BY DEF ImportDocument
<1>6. cache \in Cache /\ cache.chan = job.ids.chan /\ \A k \in Id \X Lines : cache.seq[k] = 0
  BY <1>2 DEF ResetSeq, NoIds, Cache
<1>7. first = [l \in Lines |-> 0]
  BY <1>5, <1>6 DEF NextSeq, FirstImported
<1>8. rows \subseteq Row /\ IsFiniteSet(rows)
  <2> HIDE DEF first, cid, doc
  <2>1. first \in [Lines -> Nat]
    BY <1>7
  <2> QED
    BY <1>1, <1>5, <2>1, DocumentRows
<1>9. \A l \in Lines, i \in Nat : i < doc.lines[l] =>
        \E r \in rows : r.cid = cid /\ r.line = l /\ r.seq = i
  <2>1. ASSUME NEW l \in Lines, NEW i \in Nat, i < doc.lines[l]
        PROVE  [cid |-> cid, line |-> l, seq |-> i, of |-> doc.chan] \in rows
    <3> HIDE DEF first, cid, doc
    <3>1. first[l] = 0 /\ doc.lines[l] \in Nat
      BY <1>3, <1>7
    <3>2. i \in first[l]..(first[l] + doc.lines[l] - 1)
      BY <2>1, <3>1
    <3> QED
      BY <3>2
  <2> HIDE DEF rows, cid, doc
  <2> QED
    BY <2>1
<1>10. \A r \in rows : r.cid = cid /\ r.of = doc.chan /\ r.seq < doc.lines[r.line]
  <2>1. ASSUME NEW r \in rows
        PROVE  \E l \in Lines : \E i \in first[l]..(first[l] + doc.lines[l] - 1) :
                 r = [cid |-> cid, line |-> l, seq |-> i, of |-> doc.chan]
    <3> HIDE DEF first, cid, doc
    <3> QED
      BY <2>1 DEF rows
  <2>2. ASSUME NEW l \in Lines, NEW i \in first[l]..(first[l] + doc.lines[l] - 1)
        PROVE  i < doc.lines[l]
    <3> HIDE DEF first, doc
    <3>1. first[l] = 0 /\ doc.lines[l] \in Nat
      BY <1>3, <1>7
    <3> QED
      BY <3>1
  <2> HIDE DEF rows, first, cid, doc
  <2> QED
    BY <2>1, <2>2
<1>11. view \in Database
  <2>1. \A r \in rows : NickOf[r.line] \in Nicks
    BY <1>8 DEF Row, Nicks
  <2> HIDE DEF rows, cid, known, doc
  <2>2. InsertOrIgnore(job.view.rows, rows) \subseteq Row
    BY <1>2, <1>8, Inserted DEF Database
  <2> QED
    BY <1>2, <1>3, <1>5, <2>1, <2>2 DEF Database, Id
<1>12. numbers \in [Id \X Lines -> Nat]
  <2> HIDE DEF first, cid, doc, cache
  <2>1. \A k \in Id \X Lines : k[2] \in Lines
    OBVIOUS
  <2>2. \A k \in Id \X Lines : cache.seq[k] \in Nat
    BY <1>6
  <2>3. \A k \in Id \X Lines : first[k[2]] + doc.lines[k[2]] \in Nat
    BY <1>3, <1>7, <2>1
  <2> QED
    BY <2>2, <2>3
<1>13. most \in [Lines -> Nat]
  <2>1. \A l \in Lines : job.done[doc.chan][l] \in Nat /\ doc.lines[l] \in Nat
    BY <1>2, <1>3 DEF Bag
  <2> QED
    BY <2>1, MaxOfTwo
<1>14. job' = [job EXCEPT !.pc = "write", !.docs = Tail(@), !.view = view,
                          !.ids = [cache EXCEPT !.chan[doc.chan] = cid, !.seq = numbers],
                          !.done[doc.chan] = most]
  BY DEF ImportDocument
<1> HIDE DEF doc, known, cid, cache, first, rows, numbers
<1>15. [cache EXCEPT !.chan[doc.chan] = cid, !.seq = numbers] \in Cache
       /\ [cache EXCEPT !.chan[doc.chan] = cid, !.seq = numbers].chan
            = [job.ids.chan EXCEPT ![doc.chan] = cid]
  <2>1. [cache.chan EXCEPT ![doc.chan] = cid] \in [Names -> 0..MaxId]
    BY <1>3, <1>5, <1>6 DEF Cache, Id
  <2> QED
    BY <1>6, <1>12, <2>1 DEF Cache
<1>16. [job.done EXCEPT ![doc.chan] = most] \in Bag
  BY <1>2, <1>3, <1>13 DEF Bag
<1>17. job' \in Job /\ job'.pc = "write" /\ job'.perFile = job.perFile /\ job'.dry = job.dry
       /\ job'.docs = Tail(job.docs) /\ job'.view = view
       /\ job'.ids = [cache EXCEPT !.chan[doc.chan] = cid, !.seq = numbers]
       /\ job'.done = [job.done EXCEPT ![doc.chan] = most]
  <2> HIDE DEF view, most
  <2> QED
    BY <1>1, <1>2, <1>11, <1>14, <1>15, <1>16 DEF Job
<1>18. DocumentEffect(doc, known, cid, rows)
  <2>1. known = IF job.ids.chan[doc.chan] # 0 THEN job.ids.chan[doc.chan] ELSE job.view.chan[doc.chan]
    BY DEF known
  <2>2. cid = IF known # 0 THEN known ELSE NewId(job.view)
    BY DEF cid
  <2>3. job'.view.rows = InsertOrIgnore(job.view.rows, rows)
        /\ job'.view.chan = IF known = 0 THEN [job.view.chan EXCEPT ![doc.chan] = cid] ELSE job.view.chan
    BY <1>17
  <2>4. job'.ids.chan = [job.ids.chan EXCEPT ![doc.chan] = cid]
    BY <1>15, <1>17
  <2>5. /\ job.docs # <<>> /\ doc = Head(job.docs)
        /\ job.ids.chan[doc.chan] # 0 => HasChannel(job.view, job.ids.chan[doc.chan])
    BY DEF ImportDocument, doc
  <2> HIDE DEF view
  <2> QED
    BY <1>8, <1>9, <1>17, <1>10, <2>1, <2>2, <2>3, <2>4, <2>5 DEF DocumentEffect
<1> QED
  BY <1>1, <1>4, <1>5, <1>8, <1>18

LEMMA SayTyped ==
  ASSUME Typed, NEW c \in Names, NEW l \in Lines, Say(c, l)
  PROVE  Typed'
<1> USE DEF Typed, Say
<1>1. LinkTyped'
  <2> DEFINE m == [chan |-> c, line |-> l]
  <2>1. m \in Message
    BY DEF Message
  <2>2. inbox \in Seq(Message)
    BY DEF LinkTyped, Message
  <2>3. inbox' \in Seq(Message)
    BY <2>1, <2>2, InboxOps
  <2> QED
    BY <2>3 DEF LinkTyped, Message
<1>2. GhostsTyped'
  BY DEF GhostsTyped, Bag, ghosts, history
<1>3. DbTyped' /\ LoggerTyped' /\ JobTyped' /\ CountersTyped'
  BY DEF DbTyped, LoggerTyped, JobTyped, CountersTyped, logger, counters
<1> QED
  BY <1>1, <1>2, <1>3

LEMMA DeleteChannelTyped ==
  ASSUME Typed, NEW c \in Names, DeleteChannel(c)
  PROVE  Typed'
<1> USE DEF Typed, DeleteChannel
<1>1. DbTyped'
  BY DEF DbTyped, Database
<1>2. GhostsTyped'
  BY DEF GhostsTyped, ghosts, history
<1>3. CountersTyped'
  BY DEF CountersTyped
<1>4. LoggerTyped' /\ LinkTyped' /\ JobTyped'
  BY DEF LoggerTyped, LinkTyped, JobTyped, logger, link
<1> QED
  BY <1>1, <1>2, <1>3, <1>4

LEMMA AddChannelTyped ==
  ASSUME Typed, NEW c \in Names, AddChannel(c)
  PROVE  Typed'
<1> USE DEF Typed, AddChannel
<1>1. DbTyped'
  BY DEF DbTyped, Database, Id
<1>2. LinkTyped'
  BY DEF LinkTyped
<1>3. CountersTyped'
  BY DEF CountersTyped
<1>4. LoggerTyped' /\ JobTyped' /\ GhostsTyped'
  BY DEF LoggerTyped, JobTyped, GhostsTyped, logger, ghosts, history
<1> QED
  BY <1>1, <1>2, <1>3, <1>4

LEMMA ReconnectTyped ==
  ASSUME Typed, Reconnect
  PROVE  Typed'
<1> USE DEF Typed, Reconnect
<1>1. LinkTyped'
  BY DEF LinkTyped
<1>2. DbTyped' /\ LoggerTyped' /\ JobTyped' /\ GhostsTyped' /\ CountersTyped'
  BY DEF DbTyped, LoggerTyped, JobTyped, GhostsTyped, CountersTyped, logger,
     ghosts, history, counters
<1> QED
  BY <1>1, <1>2

LEMMA CutTyped ==
  ASSUME Typed, Cut
  PROVE  Typed'
<1> USE DEF Typed, Cut
<1>1. LinkTyped'
  BY InboxOps DEF LinkTyped, Message
<1>2. CountersTyped'
  BY DEF CountersTyped
<1>3. DbTyped' /\ LoggerTyped' /\ JobTyped' /\ GhostsTyped'
  BY DEF DbTyped, LoggerTyped, JobTyped, GhostsTyped, logger, ghosts, history
<1> QED
  BY <1>1, <1>2, <1>3

LEMMA RestartTyped ==
  ASSUME Typed, Restart
  PROVE  Typed'
<1> USE DEF Typed, Restart
<1>1. LoggerTyped'
  BY DEF LoggerTyped, Cache, Id, NoIds, NoRow
<1>2. LinkTyped'
  BY InboxOps DEF LinkTyped, Message
<1>3. CountersTyped'
  BY DEF CountersTyped
<1>4. DbTyped' /\ JobTyped' /\ GhostsTyped'
  BY DEF DbTyped, JobTyped, GhostsTyped, ghosts, history
<1> QED
  BY <1>1, <1>2, <1>3, <1>4

LEMMA TakeUpTyped ==
  ASSUME Typed, TakeUp
  PROVE  Typed'
<1> USE DEF Typed, TakeUp
<1>1. LoggerTyped'
  <2> DEFINE m == Head(inbox)
             known == IF ids.chan[m.chan] # 0 THEN ids.chan[m.chan] ELSE db.chan[m.chan]
  <2>1. m \in Message
    BY InboxOps DEF LinkTyped, Message
  <2>2. m.chan \in Names /\ m.line \in Lines
    BY <2>1 DEF Message
  <2>3. known \in 0..MaxId
    BY <2>2 DEF LoggerTyped, DbTyped, Cache, Database
  <2> HIDE DEF m, known
  <2>4. ids' = [ids EXCEPT !.chan[m.chan] = known]
        /\ cur' = [chan |-> m.chan, line |-> m.line, cid |-> known, seq |-> 0]
        /\ pc' = IF known = 0 THEN "newChannel" ELSE "nick"
    BY DEF m, known
  <2>5. ids' \in Cache
    <3>1. ids \in Cache /\ [ids.chan EXCEPT ![m.chan] = known] \in [Names -> 0..MaxId]
      BY <2>2, <2>3 DEF LoggerTyped, Cache
    <3> QED
      BY <2>4, <3>1 DEF Cache
  <2> QED
    BY <2>2, <2>3, <2>4, <2>5 DEF LoggerTyped
<1>2. LinkTyped'
  BY InboxOps DEF LinkTyped, Message
<1>3. DbTyped' /\ JobTyped' /\ GhostsTyped' /\ CountersTyped'
  BY DEF DbTyped, JobTyped, GhostsTyped, CountersTyped, ghosts, history, counters
<1> QED
  BY <1>1, <1>2, <1>3

LEMMA NewChannelTyped ==
  ASSUME Typed, NewChannel
  PROVE  Typed'
<1> USE DEF Typed, NewChannel
<1>1. DbTyped'
  BY DEF DbTyped, Database, Id
<1>2. LoggerTyped'
  <2>1. PICK n \in Id : n = NewId(db)
    OBVIOUS
  <2>2. /\ ids' = [ids EXCEPT !.chan[cur.chan] = n] /\ cur' = [cur EXCEPT !.cid = n]
        /\ pc = "newChannel" /\ pc' = "nick"
    BY <2>1
  <2>3. /\ ids \in Cache /\ cur.chan \in Names /\ cur.line \in Lines
        /\ cur \in [chan: Names \cup {NoName}, line: Lines \cup {NoLine},
                    cid: 0..MaxId, seq: Nat]
        /\ n \in 0..MaxId /\ n # 0
    BY <2>2 DEF LoggerTyped, Id
  <2> HIDE DEF Typed, NewChannel
  <2>4. ids' \in Cache
    <3>1. [ids.chan EXCEPT ![cur.chan] = n] \in [Names -> 0..MaxId]
      BY <2>3 DEF Cache
    <3> QED
      BY <2>2, <2>3, <3>1 DEF Cache
  <2>5. /\ cur' \in [chan: Names \cup {NoName}, line: Lines \cup {NoLine},
                     cid: 0..MaxId, seq: Nat]
        /\ cur'.chan = cur.chan /\ cur'.line = cur.line /\ cur'.cid = n
    BY <2>2, <2>3
  <2> QED
    BY <2>2, <2>3, <2>4, <2>5 DEF LoggerTyped
<1>3. LinkTyped' /\ JobTyped' /\ GhostsTyped' /\ CountersTyped'
  BY DEF LinkTyped, JobTyped, GhostsTyped, CountersTyped, link, ghosts, history, counters
<1> QED
  BY <1>1, <1>2, <1>3

LEMMA LookNickTyped ==
  ASSUME Typed, LookNick
  PROVE  Typed'
<1> USE DEF Typed, LookNick
<1>1. LoggerTyped'
  BY DEF LoggerTyped, Cache, Id, Nicks
<1>2. DbTyped' /\ LinkTyped' /\ JobTyped' /\ GhostsTyped' /\ CountersTyped'
  BY DEF DbTyped, LinkTyped, JobTyped, GhostsTyped, CountersTyped, link, ghosts, history, counters
<1> QED
  BY <1>1, <1>2

LEMMA NewNickTyped ==
  ASSUME Typed, NewNick
  PROVE  Typed'
<1> USE DEF Typed, NewNick
<1>1. DbTyped'
  <2>1. NickOf[cur.line] \in Nicks
    BY DEF LoggerTyped, Nicks
  <2> QED
    BY <2>1 DEF DbTyped, Database
<1>2. LoggerTyped'
  BY DEF LoggerTyped, Cache, Id, Nicks
<1>3. LinkTyped' /\ JobTyped' /\ GhostsTyped' /\ CountersTyped'
  BY DEF LinkTyped, JobTyped, GhostsTyped, CountersTyped, link, ghosts, history, counters
<1> QED
  BY <1>1, <1>2, <1>3

LEMMA NameTakenTyped ==
  ASSUME Typed, NameTaken
  PROVE  Typed'
<1> USE DEF Typed, NameTaken
<1>1. LoggerTyped'
  BY DEF LoggerTyped, Cache, Id, Raise, NoRow
<1>2. LinkTyped'
  BY InboxOps DEF LinkTyped, Message, Raise
<1>3. GhostsTyped'
  BY DEF GhostsTyped, Raise, history
<1>4. DbTyped' /\ JobTyped' /\ CountersTyped'
  BY DEF DbTyped, JobTyped, CountersTyped, Raise
<1> QED
  BY <1>1, <1>2, <1>3, <1>4

LEMMA DrawSeqTyped ==
  ASSUME Typed, DrawSeq
  PROVE  Typed'
<1> USE DEF Typed, DrawSeq
<1>1. LoggerTyped'
  <2>1. cur.line \in Lines /\ cur.cid \in Id
    BY DEF LoggerTyped, Id
  <2> DEFINE k == <<cur.cid, cur.line>>
             n == NextSeq(ids, cur.cid, cur.line, FirstLive(db, cur.cid, cur.line))
  <2>2. k \in Id \X Lines
    BY <2>1
  <2>3. n \in Nat
    BY <2>2, CountsAreNat DEF NextSeq, LoggerTyped, Cache, DbTyped
  <2> HIDE DEF k, n
  <2>4. ids' = [ids EXCEPT !.seq[k] = n + 1] /\ cur' = [cur EXCEPT !.seq = n] /\ pc' = "insert"
    BY DEF k, n
  <2>5. ids' \in Cache
    <3>1. ids \in Cache /\ [ids.seq EXCEPT ![k] = n + 1] \in [Id \X Lines -> Nat]
      BY <2>2, <2>3 DEF LoggerTyped, Cache
    <3> QED
      BY <2>4, <3>1 DEF Cache
  <2> QED
    BY <2>3, <2>4, <2>5 DEF LoggerTyped
<1>2. DbTyped' /\ LinkTyped' /\ JobTyped' /\ GhostsTyped' /\ CountersTyped'
  BY DEF DbTyped, LinkTyped, JobTyped, GhostsTyped, CountersTyped, link, ghosts, history, counters
<1> QED
  BY <1>1, <1>2

LEMMA InsertTyped ==
  ASSUME Typed, Insert
  PROVE  Typed'
<1> USE DEF Typed, Insert
<1>1. DbTyped'
  <2> DEFINE r == [cid |-> cur.cid, line |-> cur.line, seq |-> cur.seq, of |-> cur.chan]
  <2>1. r \in Row
    BY DEF LoggerTyped, Row, Id
  <2>2. IsFiniteSet({r})
    BY FS_Singleton
  <2> HIDE DEF r
  <2>3. db' = [db EXCEPT !.rows = InsertOrIgnore(@, {r})]
    BY DEF r
  <2>4. db'.rows = InsertOrIgnore(db.rows, {r}) /\ db'.chan = db.chan /\ db'.nicks = db.nicks
    BY <2>3 DEF DbTyped, Database
  <2>5. IsFiniteSet(db'.rows)
    BY <2>2, <2>4, InsertedIsFinite DEF DbTyped
  <2>6. db'.rows \subseteq Row
    BY <2>1, <2>4, Inserted DEF DbTyped, Database
  <2> QED
    BY <2>3, <2>5, <2>6 DEF DbTyped, Database
<1>2. LoggerTyped'
  BY DEF LoggerTyped, Cache, Id, NoRow
<1>3. GhostsTyped'
  <2>1. cur.chan \in Names /\ cur.line \in Lines
    BY DEF LoggerTyped
  <2>2. taken' \in Bag
    BY <2>1 DEF GhostsTyped, Bag
  <2> QED
    BY <2>2 DEF GhostsTyped, history
<1>4. LinkTyped' /\ JobTyped' /\ CountersTyped'
  BY DEF LinkTyped, JobTyped, CountersTyped, link, counters
<1> QED
  BY <1>1, <1>2, <1>3, <1>4

LEMMA ChannelGoneTyped ==
  ASSUME Typed, ChannelGone
  PROVE  Typed'
<1> USE DEF Typed, ChannelGone
<1>1. LoggerTyped'
  BY DEF LoggerTyped, Cache, Id, Raise, NoRow
<1>2. LinkTyped'
  BY InboxOps DEF LinkTyped, Message, Raise
<1>3. GhostsTyped'
  <2>1. cur.chan \in Names /\ cur.line \in Lines
    BY DEF LoggerTyped
  <2>2. gaps' \subseteq Names \X Lines
    BY <2>1 DEF GhostsTyped
  <2> QED
    BY <2>2 DEF GhostsTyped, Raise, history
<1>4. CountersTyped'
  BY DEF CountersTyped, Raise
<1>5. DbTyped' /\ JobTyped'
  BY DEF DbTyped, JobTyped, Raise
<1> QED
  BY <1>1, <1>2, <1>3, <1>4, <1>5

LEMMA LockTimeoutTyped ==
  ASSUME Typed, LockTimeout
  PROVE  Typed'
<1> USE DEF Typed, LockTimeout
<1>1. LoggerTyped'
  BY DEF LoggerTyped, Cache, Id, Raise, NoRow
<1>2. LinkTyped'
  BY InboxOps DEF LinkTyped, Message, Raise
<1>3. GhostsTyped'
  <2>1. cur.chan \in Names /\ cur.line \in Lines
    BY DEF LoggerTyped
  <2>2. gaps' \subseteq Names \X Lines
    BY <2>1 DEF GhostsTyped
  <2> QED
    BY <2>2 DEF GhostsTyped, Raise, history
<1>4. CountersTyped'
  BY DEF CountersTyped, Raise
<1>5. DbTyped' /\ JobTyped'
  BY DEF DbTyped, JobTyped, Raise
<1> QED
  BY <1>1, <1>2, <1>3, <1>4, <1>5

LEMMA StartImportTyped ==
  ASSUME Typed, StartImport
  PROVE  Typed'
<1> USE DEF Typed, StartImport
<1>1. JobTyped'
  <2>1. PICK n \in 1..MaxDocs, perFile \in BOOLEAN, dry \in BOOLEAN : \E docs \in [1..n -> Logs] :
          /\ perFile => ~dry
          /\ job' = [NoJob EXCEPT !.pc = "begin", !.docs = docs, !.perFile = perFile, !.dry = dry]
    OBVIOUS
  <2>2. PICK docs \in [1..n -> Logs] :
          /\ perFile => ~dry
          /\ job' = [NoJob EXCEPT !.pc = "begin", !.docs = docs, !.perFile = perFile, !.dry = dry]
    BY <2>1
  <2>3. Logs \subseteq Doc
    BY DEF Logs, Doc
  <2>4. n \in Nat /\ docs \in [1..n -> Doc]
    BY <2>3
  <2>5. docs \in Seq(Doc)
    BY <2>4
  <2>6. job' \in Job
    BY <2>2, <2>5, EmptyTyped DEF Job
  <2>7. job'.view = NoJob.view /\ job'.perFile = perFile /\ job'.dry = dry
    BY <2>2, EmptyTyped DEF Job
  <2> QED
    BY <2>2, <2>6, <2>7, EmptyTyped DEF JobTyped
<1>2. GhostsTyped'
  BY DEF GhostsTyped, ghosts
<1>3. CountersTyped'
  BY DEF CountersTyped
<1>4. DbTyped' /\ LoggerTyped' /\ LinkTyped'
  BY DEF DbTyped, LoggerTyped, LinkTyped, logger, link
<1> QED
  BY <1>1, <1>2, <1>3, <1>4

LEMMA ReadSnapshotTyped ==
  ASSUME Typed, ReadSnapshot
  PROVE  Typed'
<1> USE DEF Typed, ReadSnapshot
<1>1. JobTyped'
  <2>1. db \in Database /\ IsFiniteSet(db.rows) /\ Nothing \in Bag
    BY DEF DbTyped, Nothing, Bag
  <2> QED
    BY <2>1 DEF JobTyped, Job
<1>2. DbTyped' /\ LoggerTyped' /\ LinkTyped' /\ GhostsTyped' /\ CountersTyped'
  BY DEF DbTyped, LoggerTyped, LinkTyped, GhostsTyped, CountersTyped, logger, link,
     ghosts, history, counters
<1> QED
  BY <1>1, <1>2

LEMMA ImportDocumentTyped ==
  ASSUME Typed, ImportDocument
  PROVE  Typed'
<1>1. JobTyped'
  <2>1. PICK doc \in Doc, known \in 0..MaxId, cid \in Id, rows \in SUBSET Row :
          DocumentEffect(doc, known, cid, rows)
    BY DocumentImported DEF Typed
  <2>2. IsFiniteSet(job'.view.rows)
    <3>1. IsFiniteSet(InsertOrIgnore(job.view.rows, rows))
      BY <2>1, InsertedIsFinite DEF DocumentEffect, Typed, JobTyped
    <3> QED
      BY <2>1, <3>1 DEF DocumentEffect
  <2> QED
    BY <2>1, <2>2 DEF DocumentEffect, Typed, JobTyped
<1>2. UNCHANGED <<db, logger, link, said, ghosts, history, deleted, counters>>
  BY DEF ImportDocument
<1>3. DbTyped' /\ LoggerTyped' /\ LinkTyped' /\ GhostsTyped' /\ CountersTyped'
  BY <1>2 DEF Typed, DbTyped, LoggerTyped, LinkTyped, GhostsTyped, CountersTyped, logger, link,
     ghosts, history, counters
<1> QED
  BY <1>1, <1>3 DEF Typed

LEMMA ImportEndsTyped ==
  ASSUME Typed, ImportEnds
  PROVE  Typed'
<1> USE DEF Typed, ImportEnds
<1>1. DbTyped'
  BY DEF DbTyped, JobTyped, Job
<1>2. JobTyped'
  <2>1. CASE job.docs = <<>>
    BY <2>1, EmptyTyped DEF JobTyped, NoJob
  <2>2. CASE job.docs # <<>>
    BY <2>2 DEF JobTyped, Job
  <2> QED
    BY <2>1, <2>2
<1>3. GhostsTyped'
  <2> DEFINE more == [c \in Names |-> [l \in Lines |-> Max({imported[c][l], job.done[c][l]})]]
  <2>1. ASSUME NEW c \in Names, NEW l \in Lines
        PROVE  Max({imported[c][l], job.done[c][l]}) \in Nat
    <3>1. imported[c][l] \in Nat /\ job.done[c][l] \in Nat
      BY DEF GhostsTyped, JobTyped, Job, Bag
    <3> QED
      BY <3>1, MaxOfTwo
  <2>2. more \in Bag
    BY <2>1 DEF Bag
  <2>3. imported' \in {imported, more}
    OBVIOUS
  <2> QED
    BY <2>2, <2>3 DEF GhostsTyped, ghosts
<1>4. LoggerTyped' /\ LinkTyped' /\ CountersTyped'
  BY DEF LoggerTyped, LinkTyped, CountersTyped, logger, link, counters
<1> QED
  BY <1>1, <1>2, <1>3, <1>4

LEMMA ImportRefusedTyped ==
  ASSUME Typed, ImportRefused
  PROVE  Typed'
<1> USE DEF Typed, ImportRefused
<1>1. JobTyped'
  BY EmptyTyped DEF JobTyped, NoJob
<1>2. DbTyped' /\ LoggerTyped' /\ LinkTyped' /\ GhostsTyped' /\ CountersTyped'
  BY DEF DbTyped, LoggerTyped, LinkTyped, GhostsTyped, CountersTyped, logger, link,
     ghosts, history, counters
<1> QED
  BY <1>1, <1>2

LEMMA ImportFailsTyped ==
  ASSUME Typed, ImportFails
  PROVE  Typed'
<1> USE DEF Typed, ImportFails
<1>1. JobTyped'
  BY EmptyTyped DEF JobTyped, NoJob
<1>2. CountersTyped'
  BY DEF CountersTyped
<1>3. DbTyped' /\ LoggerTyped' /\ LinkTyped' /\ GhostsTyped'
  BY DEF DbTyped, LoggerTyped, LinkTyped, GhostsTyped, logger, link, ghosts, history
<1> QED
  BY <1>1, <1>2, <1>3

LEMMA TypedInit ==
  ASSUME Init
  PROVE  Typed
<1>1. DbTyped
  BY FS_EmptySet DEF Init, DbTyped, Database
<1>2. LoggerTyped
  BY EmptyTyped DEF Init, LoggerTyped, NoRow
<1>3. LinkTyped
  BY InboxOps DEF Init, LinkTyped, Message
<1>4. JobTyped
  BY EmptyTyped DEF Init, JobTyped, NoJob
<1>5. GhostsTyped
  BY DEF Init, GhostsTyped, Nothing, Bag
<1>6. CountersTyped
  BY DEF Init, CountersTyped
<1> QED
  BY <1>1, <1>2, <1>3, <1>4, <1>5, <1>6 DEF Typed

LEMMA TypedStep ==
  ASSUME Typed, [Next]_vars
  PROVE  Typed'
<1>1. CASE People
  BY <1>1, SayTyped DEF People
<1>2. CASE Owner
  BY <1>2, DeleteChannelTyped, AddChannelTyped DEF Owner
<1>3. CASE Connection
  BY <1>3, ReconnectTyped, CutTyped, RestartTyped DEF Connection
<1>4. CASE Store
  BY <1>4, TakeUpTyped, NewChannelTyped, LookNickTyped, NewNickTyped, NameTakenTyped,
     DrawSeqTyped, InsertTyped, ChannelGoneTyped, LockTimeoutTyped DEF Store
<1>5. CASE Import
  BY <1>5, StartImportTyped, ReadSnapshotTyped, ImportDocumentTyped, ImportEndsTyped,
     ImportRefusedTyped, ImportFailsTyped DEF Import
<1>6. CASE UNCHANGED vars
  BY <1>6 DEF vars, Typed, DbTyped, LoggerTyped, LinkTyped, JobTyped, GhostsTyped, CountersTyped,
     logger, link, ghosts, history, counters
<1> QED
  BY <1>1, <1>2, <1>3, <1>4, <1>5, <1>6 DEF Next

LEMMA TypedIsTypeOK ==
  ASSUME Typed
  PROVE  TypeOK
BY DEF Typed, DbTyped, LoggerTyped, LinkTyped, JobTyped, GhostsTyped, CountersTyped, TypeOK

(* The variables keep their types, whatever the channels, logs and bounds. *)
THEOREM TypeCorrect == Spec => []TypeOK
<1>1. Init => Typed
  BY TypedInit
<1>2. Typed /\ [Next]_vars => Typed'
  BY TypedStep
<1>3. Typed => TypeOK
  BY TypedIsTypeOK
<1> QED
  BY <1>1, <1>2, <1>3, PTL DEF Spec

-----------------------------------------------------------------------------
(* What was imported is kept.                                              *)

LEMMA KeptInit ==
  ASSUME Init
  PROVE  Kept
<1>1. Covers(db, imported, deleted)
  BY DEF Init, Covers, Nothing
<1>2. ~Locked /\ job.pc # "read" /\ \A c \in Names : job.ids.chan[c] = 0
  BY DEF Init, Locked, NoJob, NoIds
<1> QED
  BY <1>1, <1>2 DEF Kept, Uncommitted, NothingDone, CacheIsCurrent

(* A step of the live process or of an owner: nothing is taken away but    *)
(* channels, and nothing is written while an import has the lock.          *)
LEMMA LiveStepKeeps ==
  ASSUME Typed, Kept, UNCHANGED <<job, imported>>, deleted \subseteq deleted',
         db' = db \/ (~Locked /\ Extends(db, db', deleted'))
  PROVE  Kept'
<1>1. Extends(db, db', deleted')
  BY DEF Extends
<1>2. Covers(db, imported, deleted)'
  BY <1>1, CoversMore DEF Kept
<1>3. Locked' <=> Locked
  BY DEF Locked
<1>4. Uncommitted'
  <2>1. SUFFICES ASSUME Locked
                 PROVE  Extends(db, job.view, {})' /\ Covers(job.view, job.done, deleted)'
    BY <1>3 DEF Uncommitted
  <2>2. Extends(db, job.view, {}) /\ Covers(job.view, job.done, deleted) /\ db' = db
    BY <2>1 DEF Kept, Uncommitted
  <2>3. Extends(job.view, job.view, deleted')
    BY DEF Extends
  <2>4. Covers(job.view, job.done, deleted')
    BY <2>2, <2>3, CoversMore
  <2> QED
    BY <2>2, <2>4
<1>5. NothingDone'
  BY DEF Kept, NothingDone
<1>6. CacheIsCurrent'
  BY <1>1, <1>3 DEF Kept, CacheIsCurrent, Extends
<1> QED
  BY <1>2, <1>4, <1>5, <1>6 DEF Kept

(* Whatever the live process does, the archive loses no row, and a channel *)
(* its id only when it is deleted.                                         *)
LEMMA StoreExtends ==
  ASSUME Typed, Store
  PROVE  /\ UNCHANGED <<job, imported, deleted>>
         /\ db' = db \/ (~Locked /\ Extends(db, db', deleted'))
<1>1. UNCHANGED <<job, imported, deleted>>
  BY DEF Store, TakeUp, NewChannel, LookNick, NewNick, NameTaken, DrawSeq, Insert, ChannelGone,
     LockTimeout, Raise, history
<1>2. db' = db \/ (~Locked /\ Extends(db, db', deleted'))
  <2>1. CASE NewChannel
    BY <2>1 DEF NewChannel, Extends, Typed, DbTyped, Database
  <2>2. CASE NewNick
    BY <2>2 DEF NewNick, Extends, Typed, DbTyped, Database
  <2>3. CASE Insert
    <3> DEFINE new == {[cid |-> cur.cid, line |-> cur.line, seq |-> cur.seq, of |-> cur.chan]}
    <3>1. db' = [db EXCEPT !.rows = InsertOrIgnore(@, new)] /\ ~Locked
      BY <2>3 DEF Insert
    <3> HIDE DEF new
    <3>2. db'.rows = InsertOrIgnore(db.rows, new) /\ db'.chan = db.chan
      BY <3>1 DEF Typed, DbTyped, Database
    <3> QED
      BY <3>1, <3>2, Inserted DEF Extends
  <2>4. CASE TakeUp \/ LookNick \/ NameTaken \/ DrawSeq \/ ChannelGone \/ LockTimeout
    BY <2>4 DEF TakeUp, LookNick, NameTaken, DrawSeq, ChannelGone, LockTimeout, Raise
  <2> QED
    BY <2>1, <2>2, <2>3, <2>4 DEF Store
<1> QED
  BY <1>1, <1>2

LEMMA OthersExtend ==
  ASSUME Typed, People \/ Owner \/ Connection
  PROVE  /\ UNCHANGED <<job, imported>> /\ deleted \subseteq deleted'
         /\ db' = db \/ (~Locked /\ Extends(db, db', deleted'))
<1>1. UNCHANGED <<job, imported>> /\ deleted \subseteq deleted'
  BY DEF People, Owner, Connection, Say, DeleteChannel, AddChannel, Reconnect, Cut, Restart, history
<1>2. db' = db \/ (~Locked /\ Extends(db, db', deleted'))
  <2>1. ASSUME NEW c \in Names, DeleteChannel(c)
        PROVE  ~Locked /\ Extends(db, db', deleted')
    BY <2>1 DEF DeleteChannel, Extends, Typed, DbTyped, Database
  <2>2. ASSUME NEW c \in Names, AddChannel(c)
        PROVE  ~Locked /\ Extends(db, db', deleted')
    BY <2>2 DEF AddChannel, Extends, Typed, DbTyped, Database
  <2>3. CASE People \/ Connection
    BY <2>3 DEF People, Connection, Say, Reconnect, Cut, Restart
  <2> QED
    BY <2>1, <2>2, <2>3 DEF Owner
<1> QED
  BY <1>1, <1>2

LEMMA LiveKeeps ==
  ASSUME Typed, Kept, People \/ Owner \/ Connection \/ Store
  PROVE  Kept'
BY StoreExtends, OthersExtend, LiveStepKeeps

(* Without a transaction there is nothing to remember.                     *)
LEMMA NoTransactionKeeps ==
  ASSUME Covers(db, imported, deleted)', job'.pc \in {"none", "begin"},
         \A c \in Names : job'.ids.chan[c] = 0
  PROVE  Kept'
BY DEF Kept, Uncommitted, NothingDone, CacheIsCurrent, Locked

LEMMA ImportDocumentKeeps ==
  ASSUME Typed, Kept, ImportDocument
  PROVE  Kept'
<1>1. PICK doc \in Doc, known \in 0..MaxId, cid \in Id, rows \in SUBSET Row :
        DocumentEffect(doc, known, cid, rows)
  BY DocumentImported DEF Typed
<1> DEFINE view == job.view
           after == job'.view
<1>2. UNCHANGED <<db, imported, deleted>>
      /\ (job.pc = "write" \/ (job.pc = "read" /\ db = view))
  BY DEF ImportDocument, history
<1>3. Locked'
  BY <1>1 DEF DocumentEffect, Locked
<1>4. doc.chan \in Names /\ doc.lines \in [Lines -> Nat]
      /\ view.chan \in [Names -> 0..MaxId] /\ job.ids.chan \in [Names -> 0..MaxId]
      /\ job.done \in Bag
  BY DEF Doc, Typed, JobTyped, Job, Cache, Database
<1>5. Extends(db, view, {}) /\ Covers(view, job.done, deleted)
      /\ \A c \in Names \ deleted : job.ids.chan[c] # 0 => job.ids.chan[c] = view.chan[c]
  <2>1. CASE job.pc = "write"
    BY <2>1 DEF Kept, Uncommitted, CacheIsCurrent, Locked
  <2>2. CASE job.pc = "read"
    <3>1. db = view /\ job.done = Nothing /\ ~Locked
      BY <1>2, <2>2 DEF Kept, NothingDone, Locked
    <3> QED
      BY <3>1 DEF Extends, Covers, Nothing, Kept, CacheIsCurrent
  <2> QED
    BY <1>2, <2>1, <2>2
<1>6. \A c \in Names \ deleted : after.chan[c] = IF c = doc.chan THEN cid ELSE view.chan[c]
  <2>1. /\ known = IF job.ids.chan[doc.chan] # 0 THEN job.ids.chan[doc.chan]
                   ELSE view.chan[doc.chan]
        /\ known # 0 => cid = known
        /\ after.chan = IF known = 0 THEN [view.chan EXCEPT ![doc.chan] = cid]
                        ELSE view.chan
    BY <1>1 DEF DocumentEffect
  <2>2. ASSUME NEW c \in Names \ deleted
        PROVE  after.chan[c] = IF c = doc.chan THEN cid ELSE view.chan[c]
    <3> HIDE DEF view, after
    <3>1. CASE known = 0
      BY <1>4, <2>1, <3>1
    <3>2. CASE known # 0
      BY <1>5, <2>1, <3>2
    <3> QED
      BY <3>1, <3>2
  <2> QED
    BY <2>2
<1>7. Extends(view, after, {})
  <2>1. view.rows \subseteq after.rows
    <3>1. after.rows = InsertOrIgnore(view.rows, rows)
      BY <1>1 DEF DocumentEffect
    <3> HIDE DEF view, after
    <3> QED
      BY <3>1, Inserted
  <2>2. \A c \in Names : view.chan[c] # 0 => after.chan[c] = view.chan[c]
    BY <1>1, <1>4 DEF DocumentEffect
  <2> QED
    BY <2>1, <2>2 DEF Extends
<1>8. Extends(db, after, {})
  BY <1>5, <1>7 DEF Extends
<1>9. Covers(after, job'.done, deleted)
  <2>1. SUFFICES ASSUME NEW c \in Names \ deleted, NEW l \in Lines, NEW i \in Nat,
                        i < job'.done[c][l]
                 PROVE  Has(after, c, l, i)
    BY DEF Covers
  <2>2. Covers(after, job.done, deleted)
    <3>1. Extends(view, after, deleted)
      BY <1>7 DEF Extends
    <3> QED
      BY <1>5, <3>1, CoversMore
  <2>3. CASE i < job.done[c][l]
    BY <2>2, <2>3 DEF Covers
  <2>4. CASE ~(i < job.done[c][l])
    <3>1. job.done[c][l] \in Nat /\ doc.lines[l] \in Nat
      BY <1>4 DEF Bag
    <3>2. c = doc.chan
      BY <1>1, <1>4, <2>1, <2>4 DEF DocumentEffect, Bag
    <3>3. job'.done[c][l] = Max({job.done[c][l], doc.lines[l]})
      <4>1. job'.done = [job.done EXCEPT ![doc.chan] =
                           [k \in Lines |-> Max({@[k], doc.lines[k]})]]
        BY <1>1 DEF DocumentEffect
      <4>2. job.done \in [Names -> [Lines -> Nat]]
        BY <1>4 DEF Bag
      <4> QED
        BY <1>4, <3>2, <4>1, <4>2
    <3>4. i < doc.lines[l]
      BY <2>1, <2>4, <3>1, <3>3, MaxOfTwo
    <3>5. PICK r \in rows : r.cid = cid /\ r.line = l /\ r.seq = i
      <4>1. \A k \in Lines, j \in Nat : j < doc.lines[k] =>
              \E r \in rows : r.cid = cid /\ r.line = k /\ r.seq = j
        BY <1>1 DEF DocumentEffect
      <4> HIDE DEF view, after
      <4> QED
        BY <3>4, <4>1
    <3>6. \E o \in after.rows : o.cid = cid /\ o.line = l /\ o.seq = i
      <4>1. \E o \in InsertOrIgnore(view.rows, rows) : o.cid = r.cid /\ o.line = r.line /\ o.seq = r.seq
        BY Inserted
      <4> QED
        BY <1>1, <3>5, <4>1 DEF DocumentEffect
    <3>7. after.chan[c] = cid /\ cid # 0
      BY <1>6, <3>2 DEF Id
    <3> QED
      BY <3>6, <3>7 DEF Has
  <2> QED
    BY <2>3, <2>4
<1>10. Covers(db, imported, deleted)'
  BY <1>2 DEF Kept
<1>11. Uncommitted'
  BY <1>2, <1>8, <1>9 DEF Uncommitted
<1>12. NothingDone'
  BY <1>1 DEF NothingDone, DocumentEffect
<1>13. CacheIsCurrent'
  <2>1. \A c \in Names : job'.ids.chan[c] = IF c = doc.chan THEN cid ELSE job.ids.chan[c]
    BY <1>1, <1>4 DEF DocumentEffect
  <2>2. \A c \in Names \ deleted : job'.ids.chan[c] # 0 => job'.ids.chan[c] = after.chan[c]
    BY <1>5, <1>6, <2>1
  <2> QED
    BY <1>2, <1>3, <2>2 DEF CacheIsCurrent
<1> QED
  BY <1>10, <1>11, <1>12, <1>13 DEF Kept

LEMMA ImportEndsKeeps ==
  ASSUME Typed, Kept, ImportEnds
  PROVE  Kept'
<1>1. Locked /\ ~Locked' /\ job'.pc \in {"none", "begin"} /\ UNCHANGED deleted
      /\ \A c \in Names : job'.ids.chan[c] \in {0, job.ids.chan[c]}
  <2>1. CASE job.docs = <<>>
    BY <2>1 DEF ImportEnds, Locked, NoJob, NoIds
  <2>2. CASE job.docs # <<>>
    BY <2>2 DEF ImportEnds, Locked, Typed, JobTyped, Job
  <2> QED
    BY <2>1, <2>2
<1>2. Extends(db, job.view, deleted) /\ Covers(job.view, job.done, deleted)
  BY <1>1 DEF Kept, Uncommitted, Extends
<1>3. Covers(job.view, imported, deleted)
  BY <1>2, CoversMore DEF Kept
<1>4. Covers(db, imported, deleted)'
  <2>1. CASE job.dry
    BY <1>1, <2>1 DEF ImportEnds, Kept
  <2>2. CASE ~job.dry
    <3>1. SUFFICES ASSUME NEW c \in Names \ deleted, NEW l \in Lines, NEW i \in Nat,
                          i < imported'[c][l]
                   PROVE  Has(job.view, c, l, i)
      BY <1>1, <2>2 DEF Covers, ImportEnds
    <3>2. imported[c][l] \in Nat /\ job.done[c][l] \in Nat
      BY DEF Typed, GhostsTyped, JobTyped, Job, Bag
    <3>3. imported'[c][l] = Max({imported[c][l], job.done[c][l]})
      BY <2>2 DEF ImportEnds
    <3>4. i < imported[c][l] \/ i < job.done[c][l]
      BY <3>1, <3>2, <3>3, MaxOfTwo
    <3> QED
      BY <1>2, <1>3, <3>4 DEF Covers
  <2> QED
    BY <2>1, <2>2
<1>5. \A c \in Names \ deleted : job'.ids.chan[c] # 0 => job'.ids.chan[c] = db'.chan[c]
  <2>1. CASE job.dry
    <3>1. job.docs = <<>>
      BY <2>1 DEF ImportEnds, Typed, JobTyped
    <3> QED
      BY <3>1 DEF ImportEnds, NoJob, NoIds
  <2>2. CASE ~job.dry
    BY <1>1, <2>2 DEF ImportEnds, Kept, CacheIsCurrent
  <2> QED
    BY <2>1, <2>2
<1> QED
  BY <1>1, <1>4, <1>5 DEF Kept, Uncommitted, NothingDone, CacheIsCurrent

LEMMA ImportKeeps ==
  ASSUME Typed, Kept, Import
  PROVE  Kept'
<1>1. CASE StartImport
  <2>1. job'.pc = "begin" /\ job'.ids = NoIds /\ UNCHANGED <<db, imported, deleted>>
    BY <1>1 DEF StartImport, NoJob
  <2> QED
    BY <2>1, NoTransactionKeeps DEF Kept, NoIds
<1>2. CASE ReadSnapshot
  <2>1. job' = [job EXCEPT !.pc = "read", !.view = db, !.done = Nothing]
        /\ job.pc = "begin" /\ UNCHANGED <<db, imported, deleted>>
    BY <1>2 DEF ReadSnapshot, history
  <2>2. job'.pc = "read" /\ job'.done = Nothing /\ job'.ids = job.ids
    BY <2>1 DEF Typed, JobTyped, Job
  <2> QED
    BY <2>1, <2>2 DEF Kept, Uncommitted, NothingDone, CacheIsCurrent, Locked
<1>3. CASE ImportDocument
  BY <1>3, ImportDocumentKeeps
<1>4. CASE ImportEnds
  BY <1>4, ImportEndsKeeps
<1>5. CASE ImportRefused \/ ImportFails
  <2>1. job' = NoJob /\ UNCHANGED <<db, imported, deleted>>
    BY <1>5 DEF ImportRefused, ImportFails, history
  <2> QED
    BY <2>1, NoTransactionKeeps DEF Kept, NoJob, NoIds
<1> QED
  BY <1>1, <1>2, <1>3, <1>4, <1>5 DEF Import

LEMMA FirstNumbers ==
  ASSUME NEW n \in Nat
  PROVE  IsFiniteSet(0..(n - 1)) /\ Cardinality(0..(n - 1)) = n
<1>1. 0 \in Int /\ n - 1 \in Int
  OBVIOUS
<1>2. IsFiniteSet(0..(n - 1))
      /\ Cardinality(0..(n - 1)) = IF 0 > n - 1 THEN 0 ELSE n - 1 - 0 + 1
  BY <1>1, FS_Interval
<1> QED
  BY <1>2

(* A line that has the numbers below n has n rows at least.                *)
LEMMA AsManyRows ==
  ASSUME NEW d, IsFiniteSet(d.rows), NEW c, NEW l, NEW n \in Nat,
         \A i \in Nat : i < n => Has(d, c, l, i)
  PROVE  n <= Cardinality(Numbered(d, d.chan[c], l))
<1> DEFINE S == 0..(n - 1)
           T == Numbered(d, d.chan[c], l)
           row == [i \in S |-> CHOOSE r \in T : r.seq = i]
<1>1. IsFiniteSet(T)
  <2>1. T \subseteq d.rows
    BY DEF Numbered
  <2> QED
    BY <2>1, FS_Subset
<1>2. \A i \in S : row[i] \in T /\ row[i].seq = i
  <2>1. ASSUME NEW i \in S
        PROVE  \E r \in T : r.seq = i
    BY DEF Has, Numbered
  <2> QED
    BY <2>1
<1>3. row \in Injection(S, T)
  <2>1. row \in [S -> T]
    BY <1>2
  <2> HIDE DEF S, T, row
  <2> QED
    BY <1>2, <2>1 DEF Injection, IsInjective
<1>4. Cardinality(S) <= Cardinality(T)
  BY <1>1, <1>3, FS_Injection
<1>5. Cardinality(S) = n
  BY FirstNumbers
<1> QED
  BY <1>4, <1>5

(* Every occurrence of an imported line has a row of its own.              *)
LEMMA CoveredIsStored ==
  ASSUME Typed, Kept
  PROVE  ImportedIsStored
<1>1. SUFFICES ASSUME NEW c \in Names \ deleted, NEW l \in Lines
               PROVE  imported[c][l] <= Stored(c, l)
  BY DEF ImportedIsStored
<1>2. imported[c][l] \in Nat /\ IsFiniteSet(db.rows)
  BY DEF Typed, GhostsTyped, DbTyped, Bag
<1>3. \A i \in Nat : i < imported[c][l] => Has(db, c, l, i)
  BY DEF Kept, Covers
<1>4. imported[c][l] <= Cardinality(Numbered(db, db.chan[c], l))
  BY <1>2, <1>3, AsManyRows
<1> QED
  BY <1>4 DEF Stored, Numbered

(* The inductive invariant.                                                *)
THEOREM ArchiveInvariant == Spec => []IInv
<1>1. Init => IInv
  BY TypedInit, KeptInit DEF IInv
<1>2. IInv /\ [Next]_vars => IInv'
  <2>1. SUFFICES ASSUME Typed, Kept, [Next]_vars
                 PROVE  Typed' /\ Kept'
    BY DEF IInv
  <2>2. CASE UNCHANGED vars
    <3>1. Typed' /\ UNCHANGED <<job, imported, deleted, db>>
      BY <2>1, <2>2, TypedStep DEF vars, history
    <3> QED
      BY <2>1, <3>1, LiveStepKeeps
  <2>3. CASE Next
    BY <2>1, <2>3, LiveKeeps, ImportKeeps, TypedStep DEF Next
  <2> QED
    BY <2>1, <2>2, <2>3
<1> QED
  BY <1>1, <1>2, PTL DEF Spec

(* A log that was imported is in the archive as often as it says: no line  *)
(* stored live, no later import and no other number drawn for it takes a   *)
(* row of it away (db.py:486, INSERT OR IGNORE; backfill.py:323).          *)
THEOREM ImportedStays == Spec => []ImportedIsStored
<1>1. IInv => ImportedIsStored
  BY CoveredIsStored DEF IInv
<1> QED
  BY <1>1, ArchiveInvariant, PTL

=============================================================================
