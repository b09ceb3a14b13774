------------------------- MODULE StorageCountProofs -------------------------
(***************************************************************************)
(* Proofs about Storage: how often the archive has a line, once the live   *)
(* process and the imports have numbered it, each in its own way.          *)
(***************************************************************************)
EXTENDS StorageProofs, WellFoundedInduction

USE StorageAssumption

-----------------------------------------------------------------------------
(* The inductive invariant, first part: an id stays that of one channel.   *)

(* The channels of which the id never becomes that of another one: all of  *)
(* them, until the first is deleted; then the ones that were there at      *)
(* first, since SQLite gives the id of the last channel again.             *)
Settled(gone) == IF gone = {} THEN Names ELSE Configured \ gone

(* What is filed under cid is filed under a settled channel only as n.     *)
Points(d, gone, cid, n) == cid # 0 => \A c \in Settled(gone) : cid = d.chan[c] <=> n = c

UniqueIds(d) == \A c, e \in Names : d.chan[c] = d.chan[e] => c = e \/ d.chan[c] = 0

Keyed(rows) ==
  \A r, o \in rows : r.cid = o.cid /\ r.line = o.line /\ r.seq = o.seq => r = o

Sound(d, gone) ==
  /\ UniqueIds(d) /\ Keyed(d.rows)
  /\ \A r \in d.rows : Points(d, gone, r.cid, r.of)

(* What an import reads.                                                   *)
Seen == IF Locked THEN job.view ELSE db

Named == {"nick", "newNick", "seq", "insert"}

Identity ==
  /\ Sound(db, deleted) /\ (Locked => Sound(job.view, deleted))
  /\ \A c \in Configured \ deleted : db.chan[c] # 0
  /\ \A c \in Names : Points(db, deleted, ids.chan[c], c)
  /\ \A c \in Names : Points(Seen, deleted, job.ids.chan[c], c)
  /\ pc \in Named => Points(db, deleted, cur.cid, cur.chan)

(* Second part: the rows an import has made are lines its documents have.  *)
NewIsDone ==
  Locked => \A r \in job.view.rows \ db.rows :
    /\ \A o \in db.rows : <<o.cid, o.line, o.seq>> # <<r.cid, r.line, r.seq>>
    /\ r.seq < job.done[r.of][r.line]

(* Third part: the numbers of a line.                                      *)

(* The lines of which no number was lost.                                  *)
Firm == {p \in Names \X Lines : p[1] \in Settled(deleted) /\ p \notin gaps}

(* Their rows are numbered without a gap.                                  *)
Contiguous(d, firm) ==
  \A r \in d.rows : <<r.of, r.line>> \in firm =>
    \A i \in Nat : i < r.seq => Has(d, r.of, r.line, i)

(* A number was drawn and the row is not inserted yet.                     *)
InHand(c, l) == pc = "insert" /\ cur.chan = c /\ cur.line = l

NextNumber(c, l) == ids.seq[<<db.chan[c], l>>]

(* What was drawn is there but for the number in hand; what was taken was  *)
(* drawn, by this process or, of messages, by a former one.                *)
Follow(c, l) ==
  /\ InHand(c, l) => NextNumber(c, l) = cur.seq + 1
  /\ \A i \in Nat : i < NextNumber(c, l) => Has(db, c, l, i) \/ (InHand(c, l) /\ i = cur.seq)
  /\ (l \in Events => restarts = 0) =>
       taken[c][l] <= IF InHand(c, l) THEN cur.seq
                      ELSE IF NextNumber(c, l) # 0 THEN NextNumber(c, l)
                      ELSE IF l \in Events THEN 0
                      ELSE Stored(c, l)

NumbersFollow ==
  /\ Contiguous(db, Firm) /\ (Locked => Contiguous(job.view, Firm))
  /\ \A c \in Names, l \in Lines : <<c, l>> \in Firm /\ db.chan[c] # 0 => Follow(c, l)

(* Nothing is numbered or taken of a channel before it has an id.          *)
NewIsUnheard ==
  deleted = {} =>
    /\ \A k \in Id, l \in Lines : ids.seq[<<k, l>>] # 0 => HasChannel(db, k)
    /\ \A c \in Names, l \in Lines : db.chan[c] = 0 => taken[c][l] = 0

(* Fourth part: what was said and is neither in the inbox nor in hand.     *)
Heard(c, l) == said[c][l] - Pending(c, l)

RowsHeard(rows) == \A r \in rows : r.seq < Heard(r.of, r.line)

DocumentsHeard ==
  \A i \in DOMAIN job.docs, l \in Lines : job.docs[i].lines[l] <= Heard(job.docs[i].chan, l)

(* No number is above what was heard, wherever it is from.                 *)
NoneAhead ==
  ~overtook /\ deleted = {} =>
    /\ \A c \in Names, l \in Lines : Heard(c, l) >= 0
    /\ RowsHeard(db.rows) /\ (Locked => RowsHeard(job.view.rows)) /\ DocumentsHeard
    /\ \A c \in Names, l \in Lines : InHand(c, l) => cur.seq <= Heard(c, l)
    /\ \A c \in Names, l \in Lines : db.chan[c] # 0 =>
         NextNumber(c, l) <= Heard(c, l) + (IF InHand(c, l) THEN 1 ELSE 0)

-----------------------------------------------------------------------------
(* Identity is kept.                                                       *)

LEMMA PointsOn ==
  ASSUME NEW d, NEW e, NEW gone, NEW more, gone \subseteq more, NEW cid, NEW n \in Names,
         UniqueIds(e), \A c \in Names \ more : d.chan[c] # 0 => e.chan[c] = d.chan[c],
         \A c \in Configured \ gone : d.chan[c] # 0, Points(d, gone, cid, n)
  PROVE  Points(e, more, cid, n)
<1> SUFFICES ASSUME cid # 0, NEW c \in Settled(more)
             PROVE  cid = e.chan[c] <=> n = c
  BY DEF Points
<1>1. CASE more = {}
  <2>1. gone = {} /\ c \in Names
    BY <1>1 DEF Settled
  <2>2. d.chan[n] = cid
    BY <2>1 DEF Points, Settled
  <2>3. e.chan[n] = cid
    BY <1>1, <2>2
  <2> QED
    BY <2>1, <2>3 DEF UniqueIds
<1>2. CASE more # {}
  <2>1. c \in Configured \ more /\ c \in Settled(gone) /\ c \in Names
    BY <1>2 DEF Settled
  <2>2. e.chan[c] = d.chan[c]
    BY <2>1
  <2> QED
    BY <2>1, <2>2 DEF Points
<1> QED
  BY <1>1, <1>2

(* A step of the live process: the archive grows, and what is new is right. *)
LEMMA LiveKeepsIdentity ==
  ASSUME Typed, Kept, Identity, job' = job, deleted \subseteq deleted',
         db' = db \/ ~Locked, Extends(db, db', deleted'),
         UniqueIds(db'), Keyed(db'.rows),
         \A r \in db'.rows : r \in db.rows \/ Points(db', deleted', r.cid, r.of),
         \A c \in Names : \/ ids'.chan[c] \in {0, ids.chan[c]}
                          \/ Points(db', deleted', ids'.chan[c], c),
         pc' \in Named => \/ pc \in Named /\ cur'.cid = cur.cid /\ cur'.chan = cur.chan
                          \/ Points(db', deleted', cur'.cid, cur'.chan)
  PROVE  Identity'
<1>1. \A c \in Configured \ deleted : db.chan[c] # 0
  BY DEF Identity
<1>2. \A c \in Names \ deleted' : db.chan[c] # 0 => db'.chan[c] = db.chan[c]
  BY DEF Extends
<1>3. ASSUME NEW cid, NEW n \in Names, Points(db, deleted, cid, n)
      PROVE  Points(db', deleted', cid, n)
  BY <1>1, <1>2, <1>3, PointsOn
<1>4. \A c \in (Configured \ deleted)' : db'.chan[c] # 0
  BY <1>1, <1>2
<1>5. Sound(db', deleted')
  <2>1. ASSUME NEW r \in db'.rows
        PROVE  Points(db', deleted', r.cid, r.of)
    <3>1. CASE r \in db.rows
      <4>1. Points(db, deleted, r.cid, r.of) /\ r.of \in Names
        BY <3>1 DEF Identity, Sound, Typed, DbTyped, Database, Row
      <4> QED
        BY <4>1, <1>3
    <3> QED
      BY <3>1
  <2> QED
    BY <2>1 DEF Sound
<1>6. Locked' <=> Locked
  BY DEF Locked
<1>7. ASSUME Locked
      PROVE  /\ Sound(job.view, deleted')
             /\ \A cid, n : n \in Names /\ Points(job.view, deleted, cid, n)
                  => Points(job.view, deleted', cid, n)
  <2>1. Sound(job.view, deleted) /\ \A c \in Configured \ deleted : job.view.chan[c] # 0
    BY <1>1, <1>7 DEF Identity, Kept, Uncommitted, Extends
  <2>2. ASSUME NEW cid, NEW n \in Names, Points(job.view, deleted, cid, n)
        PROVE  Points(job.view, deleted', cid, n)
    <3>1. UniqueIds(job.view)
      BY <2>1 DEF Sound
    <3> QED
      BY <2>1, <2>2, <3>1, PointsOn
  <2>3. \A r \in job.view.rows : r.of \in Names
    BY DEF Typed, JobTyped, Job, Database, Row
  <2> QED
    BY <2>1, <2>2, <2>3 DEF Sound
<1>8. ASSUME NEW c \in Names
      PROVE  Points(db', deleted', ids'.chan[c], c)
  <2>1. Points(db, deleted, ids.chan[c], c)
    BY DEF Identity
  <2>2. Points(db', deleted', ids.chan[c], c)
    BY <1>3, <2>1
  <2>3. Points(db', deleted', 0, c)
    BY DEF Points
  <2> QED
    BY <2>2, <2>3
<1>9. ASSUME NEW c \in Names
      PROVE  Points(Seen, deleted, job.ids.chan[c], c)'
  <2>1. Points(Seen, deleted, job.ids.chan[c], c)
    BY DEF Identity
  <2>2. CASE Locked
    BY <1>6, <1>7, <2>1, <2>2 DEF Seen
  <2>3. CASE ~Locked
    BY <1>3, <1>6, <2>1, <2>3 DEF Seen
  <2> QED
    BY <2>2, <2>3
<1>10. (pc \in Named => Points(db, deleted, cur.cid, cur.chan))'
  <2>1. SUFFICES ASSUME pc' \in Named, pc \in Named
                 PROVE  Points(db', deleted', cur.cid, cur.chan)
    OBVIOUS
  <2>2. cur.chan \in Names /\ Points(db, deleted, cur.cid, cur.chan)
    BY <2>1 DEF Identity, Typed, LoggerTyped, Named
  <2> QED
    BY <1>3, <2>2
<1> QED
  BY <1>4, <1>5, <1>6, <1>7, <1>8, <1>9, <1>10 DEF Identity

LEMMA Largest ==
  ASSUME NEW S \in SUBSET (0..MaxId), S # {}
  PROVE  \E x \in S : \A y \in S : x >= y
<1> DEFINE T == {x \in Nat : \A y \in S : x >= y}
<1>1. MaxId \in T /\ T \in SUBSET Nat
  OBVIOUS
<1>2. PICK x \in T : \A y \in T : ~(y < x)
  <2> HIDE DEF T
  <2>1. PICK x \in T : \A y \in T : ~(<<y, x>> \in OpToRel(<, Nat))
    BY <1>1, NatLessThanWellFounded, WFMin
  <2> QED
    BY <1>1, <2>1 DEF OpToRel
<1>3. CASE x \in S
  BY <1>3
<1>4. CASE x \notin S
  <2>1. \A y \in S : x >= y /\ y # x /\ y \in Nat
    BY <1>4
  <2>2. x # 0
    <3>1. PICK y \in S : TRUE
      OBVIOUS
    <3> QED
      BY <2>1, <3>1
  <2>3. x - 1 \in T
    BY <2>1, <2>2
  <2> QED
    BY <1>2, <2>3
<1> QED
  BY <1>3, <1>4

LEMMA NewIdIsNew ==
  ASSUME NEW d \in Database, NEW n \in Names
  PROVE  NewId(d) \in Nat \ {0} /\ \A c \in Names : d.chan[c] < NewId(d)
<1> DEFINE S == {d.chan[c] : c \in Names}
<1>1. S \in SUBSET (0..MaxId) /\ S # {}
  BY DEF Database
<1>2. PICK x \in S : \A y \in S : x >= y
  <2> HIDE DEF S
  <2> QED
    BY <1>1, Largest
<1>3. Max(S) \in S /\ \A y \in S : Max(S) >= y
  <2> HIDE DEF S
  <2> QED
    BY <1>2 DEF Max
<1>4. \A c \in Names : d.chan[c] \in S
  OBVIOUS
<1>5. NewId(d) = Max(S) + 1
  BY DEF NewId
<1> HIDE DEF S
<1>6. \A y \in S : y \in Nat
  <2>1. MaxId \in Nat
    OBVIOUS
  <2> QED
    BY ONLY <1>1, <2>1
<1>7. PICK m : m = Max(S)
  OBVIOUS
<1>8. m \in Nat /\ \A c \in Names : d.chan[c] <= m /\ d.chan[c] \in Nat
  <2>1. m \in S /\ \A y \in S : m >= y
    BY <1>3, <1>7
  <2> QED
    BY ONLY <1>4, <1>6, <2>1
<1> QED
  BY <1>5, <1>7, <1>8

LEMMA ChannelAdded ==
  ASSUME NEW d \in Database, NEW e, NEW gone, NEW n \in Names, d.chan[n] = 0,
         e.chan = [d.chan EXCEPT ![n] = NewId(d)], UniqueIds(d)
  PROVE  /\ UniqueIds(e) /\ Points(e, gone, NewId(d), n)
         /\ \A c \in Names : d.chan[c] # 0 => e.chan[c] = d.chan[c]
<1>1. NewId(d) \in Nat \ {0} /\ \A c \in Names : d.chan[c] < NewId(d) /\ d.chan[c] \in Nat
  BY NewIdIsNew DEF Database
<1>2. \A c \in Names : e.chan[c] = IF c = n THEN NewId(d) ELSE d.chan[c]
  BY DEF Database
<1>3. Settled(gone) \subseteq Names
  BY DEF Settled
<1> QED
  BY <1>1, <1>2, <1>3 DEF UniqueIds, Points

(* The tables stay, but for the nicks.                                     *)
LEMMA ReadingKeepsIdentity ==
  ASSUME Typed, Kept, Identity, UNCHANGED <<job, deleted>>, db' = db \/ ~Locked,
         db'.chan = db.chan, db'.rows = db.rows,
         \A c \in Names : \/ ids'.chan[c] \in {0, ids.chan[c]}
                          \/ Points(db, deleted, ids'.chan[c], c),
         pc' \in Named => \/ pc \in Named /\ cur'.cid = cur.cid /\ cur'.chan = cur.chan
                          \/ Points(db, deleted, cur'.cid, cur'.chan)
  PROVE  Identity'
<1>1. UniqueIds(db') /\ Keyed(db'.rows) /\ Extends(db, db', deleted')
  BY DEF Identity, Sound, UniqueIds, Extends
<1>2. \A cid, n : Points(db, deleted, cid, n) => Points(db', deleted', cid, n)
  BY DEF Points
<1> QED
  BY <1>1, <1>2, LiveKeepsIdentity

LEMMA OwnId ==
  ASSUME NEW d, UniqueIds(d), NEW gone, NEW n \in Names
  PROVE  Points(d, gone, d.chan[n], n)
BY DEF Points, UniqueIds, Settled

LEMMA TakeUpIdentity ==
  ASSUME Typed, Kept, Identity, TakeUp
  PROVE  Identity'
<1> DEFINE m == Head(inbox)
           known == IF ids.chan[m.chan] # 0 THEN ids.chan[m.chan] ELSE db.chan[m.chan]
<1>1. m.chan \in Names
  BY InboxOps DEF TakeUp, Typed, LinkTyped, Message
<1>2. Points(db, deleted, known, m.chan)
  <2>1. Points(db, deleted, ids.chan[m.chan], m.chan) /\ UniqueIds(db)
    BY <1>1 DEF Identity, Sound
  <2> HIDE DEF m
  <2> QED
    BY <1>1, <2>1, OwnId
<1>3. ids' = [ids EXCEPT !.chan[m.chan] = known]
      /\ cur' = [chan |-> m.chan, line |-> m.line, cid |-> known, seq |-> 0]
      /\ UNCHANGED <<db, job, deleted>>
  BY DEF TakeUp
<1> HIDE DEF m, known
<1>4. \A c \in Names : ids'.chan[c] = IF c = m.chan THEN known ELSE ids.chan[c]
  BY <1>1, <1>3 DEF Typed, LoggerTyped, Cache
<1>5. cur'.cid = known /\ cur'.chan = m.chan
  BY <1>3
<1> QED
  BY <1>2, <1>3, <1>4, <1>5, ReadingKeepsIdentity

LEMMA ReadersKeepIdentity ==
  ASSUME Typed, Kept, Identity, \/ People \/ Connection
                                \/ LookNick \/ NewNick \/ NameTaken \/ DrawSeq
                                \/ ChannelGone \/ LockTimeout
  PROVE  Identity'
<1>1. UNCHANGED <<job, deleted>>
  BY DEF People, Connection, Say, Reconnect, Cut, Restart, LookNick, NewNick, NameTaken, DrawSeq,
         ChannelGone, LockTimeout, Raise, history
<1>2. (db' = db \/ ~Locked) /\ db'.chan = db.chan /\ db'.rows = db.rows
  BY DEF People, Connection, Say, Reconnect, Cut, Restart, LookNick, NewNick, NameTaken, DrawSeq,
         ChannelGone, LockTimeout, Raise, Typed, DbTyped, Database
<1>3. \A c \in Names : ids'.chan[c] \in {0, ids.chan[c]}
  <2>1. CASE People \/ NameTaken \/ ChannelGone \/ LockTimeout \/ Reconnect \/ Cut
    <3>1. UNCHANGED ids
      BY <2>1 DEF People, Say, Reconnect, Cut, NameTaken, ChannelGone, LockTimeout, Raise, logger
    <3> QED
      BY <3>1
  <2>5. CASE Restart
    BY <2>5 DEF Restart, NoIds
  <2>2. CASE LookNick
    BY <2>2 DEF LookNick, Typed, LoggerTyped, Cache
  <2>3. CASE NewNick
    BY <2>3 DEF NewNick, Typed, LoggerTyped, Cache
  <2>4. CASE DrawSeq
    BY <2>4 DEF DrawSeq, Typed, LoggerTyped, Cache
  <2> QED
    BY <2>1, <2>2, <2>3, <2>4, <2>5 DEF Connection
<1>4. pc' \in Named => pc \in Named /\ cur'.cid = cur.cid /\ cur'.chan = cur.chan
  <2>1. CASE People \/ Reconnect \/ Cut
    BY <2>1 DEF People, Say, Reconnect, Cut, logger
  <2>2. CASE Restart \/ NameTaken \/ ChannelGone \/ LockTimeout
    BY <2>2 DEF Restart, NameTaken, ChannelGone, LockTimeout, Raise, Named
  <2>3. CASE LookNick
    BY <2>3 DEF LookNick, Named
  <2>4. CASE NewNick
    BY <2>4 DEF NewNick, Named
  <2>5. CASE DrawSeq
    BY <2>5 DEF DrawSeq, Named, Typed, LoggerTyped
  <2> QED
    BY <2>1, <2>2, <2>3, <2>4, <2>5 DEF Connection
<1> QED
  BY <1>1, <1>2, <1>3, <1>4, ReadingKeepsIdentity

(* A channel more.                                                         *)
LEMMA AddingKeepsIdentity ==
  ASSUME Typed, Kept, Identity, UNCHANGED <<job, deleted>>, ~Locked,
         NEW n \in Names, db.chan[n] = 0, db' = [db EXCEPT !.chan[n] = NewId(db)],
         \A c \in Names : ids'.chan[c] = ids.chan[c] \/ (c = n /\ ids'.chan[c] = NewId(db)),
         pc' \in Named => \/ pc \in Named /\ cur'.cid = cur.cid /\ cur'.chan = cur.chan
                          \/ cur'.cid = NewId(db) /\ cur'.chan = n
  PROVE  Identity'
<1>1. db'.chan = [db.chan EXCEPT ![n] = NewId(db)] /\ db'.rows = db.rows /\ db \in Database
  BY DEF Typed, DbTyped, Database
<1>2. UniqueIds(db) /\ Keyed(db.rows)
  BY DEF Identity, Sound
<1>3. /\ UniqueIds(db') /\ Points(db', deleted', NewId(db), n)
      /\ \A c \in Names : db.chan[c] # 0 => db'.chan[c] = db.chan[c]
  <2>1. PICK d, e, gone : d = db /\ e = db' /\ gone = deleted'
    OBVIOUS
  <2>2. /\ d \in Database /\ d.chan[n] = 0 /\ UniqueIds(d)
        /\ e.chan = [d.chan EXCEPT ![n] = NewId(d)]
    BY <1>1, <1>2, <2>1
  <2>3. /\ UniqueIds(e) /\ Points(e, gone, NewId(d), n)
        /\ \A c \in Names : d.chan[c] # 0 => e.chan[c] = d.chan[c]
    BY <2>2, ChannelAdded
  <2> QED
    BY <2>1, <2>3
<1>4. Extends(db, db', deleted')
  BY <1>1, <1>3 DEF Extends
<1> QED
  BY <1>1, <1>2, <1>3, <1>4, LiveKeepsIdentity

LEMMA AddChannelIdentity ==
  ASSUME Typed, Kept, Identity, NEW c \in Names, AddChannel(c)
  PROVE  Identity'
<1>1. UNCHANGED <<job, deleted, ids, pc, cur>> /\ ~Locked /\ db.chan[c] = 0
      /\ db' = [db EXCEPT !.chan[c] = NewId(db)]
  BY DEF AddChannel, logger
<1> QED
  BY <1>1, AddingKeepsIdentity

LEMMA NewChannelIdentity ==
  ASSUME Typed, Kept, Identity, NewChannel
  PROVE  Identity'
<1>1. /\ UNCHANGED <<job, deleted>> /\ ~Locked /\ db.chan[cur.chan] = 0
      /\ db' = [db EXCEPT !.chan[cur.chan] = NewId(db)]
      /\ ids' = [ids EXCEPT !.chan[cur.chan] = NewId(db)] /\ cur' = [cur EXCEPT !.cid = NewId(db)]
  BY DEF NewChannel
<1>2. cur.chan \in Names
  BY DEF NewChannel, Typed, LoggerTyped
<1>3. \A c \in Names : ids'.chan[c] = ids.chan[c] \/ (c = cur.chan /\ ids'.chan[c] = NewId(db))
  BY <1>1 DEF Typed, LoggerTyped, Cache
<1>4. cur'.cid = NewId(db) /\ cur'.chan = cur.chan
  BY <1>1 DEF Typed, LoggerTyped
<1> QED
  BY <1>1, <1>2, <1>3, <1>4, AddingKeepsIdentity

LEMMA DeleteChannelIdentity ==
  ASSUME Typed, Kept, Identity, NEW c \in Names, DeleteChannel(c)
  PROVE  Identity'
<1>1. UNCHANGED <<job, ids, pc, cur>> /\ ~Locked /\ deleted' = deleted \cup {c}
      /\ db' = [db EXCEPT !.chan[c] = 0]
  BY DEF DeleteChannel, logger
<1>2. db'.rows = db.rows /\ \A e \in Names : db'.chan[e] = IF e = c THEN 0 ELSE db.chan[e]
  BY <1>1 DEF Typed, DbTyped, Database
<1>3. UniqueIds(db') /\ Keyed(db'.rows) /\ Extends(db, db', deleted')
  BY <1>1, <1>2 DEF Identity, Sound, UniqueIds, Extends
<1> QED
  BY <1>1, <1>2, <1>3, LiveKeepsIdentity

LEMMA InsertedIsKeyed ==
  ASSUME NEW rows, Keyed(rows), NEW new, Keyed(new)
  PROVE  Keyed(InsertOrIgnore(rows, new))
BY DEF Keyed, InsertOrIgnore

(* What Insert does to the rows.                                           *)
TheRow == [cid |-> cur.cid, line |-> cur.line, seq |-> cur.seq, of |-> cur.chan]

LEMMA RowInserted ==
  ASSUME Typed, Insert
  PROVE  /\ db'.rows = InsertOrIgnore(db.rows, {TheRow}) /\ db'.chan = db.chan /\ ~Locked
         /\ pc = "insert" /\ pc' = "idle" /\ UNCHANGED <<ids, job, deleted, gaps, said, restarts>>
         /\ UNCHANGED <<inbox, imported, overtook>>
BY DEF Insert, Typed, DbTyped, Database, TheRow, link, history, counters

LEMMA InsertIdentity ==
  ASSUME Typed, Kept, Identity, Insert
  PROVE  Identity'
<1>1. /\ db'.rows = InsertOrIgnore(db.rows, {TheRow}) /\ db'.chan = db.chan /\ ~Locked
      /\ pc = "insert" /\ pc' = "idle" /\ UNCHANGED <<ids, job, deleted>>
  BY RowInserted
<1>2. Keyed(db'.rows)
  <2>1. Keyed(db.rows) /\ Keyed({TheRow})
    BY DEF Identity, Sound, Keyed
  <2> QED
    BY <1>1, <2>1, InsertedIsKeyed
<1>3. db.rows \subseteq db'.rows /\ \A r \in db'.rows : r \in db.rows \/ r = TheRow
  <2>1. /\ db.rows \subseteq InsertOrIgnore(db.rows, {TheRow})
        /\ InsertOrIgnore(db.rows, {TheRow}) \subseteq db.rows \cup {TheRow}
    BY Inserted
  <2> QED
    BY <1>1, <2>1
<1>4. Points(db', deleted', TheRow.cid, TheRow.of)
  <2>1. Points(db, deleted, cur.cid, cur.chan)
    BY <1>1 DEF Identity, Named
  <2> QED
    BY <1>1, <2>1 DEF TheRow, Points
<1>5. Extends(db, db', deleted') /\ UniqueIds(db')
  BY <1>1, <1>3 DEF Extends, UniqueIds, Identity, Sound
<1>6. \A r \in db'.rows : r \in db.rows \/ Points(db', deleted', r.cid, r.of)
  BY <1>3, <1>4
<1>7. pc' \notin Named
  BY <1>1 DEF Named
<1> QED
  BY <1>1, <1>2, <1>5, <1>6, <1>7, LiveKeepsIdentity

LEMMA LiveIdentity ==
  ASSUME Typed, Kept, Identity, People \/ Owner \/ Connection \/ Store
  PROVE  Identity'
BY TakeUpIdentity, ReadersKeepIdentity, AddChannelIdentity, NewChannelIdentity,
   DeleteChannelIdentity, InsertIdentity DEF Owner, Store

(* The tables an import makes.                                             *)
LEMMA DocumentIdentity ==
  ASSUME Typed, Kept, Identity, ImportDocument
  PROVE  Identity'
<1>1. PICK doc \in Doc, known \in 0..MaxId, cid \in Id, rows \in SUBSET Row :
        DocumentEffect(doc, known, cid, rows)
  BY DocumentImported DEF Typed
<1>2. /\ UNCHANGED <<db, deleted, ids, pc, cur>>
      /\ (job.pc = "write" \/ (job.pc = "read" /\ db = job.view))
  BY DEF ImportDocument, history, logger
<1>3. PICK d, e : d = job.view /\ e = job'.view
  OBVIOUS
<1>4. /\ d \in Database /\ e.rows = InsertOrIgnore(d.rows, rows) /\ doc.chan \in Names
      /\ known = IF job.ids.chan[doc.chan] # 0 THEN job.ids.chan[doc.chan] ELSE d.chan[doc.chan]
      /\ cid = IF known # 0 THEN known ELSE NewId(d)
      /\ e.chan = IF known = 0 THEN [d.chan EXCEPT ![doc.chan] = cid] ELSE d.chan
      /\ \A r \in rows : r.cid = cid /\ r.of = doc.chan /\ r.seq < doc.lines[r.line]
      /\ \A c \in Names : job'.ids.chan[c] = IF c = doc.chan THEN cid ELSE job.ids.chan[c]
      /\ Locked'
  BY <1>1, <1>3 DEF DocumentEffect, Typed, JobTyped, Job, Doc, Cache, Locked
<1>5. /\ Seen = d /\ Seen' = e /\ Sound(d, deleted)
      /\ \A c \in Configured \ deleted : d.chan[c] # 0
  <2>1. Seen = d
    BY <1>2, <1>3 DEF Seen, Locked
  <2>2. Sound(d, deleted)
    BY <1>2, <1>3 DEF Identity, Locked
  <2>3. \A c \in Configured \ deleted : db.chan[c] # 0 /\ d.chan[c] = db.chan[c]
    BY <1>2, <1>3 DEF Identity, Kept, Uncommitted, Locked, Extends
  <2> QED
    BY <1>3, <1>4, <2>1, <2>2, <2>3 DEF Seen
<1>6. /\ UniqueIds(e) /\ Points(e, deleted, cid, doc.chan)
      /\ \A c \in Names : d.chan[c] # 0 => e.chan[c] = d.chan[c]
  <2>1. CASE known = 0
    <3>1. e.chan = [d.chan EXCEPT ![doc.chan] = NewId(d)] /\ d.chan[doc.chan] = 0 /\ cid = NewId(d)
      BY <1>4, <2>1
    <3>2. UniqueIds(d) /\ d \in Database /\ doc.chan \in Names
      BY <1>4, <1>5 DEF Sound
    <3>3. /\ UniqueIds(e) /\ Points(e, deleted, NewId(d), doc.chan)
          /\ \A c \in Names : d.chan[c] # 0 => e.chan[c] = d.chan[c]
      BY ONLY <3>1, <3>2, ChannelAdded
    <3> QED
      BY <3>1, <3>3
  <2>2. CASE known # 0
    <3>1. e.chan = d.chan /\ cid = known /\ UniqueIds(d)
      BY <1>4, <1>5, <2>2 DEF Sound
    <3>2. Points(d, deleted, job.ids.chan[doc.chan], doc.chan)
      BY <1>4, <1>5 DEF Identity
    <3>3. Points(d, deleted, cid, doc.chan)
      BY <1>4, <3>1, <3>2, OwnId
    <3> QED
      BY <3>1, <3>3 DEF UniqueIds, Points
  <2> QED
    BY <2>1, <2>2
<1>7. ASSUME NEW i, NEW n \in Names, Points(d, deleted, i, n)
      PROVE  Points(e, deleted, i, n)
  BY <1>5, <1>6, <1>7, PointsOn
<1>8. Keyed(e.rows)
  <2>1. Keyed(rows)
    <3>1. SUFFICES ASSUME NEW r \in rows, NEW o \in rows,
                          r.cid = o.cid, r.line = o.line, r.seq = o.seq
                   PROVE  r = o
      BY DEF Keyed
    <3>2. r \in Row /\ o \in Row /\ r.of = o.of
      BY <1>4
    <3> QED
      BY <3>1, <3>2 DEF Row
  <2>2. Keyed(d.rows)
    BY <1>5 DEF Sound
  <2> QED
    BY <1>4, <2>1, <2>2, InsertedIsKeyed
<1>9. \A r \in e.rows : Points(e, deleted, r.cid, r.of)
  <2>1. ASSUME NEW r \in e.rows
        PROVE  Points(e, deleted, r.cid, r.of)
    <3>1. r \in d.rows \/ r \in rows
      <4>1. InsertOrIgnore(d.rows, rows) \subseteq d.rows \cup rows
        BY Inserted
      <4> QED
        BY <1>4, <4>1
    <3>2. CASE r \in d.rows
      <4>1. r.of \in Names /\ Points(d, deleted, r.cid, r.of)
        BY <1>4, <1>5, <3>2 DEF Sound, Database, Row
      <4> QED
        BY <1>7, <4>1
    <3>3. CASE r \in rows
      BY <1>4, <1>6, <3>3
    <3> QED
      BY <3>1, <3>2, <3>3
  <2> QED
    BY <2>1
<1>10. ASSUME NEW c \in Names
       PROVE  Points(e, deleted, job'.ids.chan[c], c)
  <2>1. Points(d, deleted, job.ids.chan[c], c)
    BY <1>5 DEF Identity
  <2> QED
    BY <1>4, <1>6, <1>7, <2>1
<1>11. Sound(e, deleted)
  BY <1>6, <1>8, <1>9 DEF Sound
<1> QED
  BY <1>2, <1>3, <1>5, <1>10, <1>11 DEF Identity

(* What ImportEnds does.                                                   *)
LEMMA Ended ==
  ASSUME Typed, ImportEnds
  PROVE  /\ Locked /\ ~Locked' /\ UNCHANGED <<deleted, ids, pc, cur, said, inbox, gaps, taken>>
         /\ UNCHANGED <<overtook, restarts>>
         /\ (db' = db /\ job' = NoJob) \/ db' = job.view
         /\ \A c \in Names : job'.ids.chan[c] \in {0, job.ids.chan[c]}
         /\ job'.docs = job.docs
<1>1. Locked /\ UNCHANGED <<deleted, ids, pc, cur, said, inbox, gaps, taken, overtook, restarts>>
  BY DEF ImportEnds, Locked, logger, link, ghosts, counters
<1>2. CASE job.docs = <<>>
  <2>1. job' = NoJob /\ (db' = db \/ db' = job.view)
    BY <1>2 DEF ImportEnds
  <2> QED
    BY <1>1, <1>2, <2>1 DEF Locked, NoJob, NoIds
<1>3. CASE job.docs # <<>>
  <2>1. job' = [job EXCEPT !.pc = "begin"] /\ job.perFile /\ ~job.dry /\ db' = job.view
    BY <1>3 DEF ImportEnds, Typed, JobTyped
  <2>2. job'.pc = "begin" /\ job'.ids = job.ids /\ job'.docs = job.docs
    BY <2>1 DEF Typed, JobTyped, Job
  <2> QED
    BY <1>1, <2>1, <2>2 DEF Locked
<1> QED
  BY <1>2, <1>3

LEMMA EndIdentity ==
  ASSUME Typed, Kept, Identity, ImportEnds
  PROVE  Identity'
<1>1. /\ Locked /\ ~Locked' /\ UNCHANGED <<deleted, ids, pc, cur>>
      /\ (db' = db /\ job' = NoJob) \/ db' = job.view
      /\ \A c \in Names : job'.ids.chan[c] \in {0, job.ids.chan[c]}
  BY Ended
<1>2. CASE db' = db /\ job' = NoJob
  <2>1. \A c \in Names : Points(Seen, deleted, job.ids.chan[c], c)'
    BY <1>2 DEF NoJob, NoIds, Points
  <2> QED
    BY <1>1, <1>2, <2>1 DEF Identity
<1>3. CASE db' = job.view
  <2>1. /\ Sound(job.view, deleted) /\ Extends(db, job.view, {}) /\ Seen = job.view /\ Seen' = db'
        /\ \A c \in Configured \ deleted : db.chan[c] # 0
    BY <1>1, <1>3 DEF Identity, Kept, Uncommitted, Seen
  <2>2. UniqueIds(job.view) /\ \A c \in Names : db.chan[c] # 0 => job.view.chan[c] = db.chan[c]
    BY <2>1 DEF Sound, Extends
  <2>3. ASSUME NEW i, NEW n \in Names, Points(db, deleted, i, n)
        PROVE  Points(job.view, deleted, i, n)
    BY <2>1, <2>2, <2>3, PointsOn
  <2>4. Sound(db, deleted)' /\ \A c \in (Configured \ deleted)' : db'.chan[c] # 0
    BY <1>1, <1>3, <2>1, <2>2
  <2>5. \A c \in Names : Points(db, deleted, ids.chan[c], c)'
    BY <1>1, <1>3, <2>3 DEF Identity
  <2>6. ASSUME NEW c \in Names
        PROVE  Points(Seen, deleted, job.ids.chan[c], c)'
    <3>1. Points(job.view, deleted, job.ids.chan[c], c)
      BY <2>1 DEF Identity
    <3>2. Points(job.view, deleted, 0, c)
      BY DEF Points
    <3> QED
      BY <1>1, <1>3, <2>1, <3>1, <3>2
  <2>7. (pc \in Named => Points(db, deleted, cur.cid, cur.chan))'
    <3>1. pc \in Named => cur.chan \in Names
      BY DEF Named, Typed, LoggerTyped
    <3> QED
      BY <1>1, <1>3, <2>3, <3>1 DEF Identity
  <2> QED
    BY <1>1, <2>4, <2>5, <2>6, <2>7 DEF Identity
<1> QED
  BY <1>1, <1>2, <1>3

(* The steps of an import that change nothing that is stored.              *)
LEMMA Prepared ==
  ASSUME Typed, StartImport \/ ReadSnapshot \/ ImportRefused \/ ImportFails
  PROVE  /\ UNCHANGED <<db, deleted, ids, pc, cur, said, inbox, gaps, taken, imported, restarts>>
         /\ ~Locked'
         /\ job' = NoJob \/ (~Locked /\ (job'.ids = job.ids \/ job'.ids = NoIds))
<1>1. UNCHANGED <<db, deleted, ids, pc, cur, said, inbox, gaps, taken, imported, restarts>>
  BY DEF StartImport, ReadSnapshot, ImportRefused, ImportFails, logger, link, ghosts, history, counters
<1>2. CASE StartImport
  BY <1>1, <1>2 DEF StartImport, Locked, NoJob
<1>3. CASE ReadSnapshot
  BY <1>1, <1>3 DEF ReadSnapshot, Locked, Typed, JobTyped, Job
<1>4. CASE ImportRefused \/ ImportFails
  BY <1>1, <1>4 DEF ImportRefused, ImportFails, Locked, NoJob
<1> QED
  BY <1>2, <1>3, <1>4

LEMMA PreparedIdentity ==
  ASSUME Typed, Identity, StartImport \/ ReadSnapshot \/ ImportRefused \/ ImportFails
  PROVE  Identity'
<1>1. /\ UNCHANGED <<db, deleted, ids, pc, cur>> /\ ~Locked'
      /\ job' = NoJob \/ (~Locked /\ (job'.ids = job.ids \/ job'.ids = NoIds))
  BY Prepared
<1>2. \A c \in Names : Points(db, deleted, job'.ids.chan[c], c)
  <2>1. \A c \in Names : Points(db, deleted, NoIds.chan[c], c)
    BY DEF NoIds, Points
  <2>2. CASE job'.ids = NoIds
    BY <2>1, <2>2
  <2>3. CASE job'.ids = job.ids /\ ~Locked
    BY <2>3 DEF Identity, Seen
  <2> QED
    BY <1>1, <2>2, <2>3 DEF NoJob
<1> QED
  BY <1>1, <1>2 DEF Identity, Seen

LEMMA IdentityInit ==
  ASSUME Init
  PROVE  Identity
<1>1. db.rows = {} /\ job = NoJob /\ ids = NoIds /\ pc = "idle" /\ deleted = {} /\ ~Locked
      /\ \A c \in Names : db.chan[c] # 0 <=> c \in Configured
  BY DEF Init, Locked, NoJob
<1>2. UniqueIds(db)
  BY DEF Init, UniqueIds
<1>3. \A c \in Names : NoIds.chan[c] = 0 /\ NoJob.ids.chan[c] = 0
  BY DEF NoIds, NoJob
<1> QED
  BY <1>1, <1>2, <1>3 DEF Identity, Sound, Keyed, Points, Named

LEMMA IdentityStep ==
  ASSUME Typed, Kept, Identity, [Next]_vars
  PROVE  Identity'
<1>1. CASE UNCHANGED vars
  BY <1>1 DEF vars, logger, Identity, Sound, Points, Settled, UniqueIds, Keyed, Seen, Locked, Named
<1>2. CASE Next
  BY <1>2, LiveIdentity, DocumentIdentity, EndIdentity, PreparedIdentity DEF Next, Import
<1> QED
  BY <1>1, <1>2

-----------------------------------------------------------------------------
(* Imports are idempotent.                                                 *)

LEMMA LiveLeavesImports ==
  ASSUME People \/ Owner \/ Connection \/ Store
  PROVE  job' = job /\ deleted \subseteq deleted' /\ (Locked => db' = db)
BY DEF People, Owner, Connection, Store, Say, DeleteChannel, AddChannel, Reconnect, Cut, Restart,
       TakeUp, NewChannel, LookNick, NewNick, NameTaken, DrawSeq, Insert, ChannelGone, LockTimeout, Raise

LEMMA DocumentIsDone ==
  ASSUME Typed, Kept, NewIsDone, ImportDocument
  PROVE  NewIsDone'
<1>1. PICK doc \in Doc, known \in 0..MaxId, cid \in Id, rows \in SUBSET Row :
        DocumentEffect(doc, known, cid, rows)
  BY DocumentImported DEF Typed
<1>2. UNCHANGED <<db, deleted>> /\ (Locked \/ db = job.view)
  BY DEF ImportDocument, history, Locked
<1>3. SUFFICES ASSUME NEW r \in job'.view.rows, r \notin db.rows
               PROVE  /\ \A o \in db.rows : <<o.cid, o.line, o.seq>> # <<r.cid, r.line, r.seq>>
                      /\ r.seq < job'.done[r.of][r.line]
  BY <1>2 DEF NewIsDone
<1>4. r \in InsertOrIgnore(job.view.rows, rows)
  BY <1>1 DEF DocumentEffect
<1>5. r \in Row /\ job.done \in Bag /\ doc.lines \in [Lines -> Nat] /\ doc.chan \in Names
  BY <1>1 DEF DocumentEffect, Job, Database, Typed, JobTyped, Doc
<1>6. job'.done[r.of][r.line] =
        IF r.of = doc.chan THEN Max({job.done[r.of][r.line], doc.lines[r.line]})
        ELSE job.done[r.of][r.line]
  <2>1. job'.done = [job.done EXCEPT ![doc.chan] = [l \in Lines |-> Max({@[l], doc.lines[l]})]]
    BY <1>1 DEF DocumentEffect
  <2>2. r.of \in Names /\ r.line \in Lines /\ job.done \in [Names -> [Lines -> Nat]]
    BY <1>5 DEF Row, Bag
  <2>3. CASE r.of = doc.chan
    <3>1. job'.done[r.of] = [l \in Lines |-> Max({job.done[r.of][l], doc.lines[l]})]
      BY <2>1, <2>2, <2>3
    <3> QED
      BY <2>2, <2>3, <3>1
  <2>4. CASE r.of # doc.chan
    BY <2>1, <2>2, <2>4
  <2> QED
    BY <2>3, <2>4
<1>7. /\ job.done[r.of][r.line] \in Nat /\ doc.lines[r.line] \in Nat /\ r.seq \in Nat
      /\ job'.done[r.of][r.line] \in Nat
      /\ job.done[r.of][r.line] <= job'.done[r.of][r.line]
      /\ r.of = doc.chan => doc.lines[r.line] <= job'.done[r.of][r.line]
  <2>1. job.done[r.of][r.line] \in Nat /\ doc.lines[r.line] \in Nat /\ r.seq \in Nat
    BY <1>5 DEF Row, Bag
  <2> QED
    BY <1>6, <2>1, MaxOfTwo
<1>8. CASE r \in job.view.rows
  <2>1. Locked
    BY <1>2, <1>3, <1>8
  <2>2. /\ \A o \in db.rows : <<o.cid, o.line, o.seq>> # <<r.cid, r.line, r.seq>>
        /\ r.seq < job.done[r.of][r.line]
    BY <1>3, <1>8, <2>1 DEF NewIsDone
  <2>3. r.seq < job'.done[r.of][r.line]
    BY <1>6, <1>7, <2>2
  <2> QED
    BY <2>2, <2>3
<1>9. CASE r \notin job.view.rows
  <2>1. r \in rows /\ \A o \in job.view.rows : <<o.cid, o.line, o.seq>> # <<r.cid, r.line, r.seq>>
    BY <1>4, <1>9 DEF InsertOrIgnore
  <2>2. db.rows \subseteq job.view.rows
    BY <1>2 DEF Kept, Uncommitted, Extends
  <2>3. r.of = doc.chan /\ r.seq < doc.lines[r.line]
    BY <1>1, <2>1 DEF DocumentEffect
  <2>4. r.seq < job'.done[r.of][r.line]
    BY <1>6, <1>7, <2>3
  <2> QED
    BY <2>1, <2>2, <2>4
<1> QED
  BY <1>8, <1>9

LEMMA IsDoneStep ==
  ASSUME Typed, Kept, NewIsDone, [Next]_vars
  PROVE  NewIsDone'
<1>1. CASE UNCHANGED vars \/ People \/ Owner \/ Connection \/ Store
  <2>1. job' = job /\ deleted \subseteq deleted' /\ (Locked => db' = db)
    BY <1>1, LiveLeavesImports DEF vars
  <2> QED
    BY <2>1 DEF NewIsDone, Locked
<1>2. CASE ImportDocument
  BY <1>2, DocumentIsDone
<1>3. CASE ImportEnds
  BY <1>3, Ended DEF NewIsDone
<1>4. CASE StartImport \/ ReadSnapshot \/ ImportRefused \/ ImportFails
  BY <1>4, Prepared DEF NewIsDone
<1> QED
  BY <1>1, <1>2, <1>3, <1>4 DEF Next, Import

LEMMA CommitAddsWhatIsNew ==
  ASSUME Typed, Kept, Identity, NewIsDone, Next, deleted = {}, job' # job, db'.rows # db.rows
  PROVE  \E c \in Names, l \in Lines : job.done[c][l] > imported[c][l]
<1>1. ImportEnds
  BY LiveLeavesImports, Prepared DEF Next, Import, ImportDocument
<1>2. Locked /\ db' = job.view
  BY <1>1, Ended
<1>3. /\ Extends(db, job.view, {}) /\ Covers(db, imported, {}) /\ Sound(job.view, {})
      /\ job.done \in Bag /\ imported \in Bag /\ job.view \in Database
  BY <1>2 DEF Kept, Uncommitted, Identity, Typed, JobTyped, Job, GhostsTyped
<1>4. PICK r \in job.view.rows : r \notin db.rows
  BY <1>2, <1>3 DEF Extends
<1>5. /\ \A o \in db.rows : <<o.cid, o.line, o.seq>> # <<r.cid, r.line, r.seq>>
      /\ r.seq < job.done[r.of][r.line]
  BY <1>2, <1>4 DEF NewIsDone
<1>6. r.of \in Names /\ r.line \in Lines /\ r.seq \in Nat /\ r.cid \in Id
  BY <1>3 DEF Database, Row
<1>7. r.cid = job.view.chan[r.of]
  BY <1>3, <1>6 DEF Sound, Points, Settled, Id
<1>8. ~Has(db, r.of, r.line, r.seq)
  <2>1. SUFFICES ASSUME db.chan[r.of] # 0,
                        NEW o \in db.rows, o.cid = db.chan[r.of], o.line = r.line, o.seq = r.seq
                 PROVE  FALSE
    BY DEF Has
  <2>2. job.view.chan[r.of] = db.chan[r.of]
    BY <1>3, <1>6, <2>1 DEF Extends
  <2> QED
    BY <1>5, <1>7, <2>1, <2>2
<1>9. ~(r.seq < imported[r.of][r.line])
  BY <1>3, <1>6, <1>8 DEF Covers
<1>10. imported[r.of][r.line] \in Nat /\ job.done[r.of][r.line] \in Nat
  BY <1>3, <1>6 DEF Bag
<1>11. job.done[r.of][r.line] > imported[r.of][r.line]
  BY <1>5, <1>6, <1>9, <1>10
<1> QED
  BY <1>6, <1>11

-----------------------------------------------------------------------------
(* What is taken is stored.                                                *)

(* Rows that differ in their numbers, all less than n, are n at most.      *)
LEMMA NoMoreRows ==
  ASSUME NEW S, NEW n \in Nat, \A r \in S : r.seq \in Nat /\ r.seq < n,
         \A r, o \in S : r.seq = o.seq => r = o
  PROVE  Cardinality(S) <= n
<1> DEFINE T == 0..(n - 1)
           f == [r \in S |-> r.seq]
<1>1. f \in Injection(S, T)
  <2>1. f \in [S -> T]
    OBVIOUS
  <2>2. \A r, o \in S : f[r] = f[o] => r = o
    OBVIOUS
  <2> HIDE DEF f, T
  <2> QED
    BY <2>1, <2>2 DEF Injection, IsInjective
<1>2. IsFiniteSet(T) /\ Cardinality(T) = n
  BY FirstNumbers
<1> QED
  BY <1>1, <1>2, FS_Injection

(* As many rows as a line has, so many numbers from 0 on are there.        *)
LEMMA CountedAreThere ==
  ASSUME Typed, Identity, NumbersFollow, NEW c \in Names, NEW l \in Lines, <<c, l>> \in Firm,
         db.chan[c] # 0, NEW i \in Nat, i < Cardinality(Numbered(db, db.chan[c], l))
  PROVE  Has(db, c, l, i)
<1> DEFINE S == Numbered(db, db.chan[c], l)
<1>1. SUFFICES ASSUME ~Has(db, c, l, i)
               PROVE  FALSE
  OBVIOUS
<1>2. c \in Settled(deleted)
  BY DEF Firm
<1>3. \A r \in S : r \in db.rows /\ r \in Row /\ r.cid = db.chan[c] /\ r.line = l /\ r.of = c
  <2>1. \A r \in S : r \in db.rows /\ r \in Row /\ r.cid = db.chan[c] /\ r.line = l
    BY DEF Numbered, Typed, DbTyped, Database
  <2>2. \A r \in db.rows : Points(db, deleted, r.cid, r.of)
    BY DEF Identity, Sound
  <2> QED
    BY <1>2, <2>1, <2>2 DEF Points
<1>4. ASSUME NEW r \in S
      PROVE  r.seq \in Nat /\ r.seq < i
  <2>1. r.seq \in Nat
    BY <1>3, <1>4 DEF Row
  <2>2. r.seq # i
    BY <1>1, <1>2, <1>3, <1>4 DEF Has
  <2>3. ~(i < r.seq)
    BY <1>1, <1>3, <1>4 DEF NumbersFollow, Contiguous
  <2> QED
    BY <2>1, <2>2, <2>3
<1>5. \A r, o \in S : r.seq = o.seq => r = o
  BY <1>3 DEF Identity, Sound, Keyed
<1>6. Cardinality(S) <= i
  <2> HIDE DEF S
  <2> QED
    BY <1>4, <1>5, NoMoreRows
<1>7. Cardinality(S) \in Nat
  <2>1. S \subseteq db.rows /\ IsFiniteSet(db.rows)
    BY DEF Numbered, Typed, DbTyped
  <2> QED
    BY <2>1, FS_Subset, FS_CardinalityType
<1> QED
  BY <1>6, <1>7

(* What Follow says in numbers.                                            *)
LEMMA FollowedIsStored ==
  ASSUME Typed, NEW c \in Names, NEW l \in Lines, Follow(c, l), db.chan[c] \in Id,
         l \in Events => restarts = 0
  PROVE  taken[c][l] <= Stored(c, l) /\ Stored(c, l) \in Nat
<1>1. Stored(c, l) = Cardinality(Numbered(db, db.chan[c], l)) /\ Stored(c, l) \in Nat
  <2>1. Numbered(db, db.chan[c], l) \subseteq db.rows /\ IsFiniteSet(db.rows)
    BY DEF Numbered, Typed, DbTyped
  <2>2. Cardinality(Numbered(db, db.chan[c], l)) \in Nat
    BY <2>1, FS_Subset, FS_CardinalityType
  <2> QED
    BY <2>2 DEF Stored, Numbered
<1>2. NextNumber(c, l) \in Nat /\ taken[c][l] \in Nat /\ cur.seq \in Nat
  BY DEF NextNumber, Typed, LoggerTyped, GhostsTyped, Bag, Cache
<1>3. CASE InHand(c, l)
  <2>1. \A i \in Nat : i < cur.seq => Has(db, c, l, i)
    BY <1>2, <1>3 DEF Follow
  <2>2. cur.seq <= Stored(c, l)
    BY <1>1, <1>2, <2>1, AsManyRows DEF Typed, DbTyped
  <2> QED
    BY <1>1, <1>2, <1>3, <2>2 DEF Follow
<1>4. CASE ~InHand(c, l) /\ NextNumber(c, l) # 0
  <2>1. \A i \in Nat : i < NextNumber(c, l) => Has(db, c, l, i)
    BY <1>4 DEF Follow
  <2>2. NextNumber(c, l) <= Stored(c, l)
    BY <1>1, <1>2, <2>1, AsManyRows DEF Typed, DbTyped
  <2> QED
    BY <1>1, <1>2, <1>4, <2>2 DEF Follow
<1>5. CASE ~InHand(c, l) /\ NextNumber(c, l) = 0
  BY <1>1, <1>2, <1>5 DEF Follow
<1> QED
  BY <1>3, <1>4, <1>5

LEMMA ArchiveGrows ==
  ASSUME Typed, Kept, [Next]_vars
  PROVE  Extends(db, db', deleted') /\ deleted \subseteq deleted' /\ gaps \subseteq gaps'
<1>1. CASE UNCHANGED vars
  BY <1>1 DEF vars, ghosts, Extends
<1>2. CASE People \/ Owner \/ Connection \/ Store
  <2>1. Extends(db, db', deleted') /\ deleted \subseteq deleted'
    BY <1>2, StoreExtends, OthersExtend DEF Extends
  <2>2. gaps \subseteq gaps'
    BY <1>2 DEF People, Owner, Connection, Store, Say, DeleteChannel, AddChannel, Reconnect, Cut,
       Restart, TakeUp, NewChannel, LookNick, NewNick, NameTaken, DrawSeq, Insert, ChannelGone,
       LockTimeout, ghosts
  <2> QED
    BY <2>1, <2>2
<1>3. CASE ImportDocument
  BY <1>3 DEF ImportDocument, ghosts, Extends
<1>4. CASE ImportEnds
  <2>1. Locked /\ UNCHANGED <<deleted, gaps>> /\ (db' = db \/ db' = job.view)
    BY <1>4, Ended
  <2> QED
    BY <2>1 DEF Kept, Uncommitted, Extends
<1>5. CASE StartImport \/ ReadSnapshot \/ ImportRefused \/ ImportFails
  BY <1>5, Prepared DEF Extends
<1> QED
  BY <1>1, <1>2, <1>3, <1>4, <1>5 DEF Next, Import

LEMMA FirmBefore ==
  ASSUME Typed, Kept, [Next]_vars
  PROVE  Firm' \subseteq Firm /\ Settled(deleted') \subseteq Settled(deleted)
BY ArchiveGrows DEF Firm, Settled, Typed, GhostsTyped

LEMMA FirmStays ==
  ASSUME Typed, Kept, Identity, [Next]_vars, NEW c \in Names, NEW l \in Lines, <<c, l>> \in Firm',
         db.chan[c] # 0
  PROVE  /\ <<c, l>> \in Firm /\ db'.chan[c] = db.chan[c] /\ db.chan[c] \in Id
         /\ \A i \in Nat : Has(db, c, l, i) => Has(db', c, l, i)
<1>1. Extends(db, db', deleted') /\ deleted \subseteq deleted' /\ gaps \subseteq gaps'
  BY ArchiveGrows
<1>2. c \notin deleted' /\ <<c, l>> \in Firm
  BY <1>1, FirmBefore DEF Firm, Settled
<1>3. db.chan[c] \in Id
  BY DEF Typed, DbTyped, Database, Id
<1>4. db'.chan[c] = db.chan[c] /\ db.rows \subseteq db'.rows
  BY <1>1, <1>2, <1>3 DEF Extends
<1> QED
  BY <1>2, <1>3, <1>4 DEF Has

LEMMA RowHasChannel ==
  ASSUME Typed, Identity, NEW r \in db.rows, r.of \in Settled(deleted)
  PROVE  r.cid = db.chan[r.of] /\ db.chan[r.of] # 0
<1>1. Points(db, deleted, r.cid, r.of)
  BY DEF Identity, Sound
<1>2. r.cid # 0
  BY DEF Typed, DbTyped, Database, Row, Id
<1> QED
  BY <1>1, <1>2 DEF Points

(* A number in hand stays there until the row is inserted, or lost.        *)
LEMMA HandStays ==
  ASSUME Typed, [Next]_vars
  PROVE  /\ pc = "insert" => UNCHANGED <<pc, cur>> \/ pc' = "idle"
         /\ ~DrawSeq /\ pc' = "insert" => UNCHANGED <<pc, cur>>
<1>1. CASE UNCHANGED vars \/ People \/ Owner \/ Reconnect \/ Cut \/ Import
  BY <1>1, Prepared, Ended DEF vars, People, Owner, Say, DeleteChannel, AddChannel, Reconnect, Cut,
                               Import, ImportDocument, logger
<1>2. CASE Restart \/ NameTaken \/ ChannelGone \/ LockTimeout \/ Insert
  BY <1>2 DEF Restart, NameTaken, ChannelGone, LockTimeout, Insert, Raise
<1>3. CASE TakeUp \/ NewChannel \/ LookNick \/ NewNick \/ DrawSeq
  BY <1>3 DEF TakeUp, NewChannel, LookNick, NewNick, DrawSeq
<1> QED
  BY <1>1, <1>2, <1>3 DEF Next, Connection, Store

(* A number is drawn by DrawSeq; a new process has drawn none.              *)
LEMMA NumbersStay ==
  ASSUME Typed, [Next]_vars, ~DrawSeq
  PROVE  ids'.seq = ids.seq \/ ids'.seq = NoIds.seq
<1>1. CASE UNCHANGED vars \/ People \/ Owner \/ Connection \/ Import
  BY <1>1, Prepared, Ended DEF vars, People, Owner, Connection, Say, DeleteChannel, AddChannel,
     Reconnect, Cut, Restart, Import, ImportDocument, logger
<1>2. CASE TakeUp \/ NewChannel \/ LookNick \/ NewNick
  <2>1. ids \in Cache
    BY DEF Typed, LoggerTyped
  <2> QED
    BY <1>2, <2>1 DEF TakeUp, NewChannel, LookNick, NewNick, Cache
<1>3. CASE NameTaken \/ ChannelGone \/ LockTimeout \/ Insert
  BY <1>3 DEF NameTaken, ChannelGone, LockTimeout, Insert, Raise
<1> QED
  BY <1>1, <1>2, <1>3 DEF Next, Store

(* The number in hand is one of the channel the archivist has the id of.   *)
LEMMA HandHasChannel ==
  ASSUME Typed, Identity, pc \in Named, cur.chan \in Settled(deleted)
  PROVE  cur.cid = db.chan[cur.chan] /\ db.chan[cur.chan] # 0
<1>1. Points(db, deleted, cur.cid, cur.chan) /\ cur.cid # 0
  BY DEF Identity, Named, Typed, LoggerTyped
<1> QED
  BY <1>1 DEF Points

LEMMA TakenStaysOr ==
  ASSUME Typed, [Next]_vars
  PROVE  taken' = taken \/ Insert
<1>1. CASE UNCHANGED vars \/ People \/ Owner \/ Connection \/ Import
  BY <1>1, Prepared, Ended DEF vars, People, Owner, Connection, Say, DeleteChannel, AddChannel,
     Reconnect, Cut, Restart, Import, ImportDocument, ghosts
<1>2. CASE Store /\ ~Insert
  BY <1>2 DEF Store, TakeUp, NewChannel, LookNick, NewNick, NameTaken, DrawSeq, ChannelGone,
              LockTimeout, Raise, ghosts
<1> QED
  BY <1>1, <1>2 DEF Next

LEMMA UnheardStep ==
  ASSUME Typed, Typed', Kept, Identity, NewIsUnheard, [Next]_vars
  PROVE  NewIsUnheard'
<1>1. SUFFICES ASSUME deleted' = {}
               PROVE  NewIsUnheard'
  BY DEF NewIsUnheard
<1>2. /\ deleted = {} /\ Settled(deleted) = Names
      /\ \A c \in Names : db.chan[c] # 0 => db'.chan[c] = db.chan[c]
  BY <1>1, ArchiveGrows DEF Extends, Settled
<1>3. ASSUME NEW k \in Id, NEW l \in Lines, ids'.seq[<<k, l>>] # 0
      PROVE  HasChannel(db', k)
  <2>1. HasChannel(db, k)
    <3>1. CASE DrawSeq
      <4>1. pc = "seq" /\ ids.seq \in [Id \X Lines -> Nat]
            /\ \E n : ids' = [ids EXCEPT !.seq[<<cur.cid, cur.line>>] = n]
        BY <3>1 DEF DrawSeq, Typed, LoggerTyped, Cache
      <4>2. PICK n : ids'.seq = [ids.seq EXCEPT ![<<cur.cid, cur.line>>] = n]
        BY <4>1 DEF Typed, LoggerTyped, Cache
      <4>3. CASE ids.seq[<<k, l>>] # 0
        BY <1>2, <4>3 DEF NewIsUnheard
      <4>4. CASE ids.seq[<<k, l>>] = 0
        <5>1. k = cur.cid
          BY <1>3, <4>1, <4>2, <4>4
        <5>2. cur.chan \in Names /\ pc \in Named
          BY <4>1 DEF Typed, LoggerTyped, Named
        <5> QED
          BY <1>2, <5>1, <5>2, HandHasChannel DEF HasChannel
      <4> QED
        BY <4>3, <4>4
    <3>2. CASE ~DrawSeq
      <4>1. ids.seq[<<k, l>>] # 0
        BY <1>3, <3>2, NumbersStay DEF NoIds
      <4> QED
        BY <1>2, <4>1 DEF NewIsUnheard
    <3> QED
      BY <3>1, <3>2
  <2> QED
    BY <1>2, <2>1 DEF HasChannel, Id
<1>4. ASSUME NEW c \in Names, NEW l \in Lines, db'.chan[c] = 0
      PROVE  taken'[c][l] = 0
  <2>1. db.chan[c] = 0
    BY <1>2, <1>4
  <2>2. taken[c][l] = 0
    BY <1>2, <2>1 DEF NewIsUnheard
  <2>3. CASE Insert
    <3>1. cur.chan \in Names /\ pc \in Named /\ taken \in [Names -> [Lines -> Nat]]
          /\ taken' = [taken EXCEPT ![cur.chan][cur.line] = @ + 1]
      BY <2>3 DEF Insert, Typed, LoggerTyped, GhostsTyped, Named, Bag
    <3>2. c # cur.chan
      BY <1>2, <2>1, <3>1, HandHasChannel
    <3> QED
      BY <2>2, <3>1, <3>2
  <2> QED
    BY <2>2, <2>3, TakenStaysOr
<1> QED
  BY <1>3, <1>4 DEF NewIsUnheard

(* A channel that is new has no numbers.                                   *)
LEMMA NewFollows ==
  ASSUME Typed, Typed', Kept, Identity, Identity', NewIsUnheard, [Next]_vars,
         NEW c \in Names, NEW l \in Lines, <<c, l>> \in Firm', db.chan[c] = 0, db'.chan[c] # 0
  PROVE  Follow(c, l)'
<1>1. deleted' = {} /\ deleted = {} /\ Settled(deleted) = Names
  <2>1. c \notin Configured \ deleted
    BY DEF Identity
  <2>2. c \in Settled(deleted') /\ deleted \subseteq deleted'
    BY ArchiveGrows DEF Firm
  <2> QED
    BY <2>1, <2>2 DEF Settled
<1>2. ~DrawSeq /\ ~Insert
  BY RowInserted DEF DrawSeq
<1>3. ~InHand(c, l)'
  <2>1. SUFFICES ASSUME pc' = "insert", cur'.chan = c
                 PROVE  FALSE
    BY DEF InHand
  <2>2. pc = "insert" /\ cur.chan = c
    BY <1>2, <2>1, HandStays
  <2> QED
    BY <1>1, <2>2, HandHasChannel DEF Named
<1>4. NextNumber(c, l)' = 0
  <2>1. db'.chan[c] \in Id
    BY DEF Typed, DbTyped, Database, Id
  <2>2. SUFFICES ASSUME ids'.seq[<<db'.chan[c], l>>] # 0
                 PROVE  FALSE
    BY DEF NextNumber
  <2>3. ids.seq[<<db'.chan[c], l>>] # 0
    BY <1>2, <2>1, <2>2, NumbersStay DEF NoIds
  <2>4. PICK e \in Names : db.chan[e] = db'.chan[c]
    BY <1>1, <2>1, <2>3 DEF NewIsUnheard, HasChannel
  <2>5. db'.chan[e] = db.chan[e]
    BY <1>1, <2>4, ArchiveGrows DEF Extends
  <2> QED
    BY <2>4, <2>5 DEF Identity, Sound, UniqueIds
<1>5. taken'[c][l] = 0
  BY <1>1, <1>2, TakenStaysOr DEF NewIsUnheard
<1>6. Stored(c, l)' \in Nat
  <2>1. {r \in db'.rows : r.cid = db'.chan[c] /\ r.line = l} \subseteq db'.rows
    OBVIOUS
  <2> QED
    BY <2>1, FS_Subset, FS_CardinalityType DEF Stored, Typed, DbTyped
<1> QED
  BY <1>3, <1>4, <1>5, <1>6 DEF Follow

(* A step that draws and stores nothing of a line.                         *)
LEMMA FollowsOn ==
  ASSUME Typed, Typed', Kept, Identity, [Next]_vars,
         NEW c \in Names, NEW l \in Lines, <<c, l>> \in Firm', db.chan[c] # 0, Follow(c, l),
         ids'.seq[<<db.chan[c], l>>] = ids.seq[<<db.chan[c], l>>],
         taken'[c][l] = taken[c][l], restarts' = restarts,
         InHand(c, l)' <=> InHand(c, l), InHand(c, l) => cur'.seq = cur.seq
  PROVE  Follow(c, l)'
<1>1. /\ db'.chan[c] = db.chan[c] /\ db.chan[c] \in Id
      /\ \A i \in Nat : Has(db, c, l, i) => Has(db', c, l, i)
  BY FirmStays
<1>2. NextNumber(c, l)' = NextNumber(c, l)
  BY <1>1 DEF NextNumber
<1>3. Stored(c, l) <= Stored(c, l)' /\ Stored(c, l) \in Nat /\ Stored(c, l)' \in Nat
  <2> DEFINE S == {r \in db.rows : r.cid = db.chan[c] /\ r.line = l}
             T == {r \in db'.rows : r.cid = db'.chan[c] /\ r.line = l}
  <2>1. S \subseteq T
    BY <1>1, ArchiveGrows DEF Extends
  <2>2. IsFiniteSet(T)
    BY FS_Subset DEF Typed, DbTyped
  <2>3. Cardinality(S) <= Cardinality(T) /\ Cardinality(S) \in Nat /\ Cardinality(T) \in Nat
    <3> HIDE DEF S, T
    <3> QED
      BY <2>1, <2>2, FS_Subset, FS_CardinalityType
  <2> QED
    BY <2>3 DEF Stored
<1>4. taken[c][l] \in Nat
  BY DEF Typed, GhostsTyped, Bag
<1> QED
  BY <1>1, <1>2, <1>3, <1>4 DEF Follow

LEMMA DrawFollows ==
  ASSUME Typed, Typed', Kept, Identity, NumbersFollow, DrawSeq,
         NEW c \in Names, NEW l \in Lines, <<c, l>> \in Firm', db.chan[c] # 0
  PROVE  Follow(c, l)'
<1>1. PICK n : n = NextSeq(ids, cur.cid, cur.line, FirstLive(db, cur.cid, cur.line))
  OBVIOUS
<1>2. /\ cur' = [cur EXCEPT !.seq = n] /\ ids' = [ids EXCEPT !.seq[<<cur.cid, cur.line>>] = n + 1]
      /\ pc = "seq" /\ pc' = "insert" /\ UNCHANGED <<db, taken, restarts>>
  BY <1>1 DEF DrawSeq, ghosts, counters
<1>3. /\ <<c, l>> \in Firm /\ db.chan[c] \in Id /\ Follow(c, l) /\ Next
  BY FirmStays DEF NumbersFollow, Next, Store
<1>4. cur.chan \in Names /\ cur.line \in Lines /\ cur.cid \in Id
      /\ Points(db, deleted, cur.cid, cur.chan)
  BY <1>2 DEF Typed, LoggerTyped, Id, Identity, Named
<1>5. c \in Settled(deleted)
  BY <1>3 DEF Firm
<1>6. cur.cid = db.chan[c] <=> cur.chan = c
  BY <1>4, <1>5 DEF Points, Id
<1>7. ids.seq \in [Id \X Lines -> Nat]
      /\ ids'.seq = [ids.seq EXCEPT ![<<cur.cid, cur.line>>] = n + 1]
      /\ cur'.seq = n /\ cur'.chan = cur.chan /\ cur'.line = cur.line
  BY <1>2 DEF Typed, LoggerTyped, Cache
<1>8. CASE cur.chan = c /\ cur.line = l
  <2>1. ~InHand(c, l) /\ InHand(c, l)' /\ cur.cid = db.chan[c]
    BY <1>2, <1>6, <1>7, <1>8 DEF InHand
  <2>2. NextNumber(c, l)' = n + 1
    BY <1>2, <1>3, <1>7, <1>8, <2>1 DEF NextNumber
  <2>3. n \in Nat /\ taken[c][l] \in Nat /\ ids.seq[<<db.chan[c], l>>] \in Nat
    BY <1>7, <1>3 DEF Typed, LoggerTyped, GhostsTyped, Bag
  <2>4. \A i \in Nat : i < n => Has(db, c, l, i)
    <3>1. CASE NextNumber(c, l) # 0
      <4>1. n = NextNumber(c, l)
        BY <1>1, <1>8, <2>1, <3>1 DEF NextSeq, NextNumber
      <4> QED
        BY <1>3, <2>1, <4>1 DEF Follow
    <3>2. CASE NextNumber(c, l) = 0 /\ l \in Events
      <4>1. n = 0
        BY <1>1, <1>8, <2>1, <3>2 DEF NextSeq, NextNumber, FirstLive
      <4> QED
        BY <4>1
    <3>3. CASE NextNumber(c, l) = 0 /\ l \notin Events
      <4>1. n = Cardinality(Numbered(db, db.chan[c], l))
        BY <1>1, <1>8, <2>1, <3>3 DEF NextSeq, NextNumber, FirstLive
      <4> QED
        BY <1>3, <4>1, CountedAreThere
    <3> QED
      BY <3>1, <3>2, <3>3
  <2>5. (l \in Events => restarts = 0) => taken[c][l] <= n
    <3>1. CASE NextNumber(c, l) # 0
      <4>1. n = NextNumber(c, l)
        BY <1>1, <1>8, <2>1, <3>1 DEF NextSeq, NextNumber
      <4> QED
        BY <1>3, <2>1, <3>1, <4>1 DEF Follow
    <3>2. CASE NextNumber(c, l) = 0 /\ l \in Events
      <4>1. n = 0
        BY <1>1, <1>8, <2>1, <3>2 DEF NextSeq, NextNumber, FirstLive
      <4> QED
        BY <1>3, <2>1, <3>2, <4>1 DEF Follow
    <3>3. CASE NextNumber(c, l) = 0 /\ l \notin Events
      <4>1. n = Stored(c, l)
        BY <1>1, <1>8, <2>1, <3>3 DEF NextSeq, NextNumber, FirstLive, Stored, Numbered
      <4> QED
        BY <1>3, <2>1, <3>3, <4>1 DEF Follow
    <3> QED
      BY <3>1, <3>2, <3>3
  <2>6. \A i \in Nat : i < n + 1 => i < n \/ i = n
    BY <2>3
  <2>7. taken' = taken /\ restarts' = restarts /\ db' = db
    BY <1>2
  <2> QED
    BY <1>7, <2>1, <2>2, <2>4, <2>5, <2>6, <2>7 DEF Follow
<1>9. CASE ~(cur.chan = c /\ cur.line = l)
  <2>1. ~InHand(c, l) /\ ~InHand(c, l)'
    BY <1>2, <1>7, <1>9 DEF InHand
  <2>2. <<cur.cid, cur.line>> # <<db.chan[c], l>>
    BY <1>6, <1>9
  <2>3. ids'.seq[<<db.chan[c], l>>] = ids.seq[<<db.chan[c], l>>]
    BY <1>3, <1>7, <2>2
  <2> QED
    BY <1>2, <1>3, <2>1, <2>3, FollowsOn
<1> QED
  BY <1>8, <1>9

LEMMA InsertFollows ==
  ASSUME Typed, Typed', Kept, Identity, NumbersFollow, Insert,
         NEW c \in Names, NEW l \in Lines, <<c, l>> \in Firm', db.chan[c] # 0
  PROVE  Follow(c, l)'
<1>1. /\ db'.rows = InsertOrIgnore(db.rows, {TheRow}) /\ db'.chan = db.chan
      /\ pc = "insert" /\ pc' = "idle" /\ UNCHANGED <<ids, restarts>>
  BY RowInserted
<1>2. taken' = [taken EXCEPT ![cur.chan][cur.line] = @ + 1]
  BY DEF Insert
<1>3. /\ db.chan[c] \in Id /\ Follow(c, l) /\ Next
      /\ \A i \in Nat : Has(db, c, l, i) => Has(db', c, l, i)
  BY FirmStays DEF NumbersFollow, Next, Store
<1>4. c \in Settled(deleted)
  BY FirmStays DEF Firm, Next, Store
<1>5. ~InHand(c, l)' /\ NextNumber(c, l)' = NextNumber(c, l)
  BY <1>1 DEF InHand, NextNumber
<1>6. taken \in [Names -> [Lines -> Nat]] /\ cur.seq \in Nat
  BY DEF Typed, GhostsTyped, Bag, LoggerTyped
<1>7. CASE cur.chan = c /\ cur.line = l
  <2>1. InHand(c, l) /\ NextNumber(c, l) = cur.seq + 1
    BY <1>1, <1>3, <1>7 DEF InHand, Follow
  <2>2. cur.cid = db.chan[c]
    <3>1. Points(db, deleted, cur.cid, cur.chan) /\ cur.cid # 0
      BY <1>1 DEF Identity, Named, Typed, LoggerTyped
    <3> QED
      BY <1>4, <1>7, <3>1 DEF Points
  <2>3. Has(db', c, l, cur.seq)
    <3>1. \E o \in db'.rows : o.cid = cur.cid /\ o.line = l /\ o.seq = cur.seq
      <4>1. TheRow \in {TheRow} /\ TheRow.cid = cur.cid /\ TheRow.line = l /\ TheRow.seq = cur.seq
        BY <1>7 DEF TheRow
      <4> QED
        BY <1>1, <4>1, Inserted
    <3> QED
      BY <1>1, <1>3, <2>2, <3>1 DEF Has, Id
  <2>4. taken'[c][l] = taken[c][l] + 1
    BY <1>2, <1>6, <1>7
  <2>5. (l \in Events => restarts = 0) => taken[c][l] <= cur.seq
    BY <1>3, <2>1 DEF Follow
  <2>6. \A i \in Nat : i < NextNumber(c, l) => Has(db', c, l, i)
    BY <1>3, <2>1, <2>3 DEF Follow
  <2>7. taken[c][l] \in Nat /\ NextNumber(c, l) # 0
    BY <1>6, <2>1
  <2> QED
    BY <1>1, <1>5, <1>6, <2>1, <2>4, <2>5, <2>6, <2>7 DEF Follow
<1>8. CASE ~(cur.chan = c /\ cur.line = l)
  <2>1. taken'[c][l] = taken[c][l]
    BY <1>2, <1>6, <1>8
  <2>2. ~InHand(c, l)
    BY <1>8 DEF InHand
  <2> QED
    BY <1>1, <1>3, <1>5, <2>1, <2>2, FollowsOn
<1> QED
  BY <1>7, <1>8

(* A new process starts from what is stored.                               *)
LEMMA RestartFollows ==
  ASSUME Typed, Kept, Identity, NumbersFollow, Restart,
         NEW c \in Names, NEW l \in Lines, <<c, l>> \in Firm', db.chan[c] # 0
  PROVE  Follow(c, l)'
<1>1. /\ db' = db /\ taken' = taken /\ ids' = NoIds /\ pc' = "idle" /\ restarts' = restarts + 1
      /\ restarts \in Nat
  BY DEF Restart, ghosts, Typed, CountersTyped
<1>2. db.chan[c] \in Id /\ Follow(c, l)
  BY FirmStays DEF NumbersFollow, Next, Connection
<1>3. ~InHand(c, l)' /\ NextNumber(c, l)' = 0
  BY <1>1, <1>2 DEF InHand, NextNumber, NoIds
<1>4. CASE l \in Events
  BY <1>1, <1>3, <1>4 DEF Follow
<1>5. CASE l \notin Events
  <2>1. taken[c][l] <= Stored(c, l) /\ Stored(c, l)' = Stored(c, l)
    BY <1>1, <1>2, <1>5, FollowedIsStored DEF Stored
  <2> QED
    BY <1>1, <1>3, <1>5, <2>1 DEF Follow
<1> QED
  BY <1>4, <1>5

LEMMA OthersFollow ==
  ASSUME Typed, Typed', Kept, Identity, NumbersFollow,
         \/ UNCHANGED vars \/ People \/ Owner \/ Reconnect \/ Cut \/ Import
         \/ TakeUp \/ NewChannel \/ LookNick \/ NewNick \/ NameTaken \/ ChannelGone \/ LockTimeout,
         NEW c \in Names, NEW l \in Lines, <<c, l>> \in Firm', db.chan[c] # 0
  PROVE  Follow(c, l)'
<1>1. [Next]_vars
  BY DEF Next, Connection, Store
<1>2. Follow(c, l)
  BY <1>1, FirmStays DEF NumbersFollow
<1>3. ids'.seq = ids.seq /\ taken' = taken /\ restarts' = restarts
  <2>1. CASE UNCHANGED vars \/ People \/ Owner \/ Reconnect \/ Cut
    BY <2>1 DEF vars, People, Owner, Say, DeleteChannel, AddChannel, Reconnect, Cut, logger, ghosts,
                counters
  <2>2. CASE TakeUp \/ NewChannel \/ LookNick \/ NewNick
    <3>1. ids \in Cache
      BY DEF Typed, LoggerTyped
    <3> QED
      BY <2>2, <3>1 DEF TakeUp, NewChannel, LookNick, NewNick, ghosts, counters, Cache
  <2>3. CASE NameTaken \/ ChannelGone \/ LockTimeout
    BY <2>3 DEF NameTaken, ChannelGone, LockTimeout, Raise
  <2>4. CASE Import
    BY <2>4, Prepared, Ended DEF Import, ImportDocument, logger, ghosts, counters
  <2> QED
    BY <2>1, <2>2, <2>3, <2>4
<1>4. (InHand(c, l)' <=> InHand(c, l)) /\ (InHand(c, l) => cur'.seq = cur.seq)
  <2>1. CASE UNCHANGED <<pc, cur>>
    BY <2>1 DEF InHand
  <2>2. CASE pc # "insert" /\ pc' # "insert"
    BY <2>2 DEF InHand
  <2>3. CASE ChannelGone \/ (LockTimeout /\ pc = "insert")
    <3>1. gaps' = gaps \cup {<<cur.chan, cur.line>>} /\ pc' = "idle"
      BY <2>3 DEF ChannelGone, LockTimeout, Raise
    <3>2. <<c, l>> # <<cur.chan, cur.line>>
      BY <3>1 DEF Firm
    <3> QED
      BY <3>1, <3>2 DEF InHand
  <2>4. CASE UNCHANGED vars \/ People \/ Owner \/ Reconnect \/ Cut \/ Import
    <3>1. UNCHANGED <<pc, cur>>
      BY <2>4, Prepared, Ended DEF vars, People, Owner, Say, DeleteChannel, AddChannel, Reconnect,
                                   Cut, Import, ImportDocument, logger
    <3> QED
      BY <2>1, <3>1
  <2>5. CASE \/ TakeUp \/ NewChannel \/ LookNick \/ NewNick \/ NameTaken
             \/ (LockTimeout /\ pc # "insert")
    <3>1. pc # "insert" /\ pc' # "insert"
      BY <2>5 DEF TakeUp, NewChannel, LookNick, NewNick, NameTaken, LockTimeout, Raise
    <3> QED
      BY <2>2, <3>1
  <2> QED
    BY <2>3, <2>4, <2>5
<1> QED
  BY <1>1, <1>2, <1>3, <1>4, FollowsOn

(* Rows without a gap, in an archive with no new rows.                     *)
LEMMA ContiguousOn ==
  ASSUME Typed, Kept, Identity, [Next]_vars, Contiguous(db, Firm), db'.rows = db.rows
  PROVE  Contiguous(db, Firm)'
<1>1. SUFFICES ASSUME NEW r \in db.rows, <<r.of, r.line>> \in Firm',
                      NEW i \in Nat, i < r.seq
               PROVE  Has(db', r.of, r.line, i)
  BY DEF Contiguous
<1>2. r.of \in Names /\ r.line \in Lines
  BY DEF Typed, DbTyped, Database, Row
<1>3. <<r.of, r.line>> \in Firm /\ db.chan[r.of] # 0
  BY <1>1, FirmBefore, RowHasChannel DEF Firm
<1>4. Has(db, r.of, r.line, i) => Has(db', r.of, r.line, i)
  BY <1>1, <1>2, <1>3, FirmStays
<1> QED
  BY <1>1, <1>3, <1>4 DEF Contiguous

LEMMA InsertIsContiguous ==
  ASSUME Typed, Kept, Identity, NumbersFollow, Insert
  PROVE  Contiguous(db, Firm)'
<1>1. db'.rows = InsertOrIgnore(db.rows, {TheRow}) /\ pc = "insert"
  BY RowInserted
<1>2. [Next]_vars
  BY DEF Next, Store
<1>3. SUFFICES ASSUME NEW r \in db'.rows, <<r.of, r.line>> \in Firm',
                      NEW i \in Nat, i < r.seq
               PROVE  Has(db', r.of, r.line, i)
  BY DEF Contiguous
<1>4. r \in db.rows \/ r = TheRow
  BY <1>1, Inserted
<1>5. r.of \in Names /\ r.line \in Lines
  <2>1. TheRow.of \in Names /\ TheRow.line \in Lines
    BY <1>1 DEF TheRow, Typed, LoggerTyped
  <2> QED
    BY <1>4, <2>1 DEF Typed, DbTyped, Database, Row
<1>6. /\ <<r.of, r.line>> \in Firm /\ db.chan[r.of] # 0
      /\ Has(db, r.of, r.line, i) => Has(db', r.of, r.line, i)
  <2>1. <<r.of, r.line>> \in Firm /\ r.of \in Settled(deleted)
    BY <1>2, <1>3, FirmBefore DEF Firm
  <2>2. db.chan[r.of] # 0
    BY <1>1, <1>4, <2>1, RowHasChannel, HandHasChannel DEF TheRow, Named
  <2> QED
    BY <1>2, <1>3, <1>5, <2>1, <2>2, FirmStays
<1>7. CASE r \in db.rows
  BY <1>3, <1>6, <1>7 DEF NumbersFollow, Contiguous
<1>8. CASE r = TheRow
  <2>1. InHand(r.of, r.line) /\ r.seq = cur.seq /\ cur.seq \in Nat
    BY <1>1, <1>8 DEF TheRow, InHand, Typed, LoggerTyped
  <2>2. Follow(r.of, r.line)
    BY <1>5, <1>6 DEF NumbersFollow
  <2> QED
    BY <1>3, <1>6, <2>1, <2>2 DEF Follow
<1> QED
  BY <1>4, <1>7, <1>8

LEMMA DocumentIsContiguous ==
  ASSUME Typed, Kept, Identity, NumbersFollow, ImportDocument
  PROVE  Contiguous(job.view, Firm)'
<1>1. PICK doc \in Doc, known \in 0..MaxId, cid \in Id, rows \in SUBSET Row :
        DocumentEffect(doc, known, cid, rows)
  BY DocumentImported DEF Typed
<1>2. UNCHANGED <<db, deleted, gaps>> /\ (Locked \/ db = job.view)
  BY DEF ImportDocument, history, ghosts, Locked
<1>3. PICK d, e : d = job.view /\ e = job'.view
  OBVIOUS
<1>4. Contiguous(d, Firm) /\ Firm' = Firm
  BY <1>2, <1>3 DEF NumbersFollow, Firm
<1>5. /\ e.rows = InsertOrIgnore(d.rows, rows) /\ doc.chan \in Names /\ doc.lines \in [Lines -> Nat]
      /\ \A r \in rows : r.cid = cid /\ r.of = doc.chan /\ r.seq < doc.lines[r.line]
      /\ \A l \in Lines, i \in Nat : i < doc.lines[l] =>
           \E r \in rows : r.cid = cid /\ r.line = l /\ r.seq = i
      /\ job'.ids.chan[doc.chan] = cid /\ Locked'
  BY <1>1, <1>3 DEF DocumentEffect, Typed, JobTyped, Job, Doc, Cache, Locked
<1>6. d.rows \subseteq e.rows /\ \A c \in Names : d.chan[c] # 0 => e.chan[c] = d.chan[c]
  <2>1. d.rows \subseteq e.rows
    BY <1>5, Inserted
  <2>2. \A c \in Names : d.chan[c] # 0 => e.chan[c] = d.chan[c]
    BY <1>1, <1>3, <1>5 DEF DocumentEffect, Typed, JobTyped, Job, Database
  <2> QED
    BY <2>1, <2>2
<1>7. SUFFICES ASSUME NEW r \in e.rows, <<r.of, r.line>> \in Firm, NEW i \in Nat, i < r.seq
               PROVE  Has(e, r.of, r.line, i)
  BY <1>3, <1>4 DEF Contiguous
<1>8. r \in d.rows \/ r \in rows
  BY <1>5, Inserted
<1>9. CASE r \in d.rows
  <2>1. Has(d, r.of, r.line, i)
    BY <1>4, <1>7, <1>9 DEF Contiguous
  <2>2. r.of \in Names
    BY <1>7 DEF Firm
  <2> QED
    BY <1>6, <2>1, <2>2 DEF Has
<1>10. CASE r \in rows
  <2>1. r.of = doc.chan /\ r.line \in Lines /\ r.seq \in Nat /\ r.seq < doc.lines[r.line]
    BY <1>5, <1>10 DEF Row
  <2>2. doc.lines[r.line] \in Nat
    BY <1>5, <2>1
  <2>3. PICK n \in rows : n.cid = cid /\ n.line = r.line /\ n.seq = i
    BY <1>5, <1>7, <2>1, <2>2
  <2>4. PICK o \in e.rows : o.cid = cid /\ o.line = r.line /\ o.seq = i
    BY <1>5, <2>3, Inserted
  <2>5. e.chan[doc.chan] = cid /\ cid # 0
    <3>1. Identity'
      BY DocumentIdentity
    <3>2. Points(e, deleted, cid, doc.chan)
      BY <1>2, <1>3, <1>5, <3>1 DEF Identity, Seen
    <3>3. doc.chan \in Settled(deleted)
      BY <1>7, <2>1 DEF Firm, Settled
    <3> QED
      BY <3>2, <3>3 DEF Points, Id
  <2> QED
    BY <2>1, <2>4, <2>5 DEF Has
<1> QED
  BY <1>8, <1>9, <1>10

LEMMA RowsChange ==
  ASSUME Typed, [Next]_vars
  PROVE  db'.rows = db.rows \/ Insert \/ (ImportEnds /\ db' = job.view)
<1>1. CASE UNCHANGED vars \/ People \/ Owner \/ Connection
  BY <1>1 DEF vars, People, Owner, Connection, Say, DeleteChannel, AddChannel, Reconnect, Cut,
              Restart, Typed, DbTyped, Database
<1>2. CASE Store /\ ~Insert
  BY <1>2 DEF Store, TakeUp, NewChannel, LookNick, NewNick, NameTaken, DrawSeq, ChannelGone,
              LockTimeout, Raise, Typed, DbTyped, Database
<1>3. CASE Import
  BY <1>3, Prepared, Ended DEF Import, ImportDocument
<1> QED
  BY <1>1, <1>2, <1>3 DEF Next

LEMMA NumbersFollowStep ==
  ASSUME Typed, Kept, Identity, NumbersFollow, NewIsUnheard, [Next]_vars
  PROVE  NumbersFollow'
<1>1. Typed' /\ Identity'
  BY TypedStep, IdentityStep
<1>2. ASSUME NEW c \in Names, NEW l \in Lines, <<c, l>> \in Firm', db'.chan[c] # 0
      PROVE  Follow(c, l)'
  <2>1. CASE db.chan[c] = 0
    BY <1>1, <1>2, <2>1, NewFollows
  <2>2. CASE db.chan[c] # 0
    BY <1>1, <1>2, <2>2, DrawFollows, InsertFollows, RestartFollows, OthersFollow
    DEF Next, Connection, Store
  <2> QED
    BY <2>1, <2>2
<1>3. Firm' \subseteq Firm
  BY FirmBefore
<1>4. (Locked => Contiguous(job.view, Firm))'
  <2>1. CASE job' = job
    BY <1>3, <2>1 DEF NumbersFollow, Contiguous, Locked
  <2>2. CASE ImportDocument
    BY <2>2, DocumentIsContiguous
  <2>3. CASE ~Locked'
    BY <2>3
  <2> QED
    BY <2>1, <2>2, <2>3, LiveLeavesImports, Prepared, Ended DEF Next, Import, vars
<1>5. Contiguous(db, Firm)'
  <2>1. CASE db'.rows = db.rows
    BY <2>1, ContiguousOn DEF NumbersFollow
  <2>2. CASE Insert
    BY <2>2, InsertIsContiguous
  <2>3. CASE ImportEnds /\ db' = job.view
    <3>1. Contiguous(job.view, Firm)
      BY <2>3, Ended DEF NumbersFollow
    <3> QED
      BY <1>3, <2>3, <3>1 DEF Contiguous
  <2> QED
    BY <2>1, <2>2, <2>3, RowsChange
<1> QED
  BY <1>2, <1>4, <1>5 DEF NumbersFollow

LEMMA NumbersFollowInit ==
  ASSUME Init
  PROVE  NumbersFollow
<1>1. /\ db.rows = {} /\ ids = NoIds /\ pc = "idle" /\ taken = Nothing /\ job.pc = "none"
      /\ db \in Database
  <2>1. Typed
    BY TypedInit
  <2> QED
    BY <2>1 DEF Init, NoJob, Typed, DbTyped
<1>2. ASSUME NEW c \in Names, NEW l \in Lines, <<c, l>> \in Firm, db.chan[c] # 0
      PROVE  Follow(c, l)
  <2>1. db.chan[c] \in Id
    BY <1>1, <1>2 DEF Database, Id
  <2>2. NextNumber(c, l) = 0 /\ taken[c][l] = 0 /\ ~InHand(c, l)
    BY <1>1, <2>1 DEF NextNumber, NoIds, Nothing, InHand
  <2>3. Stored(c, l) = 0
    BY <1>1, FS_EmptySet DEF Stored
  <2> QED
    BY <2>2, <2>3 DEF Follow
<1> QED
  BY <1>1, <1>2 DEF NumbersFollow, Contiguous, Locked

-----------------------------------------------------------------------------
(* Nothing is stored that was not heard.                                   *)

(* How often a line is in an inbox.                                        *)
Times(box, m) == Cardinality({i \in DOMAIN box : box[i] = m})

LEMMA TimesNat ==
  ASSUME NEW M, NEW s \in Seq(M), NEW m
  PROVE  Times(s, m) \in Nat /\ Times(<<>>, m) = 0 /\ IsFiniteSet({i \in DOMAIN s : s[i] = m})
<1>1. IsFiniteSet(1..Len(s))
  BY FS_Interval
<1>2. IsFiniteSet({i \in DOMAIN s : s[i] = m})
  BY <1>1, FS_Subset
<1>3. {i \in DOMAIN <<>> : <<>>[i] = m} = {}
  OBVIOUS
<1> QED
  BY <1>2, <1>3, FS_CardinalityType, FS_EmptySet DEF Times

LEMMA TimesAppended ==
  ASSUME NEW M, NEW s \in Seq(M), NEW x \in M, NEW m
  PROVE  Times(Append(s, x), m) = Times(s, m) + (IF x = m THEN 1 ELSE 0)
<1> DEFINE S == {i \in DOMAIN s : s[i] = m}
           T == {i \in DOMAIN Append(s, x) : Append(s, x)[i] = m}
           n == Len(s) + 1
<1>1. IsFiniteSet(S)
  BY TimesNat
<1>2. n \notin S
  OBVIOUS
<1>3. T = IF x = m THEN S \cup {n} ELSE S
  OBVIOUS
<1>4. Cardinality(S) \in Nat
  BY <1>1, FS_CardinalityType
<1> HIDE DEF S, T, n
<1>5. Cardinality(T) = Cardinality(S) + (IF x = m THEN 1 ELSE 0)
  <2>1. Cardinality(S \cup {n}) = Cardinality(S) + 1
    BY <1>1, <1>2, FS_AddElement
  <2>2. CASE x = m
    BY <1>3, <2>1, <2>2
  <2>3. CASE x # m
    BY <1>3, <1>4, <2>3
  <2> QED
    BY <2>2, <2>3
<1> QED
  BY <1>5 DEF Times, S, T

LEMMA TimesTail ==
  ASSUME NEW M, NEW s \in Seq(M), s # <<>>, NEW m
  PROVE  Times(s, m) = Times(Tail(s), m) + (IF Head(s) = m THEN 1 ELSE 0)
<1> DEFINE S == {i \in DOMAIN s : s[i] = m}
           T == {i \in DOMAIN Tail(s) : Tail(s)[i] = m}
           f == [i \in T |-> i + 1]
<1>1. Tail(s) \in Seq(M) /\ Len(Tail(s)) = Len(s) - 1 /\ Len(s) \in Nat \ {0}
      /\ \A i \in 1..Len(Tail(s)) : Tail(s)[i] = s[i + 1]
  OBVIOUS
<1>2. IsFiniteSet(S) /\ IsFiniteSet(T)
  BY <1>1, TimesNat
<1>3. f \in Bijection(T, S \ {1})
  <2>1. \A i \in T : i \in Nat /\ i + 1 \in S \ {1}
    BY <1>1
  <2>2. \A j \in S \ {1} : j \in Nat /\ j - 1 \in T /\ (j - 1) + 1 = j
    BY <1>1
  <2>3. \A i \in T : f[i] = i + 1
    OBVIOUS
  <2>4. f \in [T -> S \ {1}]
    BY <2>1
  <2> HIDE DEF S, T, f
  <2>5. \A i, j \in T : f[i] = f[j] => i = j
    BY <2>1, <2>3
  <2>6. \A j \in S \ {1} : \E i \in T : f[i] = j
    BY <2>2, <2>3
  <2> QED
    BY <2>4, <2>5, <2>6 DEF Bijection, Injection, IsInjective, Surjection
<1>4. Cardinality(S \ {1}) = Cardinality(T)
  <2> HIDE DEF S, T, f
  <2> QED
    BY <1>2, <1>3, FS_Bijection DEF ExistsBijection
<1>5. 1 \in S <=> Head(s) = m
  BY <1>1
<1>6. Cardinality(S) \in Nat /\ Cardinality(T) \in Nat
  <2> HIDE DEF S, T
  <2> QED
    BY <1>2, FS_CardinalityType
<1>7. Cardinality(S) = Cardinality(T) + (IF Head(s) = m THEN 1 ELSE 0)
  <2> HIDE DEF S, T
  <2>1. Cardinality(S \ {1}) = IF 1 \in S THEN Cardinality(S) - 1 ELSE Cardinality(S)
    BY <1>2, FS_RemoveElement
  <2>2. CASE Head(s) = m
    BY <1>4, <1>5, <1>6, <2>1, <2>2
  <2>3. CASE Head(s) # m
    BY <1>4, <1>5, <1>6, <2>1, <2>3
  <2> QED
    BY <2>2, <2>3
<1> QED
  BY <1>7 DEF Times

Held(c, l) == IF pc # "idle" /\ cur.chan = c /\ cur.line = l THEN 1 ELSE 0
Said(c, l) == [chan |-> c, line |-> l]

LEMMA HeardIs ==
  ASSUME Typed, NEW c \in Names, NEW l \in Lines
  PROVE  /\ Heard(c, l) = said[c][l] - (Times(inbox, Said(c, l)) + Held(c, l))
         /\ said[c][l] \in Nat /\ Times(inbox, Said(c, l)) \in Nat /\ Held(c, l) \in {0, 1}
         /\ Heard(c, l) \in Int
<1>1. Times(inbox, Said(c, l)) \in Nat
  <2>1. inbox \in Seq(Message)
    BY DEF Typed, LinkTyped, Message
  <2> QED
    BY <2>1, TimesNat
<1>2. said[c][l] \in Nat
  BY DEF Typed, GhostsTyped, Bag
<1>3. Held(c, l) \in {0, 1}
  BY DEF Held
<1>4. Heard(c, l) = said[c][l] - (Times(inbox, Said(c, l)) + Held(c, l))
  BY DEF Heard, Pending, Times, Said, Held
<1> QED
  BY <1>1, <1>2, <1>3, <1>4

Finishes(c, l) == pc # "idle" /\ pc' = "idle" /\ cur.chan = c /\ cur.line = l

(* The archivist loses lines, but hears none that it did not: what was     *)
(* heard grows, by one with a line it is done with.                        *)
LEMMA HeardGrows ==
  ASSUME Typed, Typed', [Next]_vars, NEW c \in Names, NEW l \in Lines
  PROVE  /\ Heard(c, l) \in Int /\ Heard(c, l)' \in Int
         /\ Heard(c, l)' >= Heard(c, l) + (IF Finishes(c, l) THEN 1 ELSE 0)
<1> DEFINE t == Times(inbox, Said(c, l))
<1>1. /\ Heard(c, l) = said[c][l] - (t + Held(c, l)) /\ Heard(c, l) \in Int
      /\ said[c][l] \in Nat /\ t \in Nat /\ Held(c, l) \in {0, 1}
  BY HeardIs
<1>2. /\ Heard(c, l)' = said'[c][l] - (t' + Held(c, l)') /\ Heard(c, l)' \in Int
      /\ said'[c][l] \in Nat /\ t' \in Nat /\ Held(c, l)' \in {0, 1}
  <2>1. t' \in Nat
    <3>1. inbox' \in Seq(Message)
      BY DEF Typed, LinkTyped, Message
    <3> QED
      BY <3>1, TimesNat
  <2>2. said'[c][l] \in Nat
    BY DEF Typed, GhostsTyped, Bag
  <2>3. Held(c, l)' \in {0, 1}
    BY DEF Held
  <2>4. Heard(c, l)' = said'[c][l] - (t' + Held(c, l)')
    BY DEF Heard, Pending, Times, Said, Held
  <2> QED
    BY <2>1, <2>2, <2>3, <2>4
<1>3. inbox \in Seq(Message) /\ <<>> \in Seq(Message) /\ Times(<<>>, Said(c, l)) = 0
  <2>1. <<>> \in Seq(Message) /\ inbox \in Seq(Message)
    BY InboxOps DEF Typed, LinkTyped, Message
  <2> QED
    BY <2>1, TimesNat
<1>4. Finishes(c, l) => Held(c, l) = 1 /\ Held(c, l)' = 0
  BY DEF Finishes, Held
<1> DEFINE Kind == /\ said'[c][l] >= said[c][l]
                   /\ said'[c][l] - said[c][l] >= t' + Held(c, l)' - t - Held(c, l)
                                                  + (IF Finishes(c, l) THEN 1 ELSE 0)
<1>5. Kind
  <2>1. CASE People
    <3>1. PICK e \in Names, k \in Lines : Say(e, k)
      BY <2>1 DEF People
    <3>2. said' = [said EXCEPT ![e][k] = @ + 1] /\ UNCHANGED <<pc, cur>> /\ said \in Bag
      BY <3>1 DEF Say, logger, Typed, GhostsTyped
    <3>3. inbox' = inbox \/ inbox' = Append(inbox, Said(e, k))
      BY <3>1 DEF Say, Said
    <3>4. Held(c, l)' = Held(c, l) /\ ~Finishes(c, l)
      BY <3>2 DEF Held, Finishes
    <3>5. Said(e, k) \in Message
      BY DEF Said, Message
    <3>6. t' = t \/ t' = t + (IF Said(e, k) = Said(c, l) THEN 1 ELSE 0)
      <4>1. Times(Append(inbox, Said(e, k)), Said(c, l))
              = t + (IF Said(e, k) = Said(c, l) THEN 1 ELSE 0)
        BY <1>3, <3>5, TimesAppended
      <4> QED
        BY <3>3, <4>1
    <3>7. CASE e = c /\ k = l
      <4>1. said'[c][l] = said[c][l] + 1
        BY <3>2, <3>7 DEF Bag
      <4>2. t' <= t + 1
        BY <1>1, <1>2, <3>6
      <4> QED
        BY <1>1, <1>2, <3>4, <4>1, <4>2
    <3>8. CASE ~(e = c /\ k = l)
      <4>1. said'[c][l] = said[c][l]
        BY <3>2, <3>8 DEF Bag
      <4>2. Said(e, k) # Said(c, l)
        BY <3>8 DEF Said
      <4>3. t' = t
        BY <1>1, <3>6, <4>2
      <4> QED
        BY <1>1, <1>2, <3>4, <4>1, <4>3
    <3> QED
      BY <3>7, <3>8
  <2>2. CASE said' = said /\ inbox' \in {inbox, <<>>} /\ UNCHANGED <<pc, cur>>
    <3>1. t' = t \/ t' = 0
      BY <1>3, <2>2
    <3>2. Held(c, l)' = Held(c, l) /\ ~Finishes(c, l) /\ said' = said
      BY <2>2 DEF Held, Finishes
    <3> HIDE DEF t
    <3> QED
      BY <1>1, <1>2, <3>1, <3>2
  <2>3. CASE said' = said /\ inbox' = <<>> /\ pc' = "idle"
    <3>1. t' = 0 /\ Held(c, l)' = 0 /\ said' = said
      BY <1>3, <2>3 DEF Held
    <3>2. Held(c, l) >= IF Finishes(c, l) THEN 1 ELSE 0
      BY <1>1, <1>4
    <3> HIDE DEF t
    <3> QED
      BY <1>1, <1>2, <3>1, <3>2
  <2>4. CASE TakeUp
    <3>1. /\ said' = said /\ pc = "idle" /\ pc' # "idle" /\ inbox # <<>> /\ inbox' = Tail(inbox)
          /\ cur'.chan = Head(inbox).chan /\ cur'.line = Head(inbox).line
      BY <2>4 DEF TakeUp
    <3>2. t = t' + (IF Head(inbox) = Said(c, l) THEN 1 ELSE 0)
      BY <1>3, <3>1, TimesTail
    <3>3. Head(inbox) \in Message
      BY <1>3, <3>1, InboxOps
    <3>4. Head(inbox) = Said(c, l) <=> cur'.chan = c /\ cur'.line = l
      BY <3>1, <3>3 DEF Said, Message
    <3>5. Held(c, l) = 0 /\ Held(c, l)' = (IF Head(inbox) = Said(c, l) THEN 1 ELSE 0)
          /\ ~Finishes(c, l)
      BY <3>1, <3>4 DEF Held, Finishes
    <3> HIDE DEF t
    <3> QED
      BY <1>1, <1>2, <3>1, <3>2, <3>5
  <2>5. CASE /\ said' = said /\ inbox' = inbox /\ pc # "idle" /\ pc' # "idle"
             /\ cur'.chan = cur.chan /\ cur'.line = cur.line
    <3>1. Held(c, l)' = Held(c, l) /\ ~Finishes(c, l) /\ t' = t
      BY <2>5 DEF Held, Finishes
    <3> HIDE DEF t
    <3> QED
      BY <1>1, <1>2, <2>5, <3>1
  <2>6. CASE Insert
    <3>1. said' = said /\ t' = t /\ Held(c, l)' = 0 /\ Held(c, l) = IF Finishes(c, l) THEN 1 ELSE 0
      BY <2>6, RowInserted DEF Held, Finishes
    <3> HIDE DEF t
    <3> QED
      BY <1>1, <1>2, <3>1
  <2>7. CASE UNCHANGED vars \/ Owner \/ Reconnect \/ Cut \/ Import
    <3>1. said' = said /\ inbox' \in {inbox, <<>>} /\ UNCHANGED <<pc, cur>>
      BY <2>7, Prepared, Ended DEF vars, logger, link, Owner, DeleteChannel, AddChannel, Reconnect, Cut,
                                   Import, ImportDocument
    <3> QED
      BY <2>2, <3>1
  <2>8. CASE Restart \/ NameTaken \/ ChannelGone \/ LockTimeout
    <3>1. said' = said /\ inbox' = <<>> /\ pc' = "idle"
      BY <2>8 DEF Restart, NameTaken, ChannelGone, LockTimeout, Raise
    <3> QED
      BY <2>3, <3>1
  <2>9. CASE NewChannel \/ LookNick \/ NewNick \/ DrawSeq
    <3>1. /\ said' = said /\ inbox' = inbox /\ pc # "idle" /\ pc' # "idle"
          /\ cur'.chan = cur.chan /\ cur'.line = cur.line
      BY <2>9 DEF NewChannel, LookNick, NewNick, DrawSeq, link, Typed, LoggerTyped
    <3> QED
      BY <2>5, <3>1
  <2> QED
    BY <2>1, <2>4, <2>6, <2>7, <2>8, <2>9 DEF Next, Connection, Store
<1> QED
  <2> HIDE DEF t
  <2> QED
    BY <1>1, <1>2, <1>5

Calm == ~overtook /\ deleted = {}

LEMMA OvertakenStays ==
  ASSUME [Next]_vars
  PROVE  overtook => overtook'
<1>1. CASE UNCHANGED vars \/ People \/ Owner \/ Connection \/ Store
  BY <1>1 DEF vars, history, People, Owner, Connection, Store, Say, DeleteChannel, AddChannel,
     Reconnect, Cut, Restart, TakeUp, NewChannel, LookNick, NewNick, NameTaken, DrawSeq, Insert,
     ChannelGone, LockTimeout, Raise
<1>2. CASE StartImport
  BY <1>2 DEF StartImport
<1>3. CASE ReadSnapshot \/ ImportDocument \/ ImportEnds \/ ImportRefused \/ ImportFails
  BY <1>3 DEF ReadSnapshot, ImportDocument, ImportEnds, ImportRefused, ImportFails, history
<1> QED
  BY <1>1, <1>2, <1>3 DEF Next, Import

LEMMA CalmBefore ==
  ASSUME Typed, Kept, [Next]_vars, Calm'
  PROVE  Calm
BY ArchiveGrows, OvertakenStays DEF Calm

LEMMA RowsStayHeard ==
  ASSUME Typed, Typed', [Next]_vars, NEW rows \in SUBSET Row, RowsHeard(rows)
  PROVE  \A r \in rows : r.seq < Heard(r.of, r.line)'
<1>1. SUFFICES ASSUME NEW r \in rows
               PROVE  r.seq < Heard(r.of, r.line)'
  OBVIOUS
<1>2. r.of \in Names /\ r.line \in Lines /\ r.seq \in Nat /\ r.seq < Heard(r.of, r.line)
  BY DEF Row, RowsHeard
<1>3. PICK a, b : a = Heard(r.of, r.line) /\ b = Heard(r.of, r.line)'
  OBVIOUS
<1>4. a \in Int /\ b \in Int /\ b >= a
  <2>1. /\ Heard(r.of, r.line) \in Int /\ Heard(r.of, r.line)' \in Int
        /\ Heard(r.of, r.line)' >= Heard(r.of, r.line)
                                     + (IF Finishes(r.of, r.line) THEN 1 ELSE 0)
    BY <1>2, HeardGrows
  <2> QED
    BY <1>3, <2>1
<1> QED
  BY <1>2, <1>3, <1>4

(* How many rows a line has.                                               *)
LEMMA StoredIsHeard ==
  ASSUME Typed, Identity, NoneAhead, Calm, NEW c \in Names, NEW l \in Lines
  PROVE  /\ Cardinality(Numbered(db, db.chan[c], l)) <= Heard(c, l)
         /\ Cardinality(Numbered(db, db.chan[c], l)) \in Nat /\ Heard(c, l) \in Nat
<1> DEFINE S == Numbered(db, db.chan[c], l)
<1>1. Heard(c, l) \in Nat
  BY HeardIs DEF NoneAhead, Calm
<1>2. \A r \in S : r \in db.rows /\ r \in Row /\ r.cid = db.chan[c] /\ r.line = l /\ r.of = c
  <2>1. \A r \in S : r \in db.rows /\ r \in Row /\ r.cid = db.chan[c] /\ r.line = l /\ r.cid # 0
    BY DEF Numbered, Typed, DbTyped, Database, Row, Id
  <2>2. \A r \in db.rows : Points(db, deleted, r.cid, r.of)
    BY DEF Identity, Sound
  <2>3. c \in Settled(deleted)
    BY DEF Calm, Settled
  <2> QED
    BY <2>1, <2>2, <2>3 DEF Points
<1>3. \A r \in S : r.seq \in Nat /\ r.seq < Heard(c, l)
  BY <1>2 DEF Row, NoneAhead, Calm, RowsHeard
<1>4. \A r, o \in S : r.seq = o.seq => r = o
  BY <1>2 DEF Identity, Sound, Keyed
<1>5. Cardinality(S) <= Heard(c, l)
  <2> HIDE DEF S
  <2> QED
    BY <1>1, <1>3, <1>4, NoMoreRows
<1>6. Cardinality(S) \in Nat
  <2>1. S \subseteq db.rows /\ IsFiniteSet(db.rows)
    BY DEF Numbered, Typed, DbTyped
  <2> QED
    BY <2>1, FS_Subset, FS_CardinalityType
<1> QED
  BY <1>1, <1>5, <1>6

LEMMA DrawIsHeard ==
  ASSUME Typed, Identity, NoneAhead, Calm, DrawSeq
  PROVE  \E n \in Nat :
           /\ n <= Heard(cur.chan, cur.line) /\ cur'.seq = n
           /\ cur'.chan = cur.chan /\ cur'.line = cur.line /\ cur.chan \in Names /\ cur.line \in Lines
           /\ cur.cid = db.chan[cur.chan] /\ cur.cid \in Id /\ pc = "seq" /\ pc' = "insert"
           /\ ids.seq \in [Id \X Lines -> Nat]
           /\ ids'.seq = [ids.seq EXCEPT ![<<cur.cid, cur.line>>] = n + 1]
           /\ UNCHANGED <<db, deleted, overtook, job>>
<1>1. PICK n : n = NextSeq(ids, cur.cid, cur.line, FirstLive(db, cur.cid, cur.line))
  OBVIOUS
<1>2. /\ cur' = [cur EXCEPT !.seq = n] /\ ids' = [ids EXCEPT !.seq[<<cur.cid, cur.line>>] = n + 1]
      /\ pc = "seq" /\ pc' = "insert" /\ UNCHANGED <<db, deleted, overtook, job>>
  BY <1>1 DEF DrawSeq, history
<1>3. cur.chan \in Names /\ cur.line \in Lines /\ cur.cid \in Id
      /\ Points(db, deleted, cur.cid, cur.chan)
  BY <1>2 DEF Typed, LoggerTyped, Id, Identity, Named
<1>4. cur.cid = db.chan[cur.chan]
  BY <1>3 DEF Points, Settled, Calm, Id
<1>5. ids.seq \in [Id \X Lines -> Nat]
      /\ ids'.seq = [ids.seq EXCEPT ![<<cur.cid, cur.line>>] = n + 1]
      /\ cur'.seq = n /\ cur'.chan = cur.chan /\ cur'.line = cur.line
  BY <1>2 DEF Typed, LoggerTyped, Cache
<1>6. PICK k : k = ids.seq[<<cur.cid, cur.line>>]
  OBVIOUS
<1>7. k \in Nat /\ k <= Heard(cur.chan, cur.line)
  <2>1. k = NextNumber(cur.chan, cur.line) /\ ~InHand(cur.chan, cur.line)
    BY <1>2, <1>4, <1>6 DEF NextNumber, InHand
  <2>2. k \in Nat /\ Heard(cur.chan, cur.line) \in Nat
    BY <1>3, <1>5, <1>6, StoredIsHeard
  <2>3. NextNumber(cur.chan, cur.line) <= Heard(cur.chan, cur.line) + 0
    BY <1>3, <1>4, <2>1 DEF NoneAhead, Calm, Id
  <2> QED
    BY <2>1, <2>2, <2>3
<1>8. /\ FirstLive(db, cur.cid, cur.line) \in Nat
      /\ FirstLive(db, cur.cid, cur.line) <= Heard(cur.chan, cur.line)
  BY <1>3, <1>4, StoredIsHeard DEF FirstLive
<1>9. n \in Nat /\ n <= Heard(cur.chan, cur.line)
  BY <1>1, <1>6, <1>7, <1>8 DEF NextSeq
<1> QED
  BY <1>2, <1>3, <1>4, <1>5, <1>9

(* The last two parts of NoneAhead, with a number in hand.                 *)
NumbersHeard ==
  /\ \A c \in Names, l \in Lines : InHand(c, l) => cur.seq <= Heard(c, l)
  /\ \A c \in Names, l \in Lines : db.chan[c] # 0 =>
       NextNumber(c, l) <= Heard(c, l) + (IF InHand(c, l) THEN 1 ELSE 0)

LEMMA DrawnNumbersHeard ==
  ASSUME Typed, Typed', Identity, NoneAhead, Calm, DrawSeq
  PROVE  NumbersHeard'
<1>1. PICK n \in Nat :
         /\ n <= Heard(cur.chan, cur.line) /\ cur'.seq = n
         /\ cur'.chan = cur.chan /\ cur'.line = cur.line /\ cur.chan \in Names /\ cur.line \in Lines
         /\ cur.cid = db.chan[cur.chan] /\ cur.cid \in Id /\ pc = "seq" /\ pc' = "insert"
         /\ ids.seq \in [Id \X Lines -> Nat]
         /\ ids'.seq = [ids.seq EXCEPT ![<<cur.cid, cur.line>>] = n + 1]
         /\ UNCHANGED <<db, deleted, overtook, job>>
  BY DrawIsHeard
<1>2. [Next]_vars
  BY DEF Next, Store
<1>3. ASSUME NEW c \in Names, NEW l \in Lines
      PROVE  Heard(c, l) \in Int /\ Heard(c, l)' \in Int /\ Heard(c, l)' >= Heard(c, l)
  <2>1. ~Finishes(c, l)
    BY <1>1 DEF Finishes
  <2> QED
    BY <1>2, <2>1, HeardGrows
<1>4. ASSUME NEW c \in Names, NEW l \in Lines, InHand(c, l)'
      PROVE  cur'.seq <= Heard(c, l)'
  <2>1. c = cur.chan /\ l = cur.line
    BY <1>1, <1>4 DEF InHand
  <2>2. cur'.seq = n /\ n <= Heard(c, l)
    BY <1>1, <2>1
  <2> QED
    BY <1>3, <2>2
<1>6. ASSUME NEW c \in Names, NEW l \in Lines, db'.chan[c] # 0
      PROVE  NextNumber(c, l)' <= Heard(c, l)' + (IF InHand(c, l)' THEN 1 ELSE 0)
  <2>1. NextNumber(c, l)' = ids'.seq[<<db.chan[c], l>>] /\ db.chan[c] \in Id /\ db.chan[c] # 0
    BY <1>1, <1>6 DEF NextNumber, Typed, DbTyped, Database, Id
  <2>2. CASE c = cur.chan /\ l = cur.line
    <3>1. NextNumber(c, l)' = n + 1 /\ InHand(c, l)'
      BY <1>1, <2>1, <2>2 DEF InHand
    <3>2. n <= Heard(c, l) /\ Heard(c, l)' >= Heard(c, l) /\ Heard(c, l) \in Int /\ Heard(c, l)' \in Int
      BY <1>1, <1>3, <2>2
    <3> QED
      BY <3>1, <3>2
  <2>3. CASE ~(c = cur.chan /\ l = cur.line)
    <3>1. <<db.chan[c], l>> # <<cur.cid, cur.line>>
      BY <1>1, <2>1, <2>3 DEF Identity, Sound, UniqueIds
    <3>2. NextNumber(c, l)' = NextNumber(c, l) /\ NextNumber(c, l) \in Nat
      BY <1>1, <2>1, <3>1 DEF NextNumber
    <3>3. ~InHand(c, l) /\ ~InHand(c, l)'
      BY <1>1, <2>3 DEF InHand
    <3>4. NextNumber(c, l) <= Heard(c, l) + 0
      BY <2>1, <3>3 DEF NoneAhead, Calm
    <3> QED
      BY <1>3, <3>2, <3>3, <3>4
  <2> QED
    BY <2>2, <2>3
<1> QED
  BY <1>1, <1>4, <1>6 DEF NumbersHeard

LEMMA NumbersStayHeard ==
  ASSUME Typed, Typed', Kept, Identity, Identity', NewIsUnheard, NoneAhead, Calm, Calm',
         [Next]_vars, ~DrawSeq
  PROVE  NumbersHeard'
<1>1. NumbersHeard
  BY DEF NoneAhead, NumbersHeard, Calm
<1>2. ASSUME NEW c \in Names, NEW l \in Lines
      PROVE  /\ Heard(c, l) \in Int /\ Heard(c, l)' \in Int
             /\ Heard(c, l)' >= Heard(c, l) + (IF Finishes(c, l) THEN 1 ELSE 0)
  BY HeardGrows
<1>3. /\ pc = "insert" => UNCHANGED <<pc, cur>> \/ pc' = "idle"
      /\ pc' = "insert" => UNCHANGED <<pc, cur>>
  BY HandStays
<1>4. ASSUME NEW c \in Names, NEW l \in Lines, InHand(c, l)'
      PROVE  cur'.seq <= Heard(c, l)'
  <2>1. UNCHANGED <<pc, cur>> /\ InHand(c, l)
    BY <1>3, <1>4 DEF InHand
  <2>2. cur.seq <= Heard(c, l) /\ cur.seq \in Nat /\ ~Finishes(c, l)
    BY <1>1, <2>1 DEF NumbersHeard, Typed, LoggerTyped, Finishes, InHand
  <2> QED
    BY <1>2, <2>1, <2>2
<1>5. ids'.seq = ids.seq \/ ids'.seq = NoIds.seq
  BY NumbersStay
<1>6. \A k \in Id, l \in Lines : NoIds.seq[<<k, l>>] = 0
  BY DEF NoIds
<1>7. \A c \in Names : db.chan[c] # 0 => db'.chan[c] = db.chan[c]
  BY ArchiveGrows DEF Extends, Calm
<1>8. ASSUME NEW k \in Id, NEW l \in Lines, ids'.seq[<<k, l>>] # 0
      PROVE  \E c \in Names : db.chan[c] = k /\ db'.chan[c] = k
  <2>1. ids.seq[<<k, l>>] # 0
    BY <1>5, <1>6, <1>8
  <2>2. PICK c \in Names : db.chan[c] = k
    BY <2>1 DEF NewIsUnheard, Calm, HasChannel
  <2>3. db'.chan[c] = k
    BY <1>7, <2>2 DEF Id
  <2> QED
    BY <2>2, <2>3
<1>9. ASSUME NEW c \in Names, NEW l \in Lines, db'.chan[c] # 0
      PROVE  NextNumber(c, l)' <= Heard(c, l)' + (IF InHand(c, l)' THEN 1 ELSE 0)
  <2>1. /\ NextNumber(c, l)' = ids'.seq[<<db'.chan[c], l>>] /\ db'.chan[c] \in Id
        /\ NextNumber(c, l)' \in Nat
    BY <1>9 DEF NextNumber, Typed, DbTyped, LoggerTyped, Database, Cache, Id
  <2>2. Heard(c, l)' >= 0
    <3>1. Heard(c, l) \in Nat
      BY StoredIsHeard
    <3> QED
      BY <1>2, <3>1
  <2>3. CASE NextNumber(c, l)' = 0
    BY <1>2, <2>2, <2>3
  <2>4. CASE NextNumber(c, l)' # 0
    <3>1. PICK e \in Names : db.chan[e] = db'.chan[c] /\ db'.chan[e] = db'.chan[c]
      BY <1>8, <2>1, <2>4
    <3>2. e = c
      BY <1>9, <3>1 DEF Identity, Sound, UniqueIds
    <3>3. NextNumber(c, l)' = NextNumber(c, l) /\ db.chan[c] # 0
      BY <1>5, <1>6, <1>9, <2>1, <2>4, <3>1, <3>2 DEF NextNumber
    <3>4. NextNumber(c, l) <= Heard(c, l) + (IF InHand(c, l) THEN 1 ELSE 0)
      BY <1>1, <3>3 DEF NumbersHeard
    <3>5. InHand(c, l) => InHand(c, l)' \/ Finishes(c, l)
      BY <1>3 DEF InHand, Finishes
    <3> QED
      BY <1>2, <2>1, <3>3, <3>4, <3>5
  <2> QED
    BY <2>3, <2>4
<1> QED
  BY <1>4, <1>9 DEF NumbersHeard

LEMMA DocumentsStayHeard ==
  ASSUME Typed, Typed', Kept, NoneAhead, Calm, Calm', [Next]_vars
  PROVE  DocumentsHeard'
<1>1. DocumentsHeard
  BY DEF NoneAhead, Calm
<1>2. ASSUME NEW d \in Doc, NEW l \in Lines, d.lines[l] <= Heard(d.chan, l)
      PROVE  d.lines[l] <= Heard(d.chan, l)'
  <2>1. d.chan \in Names /\ d.lines[l] \in Nat
    BY DEF Doc
  <2>2. PICK a, b : a = Heard(d.chan, l) /\ b = Heard(d.chan, l)'
    OBVIOUS
  <2>3. a \in Int /\ b \in Int /\ b >= a
    BY <2>1, <2>2, HeardGrows
  <2> QED
    BY <1>2, <2>1, <2>2, <2>3
<1>3. job.docs \in Seq(Doc) /\ \A i \in DOMAIN job.docs : job.docs[i] \in Doc
  <2>1. job.docs \in Seq(Doc)
    BY DEF Typed, JobTyped, Job
  <2> DEFINE D == Doc
  <2> HIDE DEF D
  <2>2. job.docs \in Seq(D)
    BY <2>1 DEF D
  <2>3. \A i \in DOMAIN job.docs : job.docs[i] \in D
    BY <2>2
  <2> QED
    BY <2>1, <2>3 DEF D
<1>4. CASE job'.docs = job.docs \/ job'.docs = <<>>
  BY <1>1, <1>2, <1>3, <1>4 DEF DocumentsHeard
<1>5. CASE StartImport
  <2>1. PICK n \in 1..MaxDocs : \E docs \in [1..n -> Logs] :
          /\ job'.docs = docs
          /\ overtook' = (overtook \/ \E i \in 1..n, l \in Lines :
               docs[i].lines[l] > said[docs[i].chan][l] - Pending(docs[i].chan, l))
    BY <1>5 DEF StartImport, NoJob
  <2>2. PICK docs \in [1..n -> Logs] :
          /\ job'.docs = docs
          /\ overtook' = (overtook \/ \E i \in 1..n, l \in Lines :
               docs[i].lines[l] > said[docs[i].chan][l] - Pending(docs[i].chan, l))
    BY <2>1
  <2>3. SUFFICES ASSUME NEW i \in 1..n, NEW l \in Lines
                 PROVE  docs[i].lines[l] <= Heard(docs[i].chan, l)'
    BY <2>2 DEF DocumentsHeard
  <2>4. ~(docs[i].lines[l] > Heard(docs[i].chan, l))
    BY <2>2 DEF Calm, Heard
  <2>5. docs[i] \in Doc
    BY <2>2 DEF Logs, Doc
  <2>6. docs[i].lines[l] \in Nat /\ docs[i].chan \in Names
    BY <2>5 DEF Doc
  <2>7. Heard(docs[i].chan, l) \in Int
    BY <2>6, HeardIs
  <2>8. docs[i].lines[l] <= Heard(docs[i].chan, l)
    BY <2>4, <2>6, <2>7
  <2> QED
    BY <1>2, <2>5, <2>8
<1>6. CASE ImportDocument
  <2>1. job.docs # <<>> /\ job'.docs = Tail(job.docs)
    <3>1. PICK doc \in Doc, known \in 0..MaxId, cid \in Id, rows \in SUBSET Row :
            DocumentEffect(doc, known, cid, rows)
      BY <1>6, DocumentImported DEF Typed
    <3> QED
      BY <3>1 DEF DocumentEffect
  <2>2. \A i \in DOMAIN job'.docs : \E j \in DOMAIN job.docs : job'.docs[i] = job.docs[j]
    <3> DEFINE D == Doc
    <3> HIDE DEF D
    <3>1. job.docs \in Seq(D)
      BY <1>3 DEF D
    <3>2. \A i \in 1..Len(Tail(job.docs)) :
            i + 1 \in 1..Len(job.docs) /\ Tail(job.docs)[i] = job.docs[i + 1]
      BY <2>1, <3>1
    <3>3. DOMAIN job'.docs = 1..Len(Tail(job.docs)) /\ DOMAIN job.docs = 1..Len(job.docs)
      BY <2>1, <3>1
    <3> QED
      BY <2>1, <3>2, <3>3
  <2> QED
    BY <1>1, <1>2, <1>3, <2>2 DEF DocumentsHeard
<1>7. CASE ReadSnapshot \/ ImportRefused \/ ImportFails \/ ImportEnds \/ ~Import
  <2>1. CASE ReadSnapshot
    BY <1>4, <2>1 DEF ReadSnapshot, Typed, JobTyped, Job
  <2>2. CASE ImportRefused \/ ImportFails
    BY <1>4, <2>2 DEF ImportRefused, ImportFails, NoJob
  <2>3. CASE ImportEnds
    BY <1>4, <2>3, Ended
  <2>4. CASE ~Import
    BY <1>4, <2>4, LiveLeavesImports DEF Next, vars
  <2> QED
    BY <1>7, <2>1, <2>2, <2>3, <2>4
<1> QED
  BY <1>5, <1>6, <1>7 DEF Import


(* A row an import makes is numbered below what its document has.          *)
LEMMA DocumentRowsHeard ==
  ASSUME Typed, Typed', NoneAhead, Calm, ImportDocument
  PROVE  \A r \in job'.view.rows : r.seq < Heard(r.of, r.line)'
<1>1. PICK doc \in Doc, known \in 0..MaxId, cid \in Id, rows \in SUBSET Row :
        DocumentEffect(doc, known, cid, rows)
  BY DocumentImported DEF Typed
<1>2. /\ doc = Head(job.docs) /\ job.docs # <<>> /\ job'.view.rows = InsertOrIgnore(job.view.rows, rows)
      /\ \A r \in rows : r.of = doc.chan /\ r.seq < doc.lines[r.line]
  BY <1>1 DEF DocumentEffect
<1>3. RowsHeard(job.view.rows)
  <2>1. Locked \/ db = job.view
    BY DEF ImportDocument, Locked
  <2> QED
    BY <2>1 DEF NoneAhead, Calm
<1>4. RowsHeard(rows)
  <2>1. SUFFICES ASSUME NEW r \in rows
                 PROVE  r.seq < Heard(r.of, r.line)
    BY DEF RowsHeard
  <2>2. 1 \in DOMAIN job.docs /\ job.docs[1] = doc
    <3> DEFINE D == Doc
    <3>1. job.docs \in Seq(D)
      BY DEF Typed, JobTyped, Job
    <3> HIDE DEF D
    <3>2. Len(job.docs) \in Nat /\ Len(job.docs) # 0 /\ DOMAIN job.docs = 1..Len(job.docs)
          /\ Head(job.docs) = job.docs[1]
      BY <1>2, <3>1
    <3> QED
      BY <1>2, <3>2
  <2>3. r.of = doc.chan /\ r.line \in Lines /\ r.of \in Names /\ r.seq \in Nat
    BY <1>2 DEF Row
  <2>4. doc.lines[r.line] <= Heard(r.of, r.line)
    BY <2>2, <2>3 DEF NoneAhead, Calm, DocumentsHeard
  <2>5. doc.lines[r.line] \in Nat
    BY <2>3 DEF Doc
  <2>6. Heard(r.of, r.line) \in Int
    BY <2>3, HeardIs
  <2> QED
    BY <1>2, <2>3, <2>4, <2>5, <2>6
<1>5. [Next]_vars
  BY DEF Next, Import
<1>6. job.view.rows \subseteq Row
  BY DEF Typed, JobTyped, Job, Database
<1>7. \A r \in job.view.rows : r.seq < Heard(r.of, r.line)'
  BY <1>3, <1>5, <1>6, RowsStayHeard
<1>8. \A r \in rows : r.seq < Heard(r.of, r.line)'
  BY <1>4, <1>5, RowsStayHeard
<1> QED
  BY <1>2, <1>7, <1>8, Inserted

(* The row the archivist inserts is heard by its insertion.                *)
LEMMA InsertedRowHeard ==
  ASSUME Typed, Typed', NoneAhead, Calm, Insert
  PROVE  \A r \in db'.rows : r.seq < Heard(r.of, r.line)'
<1>1. db'.rows = InsertOrIgnore(db.rows, {TheRow}) /\ pc = "insert" /\ pc' = "idle"
  BY RowInserted
<1>2. [Next]_vars
  BY DEF Next, Store
<1>3. \A r \in db.rows : r.seq < Heard(r.of, r.line)'
  <2>1. RowsHeard(db.rows) /\ db.rows \subseteq Row
    BY DEF NoneAhead, Calm, Typed, DbTyped, Database
  <2> QED
    BY <1>2, <2>1, RowsStayHeard
<1>4. PICK c \in Names, l \in Lines : c = cur.chan /\ l = cur.line
  BY <1>1 DEF Typed, LoggerTyped
<1>5. cur.seq < Heard(c, l)'
  <2>1. cur.seq <= Heard(c, l) /\ cur.seq \in Nat
    BY <1>1, <1>4 DEF NoneAhead, Calm, InHand, Typed, LoggerTyped
  <2>2. Finishes(c, l)
    BY <1>1, <1>4 DEF Finishes
  <2>3. Heard(c, l) \in Int /\ Heard(c, l)' \in Int /\ Heard(c, l)' >= Heard(c, l) + 1
    BY <1>2, <2>2, HeardGrows
  <2> QED
    BY <2>1, <2>3
<1>6. ASSUME NEW r \in db'.rows
      PROVE  r.seq < Heard(r.of, r.line)'
  <2>1. r \in db.rows \/ (r.of = c /\ r.line = l /\ r.seq = cur.seq)
    BY <1>1, <1>4, <1>6, Inserted DEF TheRow
  <2> QED
    BY <1>3, <1>5, <2>1
<1> QED
  BY <1>6

LEMMA NoneAheadStep ==
  ASSUME Typed, Kept, Identity, NewIsUnheard, NoneAhead, [Next]_vars
  PROVE  NoneAhead'
<1>1. SUFFICES ASSUME Calm'
               PROVE  NoneAhead'
  BY DEF NoneAhead, Calm
<1>2. Typed' /\ Identity' /\ Calm
  BY <1>1, TypedStep, IdentityStep, CalmBefore
<1>3. ASSUME NEW c \in Names, NEW l \in Lines
      PROVE  Heard(c, l)' >= 0
  <2>1. /\ Heard(c, l) \in Int /\ Heard(c, l)' \in Int
        /\ Heard(c, l)' >= Heard(c, l) + (IF Finishes(c, l) THEN 1 ELSE 0)
    BY <1>2, HeardGrows
  <2>2. Heard(c, l) >= 0
    BY <1>2 DEF NoneAhead, Calm
  <2> QED
    BY <2>1, <2>2
<1>4. NumbersHeard'
  BY <1>1, <1>2, DrawnNumbersHeard, NumbersStayHeard
<1>5. DocumentsHeard'
  BY <1>1, <1>2, DocumentsStayHeard
<1>6. ASSUME NEW rows \in SUBSET Row, RowsHeard(rows)
      PROVE  \A r \in rows : r.seq < Heard(r.of, r.line)'
  BY <1>2, <1>6, RowsStayHeard
<1>7. db.rows \subseteq Row /\ RowsHeard(db.rows)
  BY <1>2 DEF NoneAhead, Calm, Typed, DbTyped, Database
<1>8. Locked => job.view.rows \subseteq Row /\ RowsHeard(job.view.rows)
  BY <1>2 DEF NoneAhead, Calm, Typed, JobTyped, Job, Database
<1>9. \A r \in db'.rows : r.seq < Heard(r.of, r.line)'
  <2>1. CASE db'.rows = db.rows
    BY <1>6, <1>7, <2>1
  <2>2. CASE Insert
    BY <1>2, <2>2, InsertedRowHeard
  <2>3. CASE ImportEnds /\ db' = job.view
    BY <1>6, <1>8, <2>3, Ended
  <2> QED
    BY <2>1, <2>2, <2>3, RowsChange
<1>10. Locked' => \A r \in job'.view.rows : r.seq < Heard(r.of, r.line)'
  <2>1. CASE job' = job
    BY <1>6, <1>8, <2>1 DEF Locked
  <2>2. CASE ImportDocument
    BY <1>2, <2>2, DocumentRowsHeard
  <2>3. CASE ~Locked'
    BY <2>3
  <2> QED
    BY <2>1, <2>2, <2>3, LiveLeavesImports, Prepared, Ended DEF Next, Import, vars
<1> QED
  BY <1>3, <1>4, <1>5, <1>9, <1>10 DEF NoneAhead, NumbersHeard, RowsHeard

LEMMA NoneAheadInit ==
  ASSUME Init
  PROVE  NoneAhead
<1>1. /\ db.rows = {} /\ ids = NoIds /\ pc = "idle" /\ job = NoJob /\ said = Nothing
      /\ inbox = <<>> /\ db \in Database
  <2>1. Typed
    BY TypedInit
  <2> QED
    BY <2>1 DEF Init, Typed, DbTyped
<1>2. ASSUME NEW c \in Names, NEW l \in Lines
      PROVE  Heard(c, l) = 0 /\ ~InHand(c, l)
  <2>1. {i \in DOMAIN inbox : inbox[i] = [chan |-> c, line |-> l]} = {}
    BY <1>1
  <2>2. Pending(c, l) = 0
    BY <1>1, <2>1, FS_EmptySet DEF Pending
  <2>3. said[c][l] = 0
    BY <1>1 DEF Nothing
  <2> QED
    BY <1>1, <2>2, <2>3 DEF Heard, InHand
<1>3. \A k \in Id, l \in Lines : ids.seq[<<k, l>>] = 0
  BY <1>1 DEF NoIds
<1>4. \A c \in Names, l \in Lines : db.chan[c] # 0 => NextNumber(c, l) = 0
  BY <1>1, <1>3 DEF NextNumber, Database, Id
<1>5. DocumentsHeard /\ ~Locked
  <2>1. job.docs = <<>> /\ job.pc = "none"
    BY <1>1 DEF NoJob
  <2> QED
    BY <2>1 DEF DocumentsHeard, Locked
<1> QED
  BY <1>1, <1>2, <1>3, <1>4, <1>5 DEF NoneAhead, RowsHeard

-----------------------------------------------------------------------------
(* The inductive invariant of the counts: whose id is whose, what an       *)
(* import adds, how numbers follow on each other, and that they are heard. *)

Counted == IInv /\ Identity /\ NewIsDone /\ NumbersFollow /\ NewIsUnheard /\ NoneAhead

(* It holds initially, and whatever the live process and an import do in   *)
(* whichever order, a step keeps it (db.py:437 to 492, backfill.py:314).   *)
THEOREM CountInvariant == Spec => []Counted
<1>1. Init => Counted
  <2>1. Init => NewIsDone
    BY DEF Init, NoJob, NewIsDone, Locked
  <2>2. Init => NewIsUnheard
    BY DEF Init, NoIds, Nothing, NewIsUnheard
  <2> QED
    BY <2>1, <2>2, TypedInit, KeptInit, IdentityInit, NumbersFollowInit, NoneAheadInit
    DEF Counted, IInv
<1>2. Counted /\ IInv' /\ [Next]_vars => Counted'
  BY IdentityStep, IsDoneStep, NumbersFollowStep, UnheardStep, NoneAheadStep DEF Counted, IInv
<1> QED
  BY <1>1, <1>2, ArchiveInvariant, PTL DEF Spec

LEMMA SettledIsNotLost ==
  ASSUME Typed
  PROVE  Names \ Lost = Settled(deleted)
BY DEF Typed, GhostsTyped, Lost, Settled

(* What the archivist has stored stays told apart from what an import or a *)
(* former process stored: with every line it is done with, the archive has *)
(* one row more (Ids.seq, db.py:445; insert_messages, db.py:462), unless a *)
(* number was drawn in vain or, of an event, the process was restarted.    *)
THEOREM TakenStays == Spec => []TakenIsStored
<1>1. Counted => TakenIsStored
  <2>1. SUFFICES ASSUME Counted, NEW c \in Names \ Lost, NEW l \in Lines,
                        <<c, l>> \notin gaps, l \in Events => restarts = 0
                 PROVE  taken[c][l] <= Stored(c, l)
    BY DEF TakenIsStored
  <2>2. c \in Names /\ <<c, l>> \in Firm
    BY <2>1, SettledIsNotLost DEF Firm, Counted, IInv
  <2>3. CASE db.chan[c] = 0
    <3>1. taken[c][l] = 0
      <4>1. deleted = {}
        BY <2>1, <2>2, <2>3 DEF Counted, Identity, Firm, Settled
      <4> QED
        BY <2>1, <2>3, <4>1 DEF Counted, NewIsUnheard
    <3>2. Stored(c, l) \in Nat
      <4>1. {r \in db.rows : r.cid = db.chan[c] /\ r.line = l} \subseteq db.rows
        OBVIOUS
      <4>2. IsFiniteSet(db.rows)
        BY <2>1 DEF Counted, IInv, Typed, DbTyped
      <4> QED
        BY <4>1, <4>2, FS_Subset, FS_CardinalityType DEF Stored
    <3> QED
      BY <3>1, <3>2
  <2>4. CASE db.chan[c] # 0
    <3>1. db.chan[c] \in Id
      BY <2>1, <2>2, <2>4 DEF Counted, IInv, Typed, DbTyped, Database, Id
    <3>2. Typed /\ Follow(c, l)
      BY <2>1, <2>2, <2>4 DEF Counted, IInv, NumbersFollow
    <3> QED
      BY <2>1, <2>2, <3>1, <3>2, FollowedIsStored
  <2> QED
    BY <2>3, <2>4
<1> QED
  BY <1>1, CountInvariant, PTL

(* Live capture and imports of the same conversation do not add up: the    *)
(* archive never has a line more often than it was said (live ones count  *)
(* what is stored, an import counts in its document alone; db.py:445,      *)
(* backfill.py:323), if no log had lines the archivist had still to store. *)
THEOREM NothingIsDoubled == Spec => []NothingTwice
<1>1. Counted => NothingTwice
  <2>1. SUFFICES ASSUME Counted, Calm, NEW c \in Names, NEW l \in Lines
                 PROVE  Stored(c, l) <= said[c][l]
    BY DEF NothingTwice, Calm
  <2>2. Typed /\ Identity /\ NoneAhead
    BY <2>1 DEF Counted, IInv
  <2>3. Stored(c, l) = Cardinality(Numbered(db, db.chan[c], l))
    BY DEF Stored, Numbered
  <2>4. Stored(c, l) <= Heard(c, l) /\ Stored(c, l) \in Nat /\ Heard(c, l) \in Nat
    BY <2>1, <2>2, <2>3, StoredIsHeard
  <2>5. /\ Heard(c, l) = said[c][l] - (Times(inbox, Said(c, l)) + Held(c, l))
        /\ said[c][l] \in Nat /\ Times(inbox, Said(c, l)) \in Nat /\ Held(c, l) \in {0, 1}
    BY <2>2, HeardIs
  <2> QED
    BY <2>4, <2>5
<1> QED
  BY <1>1, CountInvariant, PTL

(* Imports are idempotent: a document whose lines have been imported from  *)
(* others adds nothing.                                                    *)
ReimportAddsNothing ==
  [][deleted = {} /\ job' # job /\ db'.rows # db.rows
       => \E c \in Names, l \in Lines : job.done[c][l] > imported[c][l]]_vars

(* Imports are idempotent: a document whose lines have been imported from  *)
(* others adds nothing (backfill.py:323, numbers restart with a document). *)
THEOREM ImportsAreIdempotent == Spec => ReimportAddsNothing
<1>1. Counted /\ [Next]_vars =>
        [deleted = {} /\ job' # job /\ db'.rows # db.rows
           => \E c \in Names, l \in Lines : job.done[c][l] > imported[c][l]]_vars
  <2>1. SUFFICES ASSUME Counted, Next, deleted = {}, job' # job, db'.rows # db.rows
                 PROVE  \E c \in Names, l \in Lines : job.done[c][l] > imported[c][l]
    OBVIOUS
  <2> QED
    BY <2>1, CommitAddsWhatIsNew DEF Counted, IInv
<1> QED
  BY <1>1, CountInvariant, PTL DEF Spec, ReimportAddsNothing

-----------------------------------------------------------------------------
(* The archive keeps its promise (ArchivePromise).  Of a channel that is   *)
(* not lost, what is filed under it are the rows that were said there,     *)
(* whichever id it has; so only Insert and COMMIT change what it holds.    *)

RowsOf(rows, c, l) == {r \in rows : r.of = c /\ r.line = l}

InChannel(d, c, e, l) == {r \in d.rows : r.cid = d.chan[c] /\ r.of = e /\ r.line = l}

LEMMA RowsOfChannel ==
  ASSUME NEW d \in Database, NEW gone, Sound(d, gone), NEW c \in Settled(gone), c \in Names,
         NEW e \in Names, NEW l \in Lines
  PROVE  /\ InChannel(d, c, e, l) = IF e = c THEN RowsOf(d.rows, c, l) ELSE {}
         /\ Numbered(d, d.chan[c], l) = RowsOf(d.rows, c, l)
<1>1. ASSUME NEW r \in d.rows
      PROVE  r.cid = d.chan[c] <=> r.of = c
  <2>1. r.cid # 0
    BY <1>1 DEF Database, Row, Id
  <2> QED
    BY <1>1, <2>1 DEF Sound, Points
<1> QED
  BY <1>1 DEF InChannel, RowsOf, Numbered

LEMMA CountOfRows ==
  ASSUME NEW rows, IsFiniteSet(rows), NEW c, NEW l
  PROVE  IsFiniteSet(RowsOf(rows, c, l)) /\ Cardinality(RowsOf(rows, c, l)) \in Nat
<1>1. RowsOf(rows, c, l) \subseteq rows
  BY DEF RowsOf
<1> QED
  BY <1>1, FS_Subset, FS_CardinalityType

(* How many of them are filed under c, said in e.                          *)
Share(rows, c, e, l) == IF e = c THEN Cardinality(RowsOf(rows, c, l)) ELSE 0

LEMMA FiledIs ==
  ASSUME Typed, Identity, NEW c \in Names \ Lost, NEW e \in Names, NEW l \in Lines
  PROVE  Filed[c][<<e, l>>] = Share(db.rows, c, e, l)
<1>1. Filed[c][<<e, l>>] = Cardinality(InChannel(db, c, e, l))
  BY DEF Filed, InChannel
<1>2. c \in Settled(deleted) /\ db \in Database /\ Sound(db, deleted)
  BY SettledIsNotLost DEF Typed, DbTyped, Identity
<1>3. InChannel(db, c, e, l) = IF e = c THEN RowsOf(db.rows, c, l) ELSE {}
  BY <1>2, RowsOfChannel
<1> QED
  BY <1>1, <1>3, FS_EmptySet DEF Share

LEMMA FiledNext ==
  ASSUME Typed', Identity', NEW c \in Names \ Lost', NEW e \in Names, NEW l \in Lines
  PROVE  Filed'[c][<<e, l>>] = Share(db'.rows, c, e, l)
<1>1. Filed'[c][<<e, l>>] = Cardinality(InChannel(db', c, e, l))
  BY DEF Filed, InChannel
<1>2. c \in Settled(deleted') /\ db' \in Database /\ Sound(db', deleted')
  BY DEF Typed, DbTyped, GhostsTyped, Identity, Lost, Settled
<1>3. InChannel(db', c, e, l) = IF e = c THEN RowsOf(db'.rows, c, l) ELSE {}
  BY <1>2, RowsOfChannel
<1> QED
  BY <1>1, <1>3, FS_EmptySet DEF Share

LEMMA LostStays ==
  ASSUME Typed, Kept, [Next]_vars
  PROVE  Lost \subseteq Lost'
BY ArchiveGrows DEF Lost, Typed, GhostsTyped

(* With the same rows, every channel that is not lost holds what it held.  *)
LEMMA SameRowsSameBag ==
  ASSUME Typed, Typed', Kept, Identity, Identity', [Next]_vars, db'.rows = db.rows
  PROVE  \A c \in Names \ Lost' : Filed'[c] = Filed[c]
<1>1. SUFFICES ASSUME NEW c \in Names \ Lost'
               PROVE  Filed'[c] = Filed[c]
  OBVIOUS
<1>2. c \notin Lost
  BY LostStays
<1>3. ASSUME NEW k \in Names \X Lines
      PROVE  Filed'[c][k] = Filed[c][k]
  <2>1. PICK e \in Names, l \in Lines : k = <<e, l>>
    BY <1>3
  <2> QED
    BY <1>2, <2>1, FiledIs, FiledNext
<1>4. /\ Filed'[c] = [k \in Names \X Lines |-> Filed'[c][k]]
      /\ Filed[c] = [k \in Names \X Lines |-> Filed[c][k]]
  BY DEF Filed
<1> QED
  BY <1>3, <1>4

(* Nobody else says anything, and only COMMIT has imported.                *)
LEMMA NothingSaidOrImported ==
  ASSUME Typed, [Next]_vars
  PROVE  /\ said' = said \/ People
         /\ imported' = imported \/ (ImportEnds /\ ~job.dry)
<1>1. CASE UNCHANGED vars \/ People \/ Owner \/ Connection
  BY <1>1 DEF vars, history, People, Owner, Connection, Say, DeleteChannel, AddChannel, Reconnect,
     Cut, Restart
<1>2. CASE Store
  BY <1>2 DEF Store, TakeUp, NewChannel, LookNick, NewNick, NameTaken, DrawSeq, Insert, ChannelGone,
              LockTimeout, Raise, history
<1>3. CASE ImportEnds
  BY <1>3 DEF ImportEnds, ghosts
<1>4. CASE StartImport \/ ReadSnapshot \/ ImportDocument \/ ImportRefused \/ ImportFails
  BY <1>4 DEF StartImport, ReadSnapshot, ImportDocument, ImportRefused, ImportFails, history
<1> QED
  BY <1>1, <1>2, <1>3, <1>4 DEF Next, Import

LEMMA Says ==
  ASSUME People
  PROVE  \E c \in Names, l \in Lines : Archive!PSay(c, l)
<1>1. PICK c \in Names, l \in Lines : Say(c, l)
  BY DEF People
<1>2. /\ said' = [said EXCEPT ![c][l] = @ + 1]
      /\ UNCHANGED <<db, imported, overtook, deleted, gaps>>
  BY <1>1 DEF Say, history, ghosts
<1>3. Filed' = Filed
  BY <1>2 DEF Filed
<1>4. Lost' = Lost /\ (overtook \/ deleted # {})' = (overtook \/ deleted # {})
  BY <1>2 DEF Lost
<1>5. Archive!PSay(c, l)
  BY <1>2, <1>3, <1>4 DEF Archive!PSay
<1> QED
  BY <1>5

LEMMA Excuses ==
  ASSUME Typed, Typed', Kept, Identity, Identity', [Next]_vars, db'.rows = db.rows,
         UNCHANGED <<said, imported>>
  PROVE  Archive!PExcuse
<1>1. \A c \in Names \ Lost' : Filed'[c] = Filed[c]
  BY SameRowsSameBag
<1>2. gaps \subseteq gaps' /\ Lost \subseteq Lost' /\ deleted \subseteq deleted'
  BY ArchiveGrows, LostStays
<1> QED
  BY <1>1, <1>2, OvertakenStays DEF Archive!PExcuse

(* The archivist inserts a row that was not there.                         *)
LEMMA Records ==
  ASSUME Typed, Typed', Kept, Identity, Identity', NothingTwice', Insert, db'.rows # db.rows
  PROVE  \E c \in Names, l \in Lines : Archive!PRecord(c, l)
<1>1. /\ db'.rows = InsertOrIgnore(db.rows, {TheRow}) /\ pc = "insert"
      /\ UNCHANGED <<said, imported, overtook, gaps, deleted>>
  BY RowInserted
<1>2. db'.rows = db.rows \cup {TheRow} /\ TheRow \notin db.rows
  BY <1>1 DEF InsertOrIgnore
<1>3. PICK c \in Names, l \in Lines : c = cur.chan /\ l = cur.line
  BY <1>1 DEF Typed, LoggerTyped
<1>4. IsFiniteSet(db.rows) /\ IsFiniteSet(db'.rows)
  BY DEF Typed, DbTyped
<1>5. ASSUME NEW d \in Names \ Lost, NEW e \in Names, NEW m \in Lines
      PROVE  Filed'[d][<<e, m>>] = IF d = c /\ <<e, m>> = <<c, l>> THEN Filed[d][<<e, m>>] + 1
                                   ELSE Filed[d][<<e, m>>]
  <2>1. /\ Filed[d][<<e, m>>] = Share(db.rows, d, e, m)
        /\ Filed'[d][<<e, m>>] = Share(db'.rows, d, e, m)
    <3>1. d \in Names \ Lost'
      BY <1>1, <1>5 DEF Lost
    <3> QED
      BY <1>5, <3>1, FiledIs, FiledNext
  <2>2. CASE d = c /\ m = l
    <3>1. RowsOf(db'.rows, d, m) = RowsOf(db.rows, d, m) \cup {TheRow}
          /\ TheRow \notin RowsOf(db.rows, d, m)
      BY <1>2, <1>3, <2>2 DEF RowsOf, TheRow
    <3>2. Cardinality(RowsOf(db'.rows, d, m)) = Cardinality(RowsOf(db.rows, d, m)) + 1
      BY <1>4, <3>1, CountOfRows, FS_AddElement
    <3> QED
      BY <2>1, <2>2, <3>2 DEF Share
  <2>3. CASE ~(d = c /\ m = l)
    <3>1. RowsOf(db'.rows, d, m) = RowsOf(db.rows, d, m)
      BY <1>2, <1>3, <2>3 DEF RowsOf, TheRow
    <3> QED
      BY <2>1, <2>3, <3>1 DEF Share
  <2> QED
    BY <2>2, <2>3
<1>6. ASSUME c \notin Lost, ~(overtook \/ deleted # {})
      PROVE  Filed[c][<<c, l>>] < said[c][l]
  <2>1. Filed'[c][<<c, l>>] = Filed[c][<<c, l>>] + 1
    BY <1>5, <1>6
  <2>2. Filed[c][<<c, l>>] = Share(db.rows, c, c, l) /\ Filed[c][<<c, l>>] \in Nat
    BY <1>4, <1>6, FiledIs, CountOfRows DEF Share
  <2>3. Filed'[c][<<c, l>>] = Stored(c, l)'
    <3>1. c \in Names \ Lost' /\ c \in Settled(deleted')
      BY <1>1, <1>6 DEF Lost, Settled
    <3>2. Filed'[c][<<c, l>>] = Cardinality(RowsOf(db'.rows, c, l))
      BY <3>1, FiledNext DEF Share
    <3>3. Numbered(db', db'.chan[c], l) = RowsOf(db'.rows, c, l)
      BY <3>1, RowsOfChannel DEF Typed, DbTyped, Identity
    <3> QED
      BY <3>2, <3>3 DEF Stored, Numbered
  <2>4. Stored(c, l)' <= said[c][l]
    BY <1>1, <1>6 DEF NothingTwice
  <2>5. said[c][l] \in Nat
    BY DEF Typed, GhostsTyped, Bag
  <2> QED
    BY <2>1, <2>2, <2>3, <2>4, <2>5
<1>7. \A d \in Names \ Lost, k \in Names \X Lines :
        Filed'[d][k] = IF d = c /\ k = <<c, l>> THEN Filed[d][k] + 1 ELSE Filed[d][k]
  BY <1>5
<1>8. Archive!PRecord(c, l)
  BY <1>1, <1>6, <1>7 DEF Archive!PRecord, Lost
<1> QED
  BY <1>8

(* What COMMIT makes of the rows of a line: as many as a log has, if it is *)
(* one of which no number was lost, or none more.                          *)
LEMMA CommitMerges ==
  ASSUME Typed, Typed', Kept, Kept', Identity, Identity', NewIsDone, NumbersFollow,
         ImportEnds, ~job.dry, NEW c \in Names \ Lost, NEW l \in Lines
  PROVE  LET before == Cardinality(RowsOf(db.rows, c, l))
             after == Cardinality(RowsOf(db'.rows, c, l))
             log == imported'[c][l] IN
         /\ before \in Nat /\ after \in Nat /\ log \in Nat /\ log >= imported[c][l]
         /\ after >= before /\ after >= log
         /\ <<c, l>> \notin gaps => after \in {before, log}
         /\ log = imported[c][l] => after = before
<1> DEFINE B == RowsOf(db.rows, c, l)
           A == RowsOf(db'.rows, c, l)
           log == imported'[c][l]
<1>1. /\ Locked /\ db' = job.view /\ UNCHANGED <<deleted, gaps>>
      /\ log = Max({imported[c][l], job.done[c][l]})
  BY Ended DEF ImportEnds
<1>2. /\ imported[c][l] \in Nat /\ job.done[c][l] \in Nat
      /\ log \in Nat /\ log >= imported[c][l] /\ log >= job.done[c][l]
      /\ log \in {imported[c][l], job.done[c][l]}
  <2>1. imported[c][l] \in Nat /\ job.done[c][l] \in Nat
    BY DEF Typed, GhostsTyped, JobTyped, Job, Bag
  <2> QED
    BY <1>1, <2>1, MaxOfTwo
<1>3. /\ c \in Settled(deleted) /\ c \notin deleted
      /\ IsFiniteSet(B) /\ IsFiniteSet(A)
      /\ Cardinality(B) \in Nat /\ Cardinality(A) \in Nat
  BY SettledIsNotLost, CountOfRows DEF Typed, DbTyped, Settled
<1>4. db.rows \subseteq db'.rows /\ B \subseteq A
  BY <1>1 DEF Kept, Uncommitted, Extends, RowsOf
<1>5. Cardinality(B) <= Cardinality(A)
  <2> HIDE DEF A, B
  <2> QED
    BY <1>3, <1>4, FS_Subset
<1>6. ASSUME NEW r \in A
      PROVE  r \in db'.rows /\ r.cid = db'.chan[c] /\ r.line = l /\ r.of = c /\ r.seq \in Nat
  <2>1. r \in db'.rows /\ r \in Row /\ r.line = l /\ r.of = c
    BY DEF RowsOf, Typed, DbTyped, Database
  <2>2. Points(db', deleted, r.cid, r.of) /\ r.cid # 0
    BY <1>1, <2>1 DEF Identity, Sound, Row, Id
  <2> QED
    BY <1>3, <2>1, <2>2 DEF Points, Row
<1>7. \A r, o \in A : r.seq = o.seq => r = o
  BY <1>6 DEF Identity, Sound, Keyed
<1>8. Cardinality(A) >= log
  <2>1. \A i \in Nat : i < log => Has(db', c, l, i)
    BY <1>1, <1>3 DEF Kept, Covers
  <2>2. log <= Cardinality(Numbered(db', db'.chan[c], l))
    BY <1>2, <2>1, AsManyRows DEF Typed, DbTyped
  <2>3. Numbered(db', db'.chan[c], l) = A
    BY <1>1, <1>3, RowsOfChannel DEF Typed, DbTyped, Identity
  <2> QED
    BY <1>2, <1>3, <2>2, <2>3
<1>9. ASSUME NEW r \in A, r \notin B
      PROVE  r.seq < job.done[c][l] /\ ~Has(db, c, l, r.seq)
  <2>1. r \in job.view.rows \ db.rows
    BY <1>1, <1>6, <1>9 DEF RowsOf
  <2>2. /\ \A o \in db.rows : <<o.cid, o.line, o.seq>> # <<r.cid, r.line, r.seq>>
        /\ r.seq < job.done[c][l]
    BY <1>1, <1>6, <2>1 DEF NewIsDone
  <2>3. ~Has(db, c, l, r.seq)
    <3>1. SUFFICES ASSUME db.chan[c] # 0,
                          NEW o \in db.rows, o.cid = db.chan[c], o.line = l, o.seq = r.seq
                   PROVE  FALSE
      BY DEF Has
    <3>2. db'.chan[c] = db.chan[c]
      BY <1>1, <3>1 DEF Kept, Uncommitted, Extends
    <3> QED
      BY <1>6, <2>2, <3>1, <3>2
  <2> QED
    BY <2>2, <2>3
<1>10. ASSUME log = imported[c][l]
       PROVE  A = B
  <2>1. SUFFICES ASSUME NEW r \in A, r \notin B
                 PROVE  FALSE
    BY <1>4
  <2>2. r.seq < imported[c][l] /\ r.seq \in Nat
    BY <1>2, <1>6, <1>9, <1>10, <2>1
  <2>3. Has(db, c, l, r.seq)
    BY <1>3, <2>2 DEF Kept, Covers
  <2> QED
    BY <1>9, <2>1, <2>3
<1>11. ASSUME <<c, l>> \notin gaps, A # B
       PROVE  Cardinality(A) = log
  <2>1. PICK r \in A : r \notin B
    BY <1>4, <1>11
  <2>2. \A o \in A : o.seq \in Nat /\ o.seq < log
    <3>1. SUFFICES ASSUME NEW o \in A, o.seq >= log
                   PROVE  FALSE
      BY <1>2, <1>6
    <3>2. o.seq \in Nat /\ r.seq \in Nat /\ r.seq < job.done[c][l]
      BY <1>6, <1>9, <2>1
    <3>3. r.seq < o.seq /\ ~(o.seq < job.done[c][l])
      BY <1>2, <3>1, <3>2
    <3>4. o \in B
      BY <1>9, <3>3
    <3>5. o \in db.rows /\ o.of = c /\ o.line = l /\ <<c, l>> \in Firm
      BY <1>3, <1>11, <3>4 DEF RowsOf, Firm
    <3>6. Has(db, c, l, r.seq)
      BY <3>2, <3>3, <3>5 DEF NumbersFollow, Contiguous
    <3> QED
      BY <1>9, <2>1, <3>6
  <2>3. Cardinality(A) <= log
    <3> HIDE DEF A, log
    <3> QED
      BY <1>2, <1>7, <2>2, NoMoreRows
  <2> QED
    BY <1>2, <1>3, <1>8, <2>3
<1> QED
  BY <1>2, <1>3, <1>5, <1>8, <1>10, <1>11

(* A COMMIT imports the logs.                                              *)
LEMMA Imports ==
  ASSUME Typed, Typed', Kept, Kept', Identity, Identity', NewIsDone, NumbersFollow, NothingTwice',
         ImportEnds, ~job.dry
  PROVE  Archive!PImport
<1>1. UNCHANGED <<deleted, gaps, said, overtook>>
      /\ imported' = [c \in Names |-> [l \in Lines |-> Max({imported[c][l], job.done[c][l]})]]
  BY Ended DEF ImportEnds
<1>2. \A c \in Names, l \in Lines : imported'[c][l] >= imported[c][l]
  <2>1. SUFFICES ASSUME NEW c \in Names, NEW l \in Lines
                 PROVE  imported'[c][l] >= imported[c][l]
    OBVIOUS
  <2>2. imported[c][l] \in Nat /\ job.done[c][l] \in Nat
    BY DEF Typed, GhostsTyped, JobTyped, Job, Bag
  <2>3. imported'[c][l] = Max({imported[c][l], job.done[c][l]})
    BY <1>1
  <2> QED
    BY <2>2, <2>3, MaxOfTwo
<1>3. Lost' = Lost
  BY <1>1 DEF Lost
<1>4. ASSUME NEW c \in Names \ Lost, NEW e \in Names, NEW l \in Lines
      PROVE  IF e = c THEN Archive!Merged(c, l) ELSE Filed'[c][<<e, l>>] = Filed[c][<<e, l>>]
  <2>1. /\ Filed[c][<<e, l>>] = Share(db.rows, c, e, l)
        /\ Filed'[c][<<e, l>>] = Share(db'.rows, c, e, l)
    BY <1>3, FiledIs, FiledNext
  <2>2. CASE e # c
    BY <2>1, <2>2 DEF Share
  <2>3. CASE e = c
    <3>1. ~(overtook \/ deleted # {}) => Filed'[c][<<c, l>>] <= said[c][l]
      <4>1. SUFFICES ASSUME ~(overtook \/ deleted # {})
                     PROVE  Filed'[c][<<c, l>>] <= said[c][l]
        OBVIOUS
      <4>2. Filed'[c][<<c, l>>] = Cardinality(RowsOf(db'.rows, c, l))
        BY <2>1, <2>3 DEF Share
      <4>3. Numbered(db', db'.chan[c], l) = RowsOf(db'.rows, c, l)
        BY <1>1, <4>1, RowsOfChannel DEF Typed, DbTyped, Identity, Settled
      <4>4. Stored(c, l)' <= said[c][l]
        BY <1>1, <4>1 DEF NothingTwice
      <4> QED
        BY <4>2, <4>3, <4>4 DEF Stored, Numbered
    <3>2. /\ Filed[c][<<c, l>>] = Cardinality(RowsOf(db.rows, c, l))
          /\ Filed'[c][<<c, l>>] = Cardinality(RowsOf(db'.rows, c, l))
      BY <2>1, <2>3 DEF Share
    <3>3. PICK before, after, log : before = Filed[c][<<c, l>>] /\ after = Filed'[c][<<c, l>>]
                                    /\ log = imported'[c][l]
      OBVIOUS
    <3>4. /\ before = Cardinality(RowsOf(db.rows, c, l))
          /\ after = Cardinality(RowsOf(db'.rows, c, l))
      BY <3>2, <3>3
    <3>5. /\ after >= before /\ after >= log
          /\ <<c, l>> \notin gaps => after \in {before, log}
          /\ log = imported[c][l] => after = before
      BY <3>3, <3>4, CommitMerges
    <3>6. Archive!Merged(c, l)
      BY <3>1, <3>3, <3>5 DEF Archive!Merged
    <3> QED
      BY <2>3, <3>6
  <2> QED
    BY <2>2, <2>3
<1>5. \A c \in Names \ Lost, k \in Names \X Lines :
        IF k[1] = c THEN Archive!Merged(c, k[2]) ELSE Filed'[c][k] = Filed[c][k]
  <2>1. SUFFICES ASSUME NEW c \in Names \ Lost, NEW k \in Names \X Lines
                 PROVE  IF k[1] = c THEN Archive!Merged(c, k[2]) ELSE Filed'[c][k] = Filed[c][k]
    OBVIOUS
  <2>2. PICK e \in Names, l \in Lines : k = <<e, l>>
    BY <2>1
  <2>3. IF e = c THEN Archive!Merged(c, l) ELSE Filed'[c][<<e, l>>] = Filed[c][<<e, l>>]
    BY <1>4
  <2> QED
    BY <2>2, <2>3
<1> QED
  BY <1>1, <1>2, <1>3, <1>5 DEF Archive!PImport

LEMMA PromiseInit ==
  ASSUME Init
  PROVE  Archive!PInit
<1>1. /\ db.rows = {} /\ deleted = {} /\ gaps = {} /\ overtook = FALSE
      /\ said = Nothing /\ imported = Nothing
  <2>1. db \in Database
    BY TypedInit DEF Typed, DbTyped
  <2> QED
    BY <2>1 DEF Init
<1>2. Filed = [c \in Names |-> [k \in Names \X Lines |-> 0]]
  <2>1. \A c \in Names, k \in Names \X Lines :
          {r \in db.rows : r.cid = db.chan[c] /\ r.of = k[1] /\ r.line = k[2]} = {}
    BY <1>1
  <2> QED
    BY <2>1, FS_EmptySet DEF Filed
<1> QED
  BY <1>1, <1>2 DEF Archive!PInit, Archive!Nobody, Nothing, Lost

(* What the archive is for those who search it: whatever the live process  *)
(* and imports do, a line is filed once when the archivist stores it, and  *)
(* a COMMIT files of each line what a log has more, never what is there    *)
(* already (db.py:437 to 492, backfill.py:314 to 345); nothing is taken    *)
(* out again or filed in another channel.                                  *)
THEOREM KeepsThePromise == Spec => KeepsArchive
<1>1. Init => Archive!PInit
  BY PromiseInit
<1>2. Counted /\ Counted' /\ NothingTwice' /\ [Next]_vars => [Archive!PNext]_(Archive!pvars)
  <2>1. SUFFICES ASSUME Counted, Counted', NothingTwice', [Next]_vars
                 PROVE  Archive!PNext
    OBVIOUS
  <2>2. /\ Typed /\ Kept /\ Identity /\ NewIsDone /\ NumbersFollow
        /\ Typed' /\ Kept' /\ Identity'
    BY <2>1 DEF Counted, IInv
  <2>3. CASE People
    BY <2>3, Says DEF Archive!PNext
  <2>4. CASE ImportEnds /\ ~job.dry
    BY <2>1, <2>2, <2>4, Imports DEF Archive!PNext
  <2>5. CASE Insert /\ db'.rows # db.rows
    BY <2>1, <2>2, <2>5, Records DEF Archive!PNext
  <2>6. CASE ~People /\ ~(ImportEnds /\ ~job.dry) /\ ~(Insert /\ db'.rows # db.rows)
    <3>1. UNCHANGED <<said, imported>>
      BY <2>1, <2>2, <2>6, NothingSaidOrImported
    <3>2. db'.rows = db.rows
      BY <2>1, <2>2, <2>6, RowsChange DEF ImportEnds
    <3> QED
      BY <2>1, <2>2, <3>1, <3>2, Excuses DEF Archive!PNext
  <2> QED
    BY <2>3, <2>4, <2>5, <2>6
<1> QED
  BY <1>1, <1>2, CountInvariant, NothingIsDoubled, PTL DEF Spec, KeepsArchive, Archive!PSpec

(* What a search of a channel that is not lost finds: lines that were said *)
(* there and not in another one, those of each log that was imported, and, *)
(* as long as the promise is not excused, none oftener than it was said.   *)
SearchFindsWhatWasSaid ==
  \A c \in Names \ Lost, l \in Lines :
    /\ \A e \in Names : e # c => Filed[c][<<e, l>>] = 0
    /\ imported[c][l] <= Filed[c][<<c, l>>]
    /\ ~overtook /\ deleted = {} => Filed[c][<<c, l>>] <= said[c][l]

(* So it is, though the archivist and imports cache ids of channels, which *)
(* SQLite gives again (Ids._lookup, db.py:417; DELETE, server.py:1783).    *)
THEOREM SearchesAreTrue == Spec => []SearchFindsWhatWasSaid
<1>1. Counted /\ ImportedIsStored /\ NothingTwice => SearchFindsWhatWasSaid
  <2>1. SUFFICES ASSUME Counted, ImportedIsStored, NothingTwice,
                        NEW c \in Names \ Lost, NEW l \in Lines
                 PROVE  /\ \A e \in Names : e # c => Filed[c][<<e, l>>] = 0
                        /\ imported[c][l] <= Filed[c][<<c, l>>]
                        /\ ~overtook /\ deleted = {} => Filed[c][<<c, l>>] <= said[c][l]
    BY DEF SearchFindsWhatWasSaid
  <2>2. Typed /\ Identity
    BY <2>1 DEF Counted, IInv
  <2>3. \A e \in Names : Filed[c][<<e, l>>] = Share(db.rows, c, e, l)
    BY <2>1, <2>2, FiledIs
  <2>4. Filed[c][<<c, l>>] = Stored(c, l)
    <3>1. c \in Settled(deleted) /\ db \in Database /\ Sound(db, deleted)
      BY <2>1, <2>2, SettledIsNotLost DEF Typed, DbTyped, Identity
    <3>2. Numbered(db, db.chan[c], l) = RowsOf(db.rows, c, l)
      BY <2>1, <3>1, RowsOfChannel
    <3> QED
      BY <2>3, <3>2 DEF Share, Stored, Numbered
  <2>5. c \notin deleted
    BY <2>1 DEF Lost
  <2> QED
    BY <2>1, <2>3, <2>4, <2>5 DEF Share, ImportedIsStored, NothingTwice
<1> QED
  BY <1>1, CountInvariant, ImportedStays, NothingIsDoubled, PTL
=============================================================================
