-------------------------------- MODULE Feed --------------------------------
(***************************************************************************)
(* What readers are served: pages of a search and the place of a message   *)
(* in them (query.py), the cached figures of /api/meta and the stream of   *)
(* new messages (server.py).                                               *)
(*                                                                         *)
(* The archivist and imports add messages, an import with an older time    *)
(* than those before; members edit tags; requests for /api/meta run on     *)
(* threads of their own and share one cache; a stream holds a thread and   *)
(* polls the table for ids above the last one it sent.                     *)
(*                                                                         *)
(* Abstractions.  Only channels stand for the filters of a search.  What   *)
(* /api/meta says of messages is their number, and what it says of tags    *)
(* the number of edits it has seen.  Statements that read the same table   *)
(* one after the other are one step.  Time is counted in ticks.            *)
(***************************************************************************)
EXTENDS Integers, Sequences, FiniteSets, SequencesExt

CONSTANTS Chans,
          Times,        \* times of messages, minutes
          Span,         \* messages on each side in /api/context
          Readers,      \* threads that serve /api/meta
          MetaTTL,      \* META_TTL, in ticks
          Pages,        \* open pages, each with an EventSource
          MaxStreams,   \* MAX_STREAMS
          Batch,        \* rows sent at a time, LIMIT 200
          MaxMessages,  \* bound: messages
          MaxEdits,     \* bound: edits of tags
          MaxClock,     \* bound: ticks
          MaxRequests   \* bound: requests for /api/meta and streams

ASSUME FeedAssumption ==
  /\ Times \subseteq Nat /\ Span \in Nat \ {0} /\ IsFiniteSet(Pages)
  /\ MetaTTL \in Nat \ {0} /\ MaxStreams \in Nat \ {0} /\ Batch \in Nat \ {0}
  /\ {MaxMessages, MaxEdits, MaxClock, MaxRequests} \subseteq Nat

VARIABLES
  messages,     \* table messages, by id
  tags,         \* ids of table tags
  edits,        \* edits of tags so far
  clock,
  editsAt,      \* tick -> edits when it began
  cache,        \* _meta_cache
  reader,       \* threads in cached_meta()
  streams,      \* _streams
  page,         \* the pages' streams and what they received
  requests

archive == <<messages, tags, edits, clock, editsAt>>
vars == <<archive, cache, reader, streams, page, requests>>

Ids == 1..MaxMessages
NoKey == <<0, 0, 0>>
Keys == Nat \X Nat \X Nat
NoReader == [pc |-> "idle", key |-> NoKey, now |-> 0, total |-> 0, edits |-> 0,
             asked |-> 0, since |-> 0]
NoPage == [pc |-> "closed", from |-> 0, last |-> 0, heard |-> <<>>, start |-> 0]

TypeOK ==
  /\ messages \in Seq([ts: Times, chan: Chans])
  /\ tags \subseteq 1..MaxEdits /\ edits \in Nat /\ clock \in Nat
  /\ editsAt \in [0..MaxClock -> Nat]
  /\ cache \in [key: Keys, total: Nat, edits: Nat, at: Nat]
  /\ reader \in [Readers -> [pc: {"idle", "ids", "messages", "tags", "put", "told"},
                             key: Keys, now: Nat, total: Nat, edits: Nat,
                             asked: Nat, since: Nat]]
  /\ streams \in 0..MaxStreams
  /\ page \in [Pages -> [pc: {"closed", "counted", "open", "ends"}, from: Nat,
                         last: Nat, heard: Seq(Ids), start: Nat]]
  /\ requests \in 0..MaxRequests

Init ==
  /\ messages = <<>> /\ tags = {} /\ edits = 0
  /\ clock = 0 /\ editsAt = [t \in 0..MaxClock |-> 0]
  /\ cache = [key |-> NoKey, total |-> 0, edits |-> 0, at |-> 0]
  /\ reader = [r \in Readers |-> NoReader]
  /\ streams = 0 /\ page = [p \in Pages |-> NoPage] /\ requests = 0

-----------------------------------------------------------------------------
(* Pages of a search, build_where() and search(); no channel means all.    *)

Matching(F) == {i \in DOMAIN messages : F = {} \/ messages[i].chan \in F}

Before(i, j) == \/ messages[i].ts < messages[j].ts
                \/ messages[i].ts = messages[j].ts /\ i < j

Ahead(i, j, order) == IF order = "desc" THEN Before(j, i) ELSE Before(i, j)

Limit(s, k) == SubSeq(s, 1, IF k < Len(s) THEN k ELSE Len(s))

(* The ORDER BY of both queries, ts and then id, leaves one way to sort.   *)
Sorted(S, order) ==
  CHOOSE s \in [1..Cardinality(S) -> S] :
    \A i, j \in 1..Cardinality(S) : i < j => Ahead(s[i], s[j], order)

Search(F, order, limit, offset) ==
  LET found == Sorted(Matching(F), order) IN
  Limit(SubSeq(found, offset + 1, Len(found)), limit)

(* Mutant: messages of one time are counted whatever their id.             *)
LocateByTime(m, F, order, inChannel) ==
  LET S == Matching(IF inChannel THEN {messages[m].chan} ELSE F) IN
  IF m \notin S THEN -1
  ELSE Cardinality({i \in S : IF order = "desc" THEN messages[i].ts > messages[m].ts
                              ELSE messages[i].ts < messages[m].ts})

(* locate(): how many messages come first, or -1.                          *)
Locate(m, F, order, inChannel) ==
  LET S == Matching(IF inChannel THEN {messages[m].chan} ELSE F) IN
  IF m \in S THEN Cardinality({i \in S : Ahead(i, m, order)}) ELSE -1

(* context(): the messages around one in its channel.                      *)
Context(m) ==
  LET S == Matching({messages[m].chan})
      earlier == Sorted({i \in S : Before(i, m)}, "desc")
      later == Sorted({i \in S : ~Before(i, m)}, "asc") IN
  Reverse(Limit(earlier, Span)) \o Limit(later, Span + 1)

-----------------------------------------------------------------------------
(* The archive grows, and members edit tags.                               *)

Store == /\ Len(messages) < MaxMessages
         /\ \E t \in Times, c \in Chans :
              messages' = Append(messages, [ts |-> t, chan |-> c])
         /\ UNCHANGED <<tags, edits, clock, editsAt, reader, streams, page, requests>>

(* An import marks the cache as out of date; the archivist does not.       *)
StoreLive == Store /\ UNCHANGED cache
StoreImport == Store /\ cache' = [cache EXCEPT !.key = NoKey]

EditTag == /\ edits < MaxEdits /\ edits' = edits + 1
           /\ UNCHANGED <<messages, clock, editsAt, cache, reader, streams, page, requests>>

MaxTag == IF tags = {} THEN 0 ELSE CHOOSE t \in tags : \A u \in tags : u <= t

AddTag == EditTag /\ tags' = tags \cup {MaxTag + 1}
DeleteTag == EditTag /\ \E t \in tags : tags' = tags \ {t}

(* A new name, label or colour, or a message that is given the tag.        *)
ChangeTag == EditTag /\ tags # {} /\ UNCHANGED tags

Tick == /\ clock < MaxClock
        /\ clock' = clock + 1
        /\ editsAt' = [editsAt EXCEPT ![clock + 1] = edits]
        /\ UNCHANGED <<messages, tags, edits, cache, reader, streams, page, requests>>

-----------------------------------------------------------------------------
(* cached_meta().                                                          *)

Does(r, here) == reader[r].pc = here /\ UNCHANGED <<archive, streams, page, requests>>

(* `asked` and `since` remember what there was when the request came.      *)
Ask(r) ==
  /\ reader[r].pc = "idle" /\ requests < MaxRequests
  /\ requests' = requests + 1
  /\ reader' = [reader EXCEPT ![r] = [NoReader EXCEPT
                  !.pc = "ids", !.key = <<Len(messages), 0, 0>>,
                  !.asked = Len(messages), !.since = clock]]
  /\ UNCHANGED <<archive, cache, streams, page>>

Tell(r, total, seen) ==
  reader' = [reader EXCEPT ![r] = [NoReader EXCEPT !.pc = "told", !.total = total,
              !.edits = seen, !.asked = reader[r].asked, !.since = reader[r].since]]

Lookup(r) ==
  LET key == <<reader[r].key[1], Cardinality(tags), MaxTag>> IN
  /\ Does(r, "ids")
  /\ IF cache.key = key /\ clock - cache.at < MetaTTL
     THEN Tell(r, cache.total, cache.edits)
     ELSE reader' = [reader EXCEPT ![r].pc = "messages", ![r].key = key, ![r].now = clock]
  /\ UNCHANGED cache

ReadMessages(r) ==
  /\ Does(r, "messages")
  /\ reader' = [reader EXCEPT ![r].pc = "tags", ![r].total = Len(messages)]
  /\ UNCHANGED cache

ReadTags(r) ==
  /\ Does(r, "tags")
  /\ reader' = [reader EXCEPT ![r].pc = "put", ![r].edits = edits]
  /\ UNCHANGED cache

(* Mutant: the time of the update, and not that of the key, is kept.       *)
PutLate(r) ==
  /\ Does(r, "put")
  /\ cache' = [key |-> reader[r].key, total |-> reader[r].total,
               edits |-> reader[r].edits, at |-> clock]
  /\ Tell(r, reader[r].total, reader[r].edits)

(* Mutant: the key is computed anew.                                       *)
PutNewKey(r) ==
  /\ Does(r, "put")
  /\ cache' = [key |-> <<Len(messages), Cardinality(tags), MaxTag>>,
               total |-> reader[r].total, edits |-> reader[r].edits, at |-> reader[r].now]
  /\ Tell(r, reader[r].total, reader[r].edits)

Put(r) ==
  /\ Does(r, "put")
  /\ cache' = [key |-> reader[r].key, total |-> reader[r].total,
               edits |-> reader[r].edits, at |-> reader[r].now]
  /\ Tell(r, reader[r].total, reader[r].edits)

Told(r) == /\ Does(r, "told")
           /\ reader' = [reader EXCEPT ![r] = NoReader]
           /\ UNCHANGED cache

Meta(r) == Ask(r) \/ Lookup(r) \/ ReadMessages(r) \/ ReadTags(r) \/ Put(r) \/ Told(r)

-----------------------------------------------------------------------------
(* stream() and _stream_loop(), and the page at the other end.             *)

Serves(p, here) == page[p].pc = here /\ UNCHANGED <<archive, cache, reader, requests>>

Asks(p) == /\ page[p].pc = "closed" /\ requests < MaxRequests
           /\ requests' = requests + 1
           /\ UNCHANGED <<archive, cache, reader>>

(* Mutant: the limit lets one stream too many in.                          *)
ConnectOver(p) ==
  /\ Asks(p) /\ streams <= MaxStreams
  /\ streams' = streams + 1
  /\ page' = [page EXCEPT ![p].pc = "counted"]

(* A full server refuses; EventSource then gives up.                       *)
Connect(p) ==
  /\ Asks(p) /\ streams < MaxStreams
  /\ streams' = streams + 1
  /\ page' = [page EXCEPT ![p].pc = "counted"]

(* The page's address has no ?since=, whatever it has received, and an     *)
(* EventSource reconnects to the address it was made with; other clients   *)
(* may name the last message they have.                                    *)
Begins(p) ==
  /\ Serves(p, "counted")
  /\ \E from \in {Len(messages)} \cup (IF page[p].heard = <<>> THEN {}
                                       ELSE {Last(page[p].heard)}) :
       page' = [page EXCEPT ![p].pc = "open", ![p].from = from, ![p].last = from,
                            ![p].start = Len(page[p].heard)]
  /\ UNCHANGED streams

(* Mutant: the newest row is left for the next poll.                       *)
RowsButNewest(p) ==
  [i \in 1..(Len(messages) - 1 - page[p].last) |-> page[p].last + i]

Rows(p) == Limit([i \in 1..(Len(messages) - page[p].last) |-> page[p].last + i], Batch)

(* Mutant: the cursor is moved to the newest message.                      *)
PollNewest(p) ==
  /\ Serves(p, "open") /\ Rows(p) # <<>>
  /\ page' = [page EXCEPT ![p].last = Len(messages), ![p].heard = @ \o Rows(p)]
  /\ UNCHANGED streams

Poll(p) ==
  /\ Serves(p, "open") /\ Rows(p) # <<>>
  /\ page' = [page EXCEPT ![p].last = Last(Rows(p)), ![p].heard = @ \o Rows(p)]
  /\ UNCHANGED streams

(* The connection is gone: what was written last arrived or did not.       *)
PollFails(p) ==
  /\ Serves(p, "open")
  /\ \E arrived \in {<<>>, Rows(p)} :
       page' = [page EXCEPT ![p].pc = "ends", ![p].heard = @ \o arrived]
  /\ UNCHANGED streams

(* The headers cannot be sent, or fifteen minutes are over.                *)
LoopEnds(p) ==
  /\ Serves(p, page[p].pc) /\ page[p].pc \in {"counted", "open"}
  /\ page' = [page EXCEPT ![p].pc = "ends", ![p].start = Len(page[p].heard)]
  /\ UNCHANGED streams

(* Mutant: the slot of a stream that had nothing to send is kept.          *)
EndsHolding(p) ==
  /\ Serves(p, "ends")
  /\ streams' = IF page[p].last = page[p].from THEN streams ELSE streams - 1
  /\ page' = [page EXCEPT ![p] = [NoPage EXCEPT !.heard = page[p].heard]]

Ends(p) ==
  /\ Serves(p, "ends")
  /\ streams' = streams - 1
  /\ page' = [page EXCEPT ![p] = [NoPage EXCEPT !.heard = page[p].heard]]

Stream(p) == \/ Connect(p) \/ Begins(p) \/ Poll(p) \/ PollFails(p)
             \/ LoopEnds(p) \/ Ends(p)

Next == \/ StoreLive \/ StoreImport \/ AddTag \/ DeleteTag \/ ChangeTag \/ Tick
        \/ \E r \in Readers : Meta(r)
        \/ \E p \in Pages : Stream(p)

Spec == Init /\ [][Next]_vars

(* A stream's thread goes on until it ends.                                *)
StreamFairness ==
  \A p \in Pages : WF_vars(Begins(p)) /\ WF_vars(Poll(p)) /\ WF_vars(Ends(p))

FairSpec == Spec /\ StreamFairness

-----------------------------------------------------------------------------
(* Properties.                                                             *)

(* "The index lines up with an offset exactly": in both orders and under   *)
(* any filter, the page that begins where locate() says begins with the    *)
(* message, and context() is that page of its channel, with messages of    *)
(* one minute and imports of older ones.                                   *)
LocateLinesUp ==
  /\ \A m \in DOMAIN messages, F \in SUBSET Chans, order \in {"asc", "desc"} :
       LET at == Locate(m, F, order, FALSE) IN
       IF at = -1 THEN m \notin Matching(F) ELSE Search(F, order, 1, at) = <<m>>
  /\ \A m \in DOMAIN messages :
       LET at == Locate(m, {}, "asc", TRUE)
           skip == IF at > Span THEN at - Span ELSE 0 IN
       Context(m) = Search({messages[m].chan}, "asc", at - skip + Span + 1, skip)

(* The key of the cache "changes whenever the answer would": an answer     *)
(* counts every message that was there when it was asked for, however the  *)
(* requests that fill the cache and the archivist interleave.              *)
MetaCoversItsAsking ==
  \A r \in Readers : reader[r].pc = "told" => reader[r].total >= reader[r].asked

(* A change of a tag the key does not show is told after META_TTL seconds: *)
(* an answer has seen every edit made before the last MetaTTL ticks.       *)
MetaAtMostTTLOld ==
  \A r \in Readers : reader[r].pc = "told" /\ reader[r].since + 1 >= MetaTTL =>
    reader[r].edits >= editsAt[reader[r].since + 1 - MetaTTL]

(* A stream sends every message above the id it began with, each once and  *)
(* in order, whatever arrives between two polls and above the limit.       *)
Received(p) == SubSeq(page[p].heard, page[p].start + 1, Len(page[p].heard))
StreamMissesNothing ==
  \A p \in Pages : page[p].pc = "open" =>
    Received(p) = [i \in 1..(page[p].last - page[p].from) |-> page[p].from + i]

(* A slot is held for each stream that is open and for no other.           *)
SlotsMatchStreams == streams = Cardinality({p \in Pages : page[p].pc # "closed"})

(* A stream that is open catches up with the archive again and again, or   *)
(* ends and gives its slot back.                                           *)
StreamsCatchUp ==
  \A p \in Pages : []<>(\/ page[p].pc = "closed"
                        \/ page[p].pc = "open" /\ page[p].last = Len(messages))

(* "EventSource reconnects on its own; ?since= means nothing is missed":   *)
(* what a page receives over all its connections has no gap.               *)
NothingIsMissed ==
  \A p \in Pages : \A i \in 2..Len(page[p].heard) :
    page[p].heard[i] = page[p].heard[i - 1] + 1
=============================================================================
