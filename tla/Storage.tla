------------------------------- MODULE Storage -------------------------------
(***************************************************************************)
(* The archive: channels, nicks, messages and events as the archivist of   *)
(* the live process and imports write them at the same time.               *)
(*                                                                         *)
(* Everything takes place within one minute, the unit in which repeated    *)
(* lines are told apart: what is said in another minute has another key.   *)
(* A line is who said what (nick, kind and stripped text); saying it again *)
(* is the same line.  A row's `of` is the channel the line was said in.    *)
(*                                                                         *)
(* SQLite is in WAL mode.  A statement of the live process is a            *)
(* transaction of its own and waits while an import holds the write lock;  *)
(* an import reads a snapshot until it first writes, and cannot write any  *)
(* more once somebody else has.                                            *)
(***************************************************************************)
EXTENDS Integers, Sequences, FiniteSets, FiniteSetsExt

CONSTANTS Names,       \* of channels
          Configured,  \* the ones there at first
          Lines,
          Events,      \* the lines that are joins, parts...: kept in `events`
          NickOf,      \* whose line it is
          NoName, NoLine,
          MaxId,       \* bound: channel ids
          MaxSaid,     \* bound: lines said in this minute
          MaxDocs,     \* bound: documents of one import
          MaxImports,  \* bound: imports begun
          MaxUpsets    \* bound: edits, restarts and faults together

ASSUME StorageAssumption ==
  /\ Configured \subseteq Names /\ Events \subseteq Lines
  /\ IsFiniteSet(Lines)
  /\ {MaxId, MaxSaid, MaxDocs, MaxImports, MaxUpsets} \subseteq Nat

VARIABLES
  db,         \* what is committed
  ids,        \* the Logger's Ids
  pc, cur,    \* the Logger: where insert_messages() is, and with which row
  conn,       \* whether the Logger is connected
  listening,  \* the channels it is in, or was in seconds ago
  inbox,      \* lines it has not read yet
  job,        \* the import in progress, with its transaction
  said,       \* how often each line was said
  taken,      \* how often the archivist was done storing it
  imported,   \* how often a committed document has it
  gaps,       \* keys of which a number was drawn and no row was stored
  overtook,   \* an import had lines the archivist had not stored yet
  deleted,    \* channels that were deleted
  imports,    \* counters for the bounds: imports begun,
  edits,      \* channels deleted or added by an owner,
  restarts,   \* restarts of the live process,
  faults      \* cut connections, lock timeouts, failed imports

logger == <<ids, pc, cur>>
link == <<conn, listening, inbox>>
ghosts == <<taken, gaps>>
history == <<imported, overtook>>
counters == <<imports, edits, restarts, faults>>
vars == <<db, logger, link, job, said, ghosts, history, deleted, counters>>

Nicks == {NickOf[l] : l \in Lines}
Id == 1..MaxId
Bag == [Names -> [Lines -> Nat]]
Nothing == [c \in Names |-> [l \in Lines |-> 0]]

Row == [cid: Id, line: Lines, seq: Nat, of: Names]
Database == [chan: [Names -> 0..MaxId], nicks: SUBSET Nicks, rows: SUBSET Row]
Cache == [chan: [Names -> 0..MaxId], nicks: SUBSET Nicks, seq: [Id \X Lines -> Nat]]
Doc == [chan: Names, lines: [Lines -> Nat]]
Job == [pc: {"none", "begin", "read", "write"}, docs: Seq(Doc), perFile: BOOLEAN, dry: BOOLEAN,
        ids: Cache, view: Database, done: Bag]

NoRow == [chan |-> NoName, line |-> NoLine, cid |-> 0, seq |-> 0]
NoIds == [chan |-> [c \in Names |-> 0], nicks |-> {}, seq |-> [k \in Id \X Lines |-> 0]]
Empty == [chan |-> [c \in Names |-> 0], nicks |-> {}, rows |-> {}]
NoJob == [pc |-> "none", docs |-> <<>>, perFile |-> FALSE, dry |-> FALSE, ids |-> NoIds,
          view |-> Empty, done |-> Nothing]

-----------------------------------------------------------------------------
(* The tables.                                                             *)

(* The id SQLite gives a row of a table without AUTOINCREMENT.             *)
NewId(d) == Max({d.chan[c] : c \in Names}) + 1

HasChannel(d, cid) == \E c \in Names : d.chan[c] = cid

Numbered(d, cid, l) == {r \in d.rows : r.cid = cid /\ r.line = l}

(* Mutant of InsertOrIgnore: the unique key lacks seq.                     *)
InsertOrIgnoreText(rows, new) ==
  rows \cup {r \in new : \A o \in rows : <<o.cid, o.line>> # <<r.cid, r.line>>}

(* INSERT OR IGNORE under the unique key.                                  *)
InsertOrIgnore(rows, new) ==
  rows \cup {r \in new : \A o \in rows : <<o.cid, o.line, o.seq>> # <<r.cid, r.line, r.seq>>}

(* Ids.seq: what was cached, or where to begin.                            *)
NextSeq(cache, cid, l, first) == IF cache.seq[<<cid, l>>] # 0 THEN cache.seq[<<cid, l>>] ELSE first

(* Mutants of FirstLive: nothing is counted; counted from the last one.    *)
FirstLiveUncounted(d, cid, l) == 0
FirstLiveShort(d, cid, l) == IF l \in Events THEN 0 ELSE Cardinality(Numbered(d, cid, l)) - 1
(* Mutant of FirstImported: imports count what is stored, too.             *)
FirstImportedCounted(d, cid, l) == Cardinality(Numbered(d, cid, l))

(* Live capture continues after what is stored; events are not counted.    *)
FirstLive(d, cid, l) == IF l \in Events THEN 0 ELSE Cardinality(Numbered(d, cid, l))
FirstImported(d, cid, l) == 0

Locked == job.pc = "write"

MayUpset == edits + restarts + faults < MaxUpsets

-----------------------------------------------------------------------------
(* People talk; an owner deletes and adds channels.                        *)

Total == MapThenSumSet(LAMBDA c : MapThenSumSet(LAMBDA l : said[c][l], Lines), Names)

Say(c, l) ==
  /\ Total < MaxSaid
  /\ said' = [said EXCEPT ![c][l] = @ + 1]
  /\ inbox' = IF conn /\ c \in listening THEN Append(inbox, [chan |-> c, line |-> l]) ELSE inbox
  /\ UNCHANGED <<db, logger, conn, listening, job, ghosts, history, deleted, counters>>

(* POST /api/networks/channels with delete and force: the web process does *)
(* not enforce foreign keys, the rows stay.  The archivist leaves within   *)
(* ten seconds; until then it hears what is said there.                    *)
DeleteChannel(c) ==
  /\ ~Locked /\ MayUpset
  /\ db.chan[c] # 0
  /\ db' = [db EXCEPT !.chan[c] = 0]
  /\ deleted' = deleted \cup {c}
  /\ edits' = edits + 1
  /\ UNCHANGED <<logger, link, job, said, ghosts, history, imports, restarts, faults>>

(* It is in a network, and the archivist is told to join it.               *)
AddChannel(c) ==
  /\ ~Locked /\ MayUpset
  /\ db.chan[c] = 0 /\ NewId(db) \in Id
  /\ db' = [db EXCEPT !.chan[c] = NewId(db)]
  /\ listening' = listening \cup {c}
  /\ edits' = edits + 1
  /\ UNCHANGED <<logger, conn, inbox, job, said, ghosts, history, deleted, imports, restarts, faults>>

-----------------------------------------------------------------------------
(* The archivist's connection.                                             *)

Reconnect ==
  /\ ~conn /\ pc = "idle" /\ inbox = <<>>
  /\ conn' = TRUE
  /\ UNCHANGED <<db, logger, listening, inbox, job, said, ghosts, history, deleted, counters>>

(* What was received before the connection broke may still be read.        *)
Cut ==
  /\ conn /\ MayUpset
  /\ conn' = FALSE
  /\ inbox' \in {inbox, <<>>}
  /\ faults' = faults + 1
  /\ UNCHANGED <<db, logger, listening, job, said, ghosts, history, deleted, imports, edits, restarts>>

(* A new process has new Ids.                                              *)
Restart ==
  /\ MayUpset
  /\ ids' = NoIds /\ pc' = "idle" /\ cur' = NoRow
  /\ conn' = FALSE /\ inbox' = <<>>
  /\ restarts' = restarts + 1
  /\ UNCHANGED <<db, listening, job, said, ghosts, history, deleted, imports, edits, faults>>

-----------------------------------------------------------------------------
(* The archivist stores a line: insert_messages() and insert_events() with *)
(* one row, each statement a step.                                         *)

(* The exception ends in Logger.run(), which closes the socket; the Ids    *)
(* stay as they are.                                                       *)
Raise ==
  /\ pc' = "idle" /\ cur' = NoRow
  /\ conn' = FALSE /\ inbox' = <<>>
  /\ UNCHANGED <<db, ids, listening, job, said, taken, history, deleted, imports, edits, restarts>>

(* Ids.channel: the cache, or else a SELECT.                               *)
TakeUp ==
  /\ pc = "idle" /\ inbox # <<>>
  /\ LET m == Head(inbox)
         known == IF ids.chan[m.chan] # 0 THEN ids.chan[m.chan] ELSE db.chan[m.chan]
     IN /\ ids' = [ids EXCEPT !.chan[m.chan] = known]
        /\ cur' = [chan |-> m.chan, line |-> m.line, cid |-> known, seq |-> 0]
        /\ pc' = IF known = 0 THEN "newChannel" ELSE "nick"
  /\ inbox' = Tail(inbox)
  /\ UNCHANGED <<db, conn, listening, job, said, ghosts, history, deleted, counters>>

NewChannel ==
  /\ pc = "newChannel" /\ ~Locked
  /\ db.chan[cur.chan] = 0 /\ NewId(db) \in Id
  /\ db' = [db EXCEPT !.chan[cur.chan] = NewId(db)]
  /\ ids' = [ids EXCEPT !.chan[cur.chan] = NewId(db)]
  /\ cur' = [cur EXCEPT !.cid = NewId(db)]
  /\ pc' = "nick"
  /\ UNCHANGED <<link, job, said, ghosts, history, deleted, counters>>

LookNick ==
  /\ pc = "nick"
  /\ LET nick == NickOf[cur.line] IN
     \/ /\ nick \in ids.nicks \cup db.nicks
        /\ ids' = [ids EXCEPT !.nicks = @ \cup {nick}]
        /\ pc' = "seq"
     \/ /\ nick \notin ids.nicks \cup db.nicks
        /\ pc' = "newNick"
        /\ UNCHANGED ids
  /\ UNCHANGED <<db, cur, link, job, said, ghosts, history, deleted, counters>>

NewNick ==
  /\ pc = "newNick" /\ ~Locked
  /\ NickOf[cur.line] \notin db.nicks
  /\ db' = [db EXCEPT !.nicks = @ \cup {NickOf[cur.line]}]
  /\ ids' = [ids EXCEPT !.nicks = @ \cup {NickOf[cur.line]}]
  /\ pc' = "seq"
  /\ UNCHANGED <<cur, link, job, said, ghosts, history, deleted, counters>>

(* The INSERT finds the name there: an import committed it meanwhile.      *)
NameTaken ==
  /\ ~Locked
  /\ \/ pc = "newChannel" /\ db.chan[cur.chan] # 0
     \/ pc = "newNick" /\ NickOf[cur.line] \in db.nicks
  /\ Raise
  /\ UNCHANGED <<gaps, faults>>

DrawSeq ==
  /\ pc = "seq"
  /\ LET n == NextSeq(ids, cur.cid, cur.line, FirstLive(db, cur.cid, cur.line))
     IN /\ cur' = [cur EXCEPT !.seq = n]
        /\ ids' = [ids EXCEPT !.seq[<<cur.cid, cur.line>>] = n + 1]
  /\ pc' = "insert"
  /\ UNCHANGED <<db, link, job, said, ghosts, history, deleted, counters>>

Insert ==
  /\ pc = "insert" /\ ~Locked
  /\ HasChannel(db, cur.cid)
  /\ db' = [db EXCEPT !.rows = InsertOrIgnore(@,
              {[cid |-> cur.cid, line |-> cur.line, seq |-> cur.seq, of |-> cur.chan]})]
  /\ taken' = [taken EXCEPT ![cur.chan][cur.line] = @ + 1]
  /\ pc' = "idle" /\ cur' = NoRow
  /\ UNCHANGED <<ids, link, job, said, gaps, history, deleted, counters>>

(* This process enforces foreign keys; its cached id is gone.              *)
ChannelGone ==
  /\ pc = "insert" /\ ~Locked
  /\ ~HasChannel(db, cur.cid)
  /\ gaps' = gaps \cup {<<cur.chan, cur.line>>}
  /\ Raise
  /\ UNCHANGED faults

(* "database is locked", after 30 seconds of an import.                    *)
LockTimeout ==
  /\ Locked /\ MayUpset
  /\ pc \in {"newChannel", "newNick", "insert"}
  /\ gaps' = IF pc = "insert" THEN gaps \cup {<<cur.chan, cur.line>>} ELSE gaps
  /\ faults' = faults + 1
  /\ Raise

-----------------------------------------------------------------------------
(* An import: import_files() and ingest() have a transaction per file,     *)
(* import_documents() one for all, rolled back on a dry run.               *)

Pending(c, l) ==
  Cardinality({i \in DOMAIN inbox : inbox[i] = [chan |-> c, line |-> l]})
    + (IF pc # "idle" /\ cur.chan = c /\ cur.line = l THEN 1 ELSE 0)

(* Logs have what was said, or some of it; conversation and presence       *)
(* traffic are imported separately.                                        *)
Logs == {d \in [chan : Names, lines : [Lines -> 0..MaxSaid]] :
           /\ \A l \in Lines : d.lines[l] <= said[d.chan][l]
           /\ \E l \in Lines : d.lines[l] > 0
           /\ (\A l \in Events : d.lines[l] = 0) \/ (\A l \in Lines \ Events : d.lines[l] = 0)}

StartImport ==
  /\ job.pc = "none" /\ imports < MaxImports
  /\ \E n \in 1..MaxDocs, perFile \in BOOLEAN, dry \in BOOLEAN :
       \E docs \in [1..n -> Logs] :
         /\ perFile => ~dry
         /\ \E kind \in {Events, Lines \ Events} :
              \A i \in 1..n, l \in Lines \ kind : docs[i].lines[l] = 0
         /\ job' = [NoJob EXCEPT !.pc = "begin", !.docs = docs, !.perFile = perFile, !.dry = dry]
         /\ overtook' = (overtook \/ \E i \in 1..n, l \in Lines :
              docs[i].lines[l] > said[docs[i].chan][l] - Pending(docs[i].chan, l))
  /\ imports' = imports + 1
  /\ UNCHANGED <<db, logger, link, said, ghosts, imported, deleted, edits, restarts, faults>>

(* BEGIN and the first lookup, which fixes the snapshot.                   *)
ReadSnapshot ==
  /\ job.pc = "begin"
  /\ job' = [job EXCEPT !.pc = "read", !.view = db, !.done = Nothing]
  /\ UNCHANGED <<db, logger, link, said, ghosts, history, deleted, counters>>

(* Mutant of ResetSeq: numbers go on from one document to the next.        *)
KeepSeq(cache) == cache

(* Ids.reset_seq.                                                          *)
ResetSeq(cache) == [cache EXCEPT !.seq = NoIds.seq]

(* The first writing statement takes the lock, unless somebody wrote since *)
(* the snapshot.  What is inserted of a document, in batches, is numbered  *)
(* by occurrence; nobody sees it before COMMIT.                            *)
ImportDocument ==
  /\ \/ job.pc = "read" /\ db = job.view
     \/ job.pc = "write" /\ ~job.perFile
  /\ job.docs # <<>>
  /\ LET doc == Head(job.docs)
         cached == job.ids.chan[doc.chan]
         known == IF cached # 0 THEN cached ELSE job.view.chan[doc.chan]
         cid == IF known # 0 THEN known ELSE NewId(job.view)
         cache == ResetSeq(job.ids)
         first == [l \in Lines |-> NextSeq(cache, cid, l, FirstImported(job.view, cid, l))]
         rows == UNION {{[cid |-> cid, line |-> l, seq |-> i, of |-> doc.chan] :
                           i \in first[l]..(first[l] + doc.lines[l] - 1)} : l \in Lines}
         view == [chan |-> IF known = 0 THEN [job.view.chan EXCEPT ![doc.chan] = cid]
                           ELSE job.view.chan,
                  nicks |-> job.view.nicks \cup {NickOf[r.line] : r \in rows},
                  rows |-> InsertOrIgnore(job.view.rows, rows)]
         numbers == [k \in Id \X Lines |-> IF k[1] = cid THEN first[k[2]] + doc.lines[k[2]]
                                            ELSE cache.seq[k]]
         most == [l \in Lines |-> Max({job.done[doc.chan][l], doc.lines[l]})]
     IN /\ cid \in Id
        /\ cached # 0 => HasChannel(job.view, cached)
        /\ job' = [job EXCEPT !.pc = "write", !.docs = Tail(@), !.view = view,
                              !.ids = [cache EXCEPT !.chan[doc.chan] = cid, !.seq = numbers],
                              !.done[doc.chan] = most]
  /\ UNCHANGED <<db, logger, link, said, ghosts, history, deleted, counters>>

(* COMMIT, or the ROLLBACK of a dry run.                                   *)
ImportEnds ==
  /\ job.pc = "write" /\ (job.perFile \/ job.docs = <<>>)
  /\ IF job.dry THEN UNCHANGED <<db, imported>>
     ELSE /\ db' = job.view
          /\ imported' = [c \in Names |-> [l \in Lines |-> Max({imported[c][l], job.done[c][l]})]]
  /\ job' = IF job.docs = <<>> THEN NoJob ELSE [job EXCEPT !.pc = "begin"]
  /\ UNCHANGED <<logger, link, said, ghosts, overtook, deleted, counters>>

(* The exception is raised again after ROLLBACK: somebody else has written *)
(* since the snapshot, or the cached channel of an earlier file is gone.   *)
ImportRefused ==
  /\ \/ job.pc = "read" /\ db # job.view
     \/ /\ job.pc = "read" /\ job.docs # <<>>
        /\ job.ids.chan[Head(job.docs).chan] # 0
        /\ ~HasChannel(job.view, job.ids.chan[Head(job.docs).chan])
  /\ job' = NoJob
  /\ UNCHANGED <<db, logger, link, said, ghosts, history, deleted, counters>>

(* A file that cannot be read, a process that dies.                        *)
ImportFails ==
  /\ job.pc # "none" /\ MayUpset
  /\ job' = NoJob
  /\ faults' = faults + 1
  /\ UNCHANGED <<db, logger, link, said, ghosts, history, deleted, imports, edits, restarts>>

-----------------------------------------------------------------------------
Init ==
  /\ \E chan \in [Names -> 0..MaxId] :
       /\ \A c \in Names : chan[c] # 0 <=> c \in Configured
       /\ \A c \in Configured : chan[c] <= Cardinality(Configured)
       /\ \A c1, c2 \in Configured : chan[c1] = chan[c2] => c1 = c2
       /\ db = [chan |-> chan, nicks |-> {}, rows |-> {}]
  /\ ids = NoIds /\ pc = "idle" /\ cur = NoRow
  /\ conn = FALSE /\ listening = Configured /\ inbox = <<>>
  /\ job = NoJob
  /\ said = Nothing /\ taken = Nothing /\ imported = Nothing
  /\ gaps = {} /\ overtook = FALSE /\ deleted = {}
  /\ imports = 0 /\ edits = 0 /\ restarts = 0 /\ faults = 0

People == \E c \in Names, l \in Lines : Say(c, l)
Owner == \E c \in Names : DeleteChannel(c) \/ AddChannel(c)
Connection == Reconnect \/ Cut \/ Restart
Store == \/ TakeUp \/ NewChannel \/ LookNick \/ NewNick \/ NameTaken
         \/ DrawSeq \/ Insert \/ ChannelGone \/ LockTimeout
Import == StartImport \/ ReadSnapshot \/ ImportDocument \/ ImportEnds \/ ImportRefused \/ ImportFails

Next == People \/ Owner \/ Connection \/ Store \/ Import

Spec == Init /\ [][Next]_vars

-----------------------------------------------------------------------------
TypeOK ==
  /\ db \in Database /\ ids \in Cache
  /\ pc \in {"idle", "newChannel", "nick", "newNick", "seq", "insert"}
  /\ cur \in [chan: Names \cup {NoName}, line: Lines \cup {NoLine}, cid: 0..MaxId, seq: Nat]
  /\ conn \in BOOLEAN /\ listening \subseteq Names
  /\ inbox \in Seq([chan: Names, line: Lines])
  /\ job \in Job
  /\ {said, taken, imported} \subseteq Bag
  /\ gaps \subseteq Names \X Lines /\ overtook \in BOOLEAN /\ deleted \subseteq Names
  /\ {imports, edits, restarts, faults} \subseteq Nat

Stored(c, l) == Cardinality({r \in db.rows : r.cid = db.chan[c] /\ r.line = l})

(* A channel that is deleted is lost, and with it the ones that were not   *)
(* there at first, since they may get its id.                              *)
Lost == IF deleted = {} THEN {} ELSE deleted \cup (Names \ Configured)

(* What the archivist has stored stays told apart from what an import or a *)
(* former process stored: with every line it is done with, the archive has *)
(* one row more, as long as no number was drawn in vain.  Events start at  *)
(* 0 in every process, so they only keep this until a restart.             *)
TakenIsStored ==
  \A c \in Names \ Lost, l \in Lines :
    <<c, l>> \notin gaps /\ (l \in Events => restarts = 0) => taken[c][l] <= Stored(c, l)

(* A log that was imported is in the archive as often as it says, whatever *)
(* was live or imported before and after.                                  *)
ImportedIsStored ==
  \A c \in Names \ deleted, l \in Lines : imported[c][l] <= Stored(c, l)

(* Live capture and imports of the same conversation do not add up: the    *)
(* archive never has a line more often than it was said, if no log had     *)
(* lines the archivist had still to store.                                 *)
NothingTwice ==
  ~overtook /\ deleted = {} => \A c \in Names, l \in Lines : Stored(c, l) <= said[c][l]

(* The bag of lines an archive is, channel by channel.                     *)
Filed == [c \in Names |-> [k \in Names \X Lines |->
            Cardinality({r \in db.rows : r.cid = db.chan[c] /\ r.of = k[1] /\ r.line = k[2]})]]

Archive == INSTANCE ArchivePromise
             WITH kept <- Filed, ahead <- overtook \/ deleted # {}, holes <- gaps, lost <- Lost

(* The archive is what ArchivePromise says, whatever the live process and  *)
(* imports do at the same time.                                            *)
KeepsArchive == Archive!PSpec

(* "logging never stops, whatever anyone else is doing" (README.md:54): a  *)
(* line the archivist took up is in the archive when it is done with it,   *)
(* unless the process is restarted.                                        *)
LoggingNeverStops ==
  [][pc # "idle" /\ pc' = "idle" /\ restarts' = restarts
       => \A c \in Names, l \in Lines :
            cur.chan = c /\ cur.line = l => taken[c][l] < Stored(c, l)']_vars
=============================================================================
