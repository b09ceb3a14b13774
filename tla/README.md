# AuroraIRC in TLA+

Models, model-checked properties and machine-checked proofs about AuroraIRC, an
IRC archive with a web client. Every definition is translated from the Python
source; `PROJECT.json` names the lines each definition stands for.

    tlc -workers 2 -config Delivery.cfg MCDelivery     # one run
    tlapm DeliveryProofs.tla                           # one module's proofs

## 1. The system

Three kinds of process share one SQLite database and nothing else:

* `archive.py serve`: a threaded HTTP server (`server.py`), one handler per
  request, every statement committed by itself (autocommit connections);
* `archive.py live`: the connection manager (`connections.py`) with one
  **archivist** thread per network (`ircbot.py`), which records, and one
  **Sender** per user and network, which speaks;
* `archive.py import` and `mcp_server.py`: imports and read-only queries.

A supervisor (s6 in the add-on) restarts `serve` and `live` whenever they stop.

| component | state | operations | what makes it correct |
| --- | --- | --- | --- |
| outbox delivery (`server.py` `/api/send`, `connections.Manager`) | table `outbox`, settings `prewarm:*`, the Manager's batch | queue and route a line; pump, prewarm, reap, stop, restart | every line is answered once and for good, the answer is true, lines keep their order, nothing is repeated without a fault |
| send-only clients (`connections.Sender`) | table of Senders, their sockets, locks and `joined` | connect, ensure, say, query, close | one socket per nick; speak only in a channel that was joined; locks are released |
| archivist (`ircbot.Logger`) | registration, channels, `_wanted`, `_names`, `_ison`; `live_presence*` | connect, handle, pump, apply_channels | the roster is who is there; it listens where it is configured; a check's answer is about the person asked for |
| archivists and configuration (`Manager`, network handlers) | slots per network, networks and channels tables | start, sync, add, edit, disable, delete | exactly one archivist per enabled network, with that network's settings |
| command queue (`/api/command`, `pump_commands`, `Sender.query`) | `irc_commands` | queue, run, finish, clean up | a command is answered, its reply belongs to its user |
| archive storage (`db.py`) | `messages`, `events`, `channels`, `nicks`, the `Ids` of the Logger and of an import | look up a name, number a line, insert; delete and add channels | nothing recorded twice, nothing distinct dropped, everything under the channel it was said in |
| import (`backfill.py`, `ingest.py`) | files, `days`, jobs | fetch, parse, ingest, resume | an interrupted import is completed without repeats |
| queries (`query.py`) | none | search, page, locate, context | locate names the page a message is on, in both orders and under filters |
| accounts (`auth.py`) | users, sessions, invites, resets, factors, throttle | setup, invite, redeem, log in, reset, change, disable, delete | the founder stays; a session ends with what it was granted for; seats and links are accounted for |
| metadata cache and stream (`server.py`) | cache entry and key; stream counter | read, refresh; open, follow, close | no change is hidden for good; no slot leaks; the cursor skips nothing |
| passkeys, event summaries, image proxy, MCP, command line, web client, add-on | - | - | library work, I/O, read-only or packaging |

What is hard to test here, with its line, is the list of hazards in
`PROJECT.json`. Most come from four sources: *two statements where one was
meant* (the row that is visible before its network is set, the line that is
written before it is marked, the seat that is taken after the account is made),
*a thread that uses what another one replaced* (Senders popped or closed under a
pre-open thread, `joined`, `_wanted`, a slot whose thread has not filled it),
*something read before it changed* (the key of the metadata cache, an admin's
checks, a sign-in that crosses a reset), and *lines that cross on the way* (NAMES,
KICK, late ISON replies).

## 2. Modules

| module | what it is |
| --- | --- |
| `OutboxPromise` | what a person who pressed "send" is promised: the abstract specification |
| `Senders` | the Sender objects, their lock, and the pre-open threads that use them |
| `Delivery` | web process, outbox and the Manager's main thread; EXTENDS `Senders`; implements `OutboxPromise` |
| `OutboxPromiseProofs`, `DeliveryProofs` | theorems about these |
| `Presence` | one archivist: registration, channels, roster, ISON lookups |
| `ArchivePromise` | what the archive is for those who search it, a bag of lines for each channel: the abstract specification |
| `Storage` | the archive as the archivist and imports write it at the same time; implements `ArchivePromise` |
| `Manager` | the table of archivists, owners' edits of networks and channels, the queue of IRC commands |
| `Accounts` | accounts, invites, reset links and sessions, statement by statement |
| `Feed` | search pages and `locate`, the cached figures of `/api/meta`, the stream of new messages |
| `StorageProofs`, `StorageCountProofs` | theorems about `Storage`: what stays in the archive, and how often |
| `PresenceProofs`, `ManagerProofs`, `AccountsProofs`, `FeedProofs` | theorems about these |
| `MCDelivery`, `MCPresence`, `MCStorage`, `MCManager`, `MCAccounts`, `MCFeed` | instances for TLC |

### Delivery and Senders

*State.* `outbox`, `preopen` and `enabled` are the tables; `routing` the `/api/send`
handlers between their two statements. `pc`, `nets`, `batch`, `seen`, `cur`, `using`
are the main thread's program counter and `pump()`'s locals; `senders` and `sender`
the Manager's dictionary and the objects in it, kept apart because `pop` forgets an
object that a pre-open thread may still hold. `asked` and `inside` in a Sender are the network's
side of the connection: what was asked of it, and where it let the client in. `wire`
records every PRIVMSG written.

*Steps.* An action ends where another thread or process can come in between: at each
committed statement, at each blocking read, at the lock, and between `_send(JOIN)` and
`joined.add` in the pre-open thread. `say()` after registration is one action: its only
other user, a pre-open thread, waits for the lock, and a SIGTERM that closes the socket
before or after is `Stop` before or after (a write to the closed socket raises: `SayRaises`).
`SayRaises` covers each place where `say()` may raise: in `connect`, at a JOIN, at the PRIVMSG.
The UPDATE of a line and the end of the `try` it is in are two steps ("mark", "sent").

*Shutdown.* `stop()` first calls `bot.stop()` on every slot. While a slot is `None`, it raises
before it closes a Sender, in the main thread, wherever that is (`StopRaises`; the slots are
not in this module, so at any time). In the `try` of a line the `except` branch catches it
and marks the row failed, though it was written, or marked `sent`; elsewhere the pass is given up.

*Faults.* Sockets die unnoticed, channels in `Refusing` refuse or kick, UPDATEs fail
("database is locked"), both processes crash, SIGTERM arrives anywhere, once in a process.

### Presence

*State.* `members`, `inside` and `barred` (the channels that kicked the archivist or refused its
last JOIN) are the server's; `inbox` is every line written to the archivist and not read. The Logger's fields have their names; `taken` is the local `want`
of `apply_channels` between reading and clearing `_wanted`. `roster` and `synced` are the
two presence tables; `asked` the unanswered checks by `requested_at`.

*Steps.* `handle()` is one action per line: nobody else writes these tables.
`apply_channels` is two, because the main thread may set `_wanted` between its first
two statements. A failed send is `ApplyFails`; elsewhere a lost connection (`Cut`, with
the lines on their way) may show after any line (`Lose`), or never: `lines()` takes
`socket.timeout` for silence and has no ping of its own. A refused JOIN is answered with lines
that `handle()` ignores.

### Storage

*State.* `db` is what is committed: the channels' ids, the nicks, the rows with the number
that tells repeats apart. `ids`, `pc` and `cur` are the Logger's cache and where it is in
`insert_messages()` or `insert_events()`; `conn`, `listening` and `inbox` its connection. `job` is the
import in progress: the logs still to store, its own `Ids`, and `view`, what its
transaction sees. `said`, `taken` and `imported` count lines, for the properties only.

*One minute.* The unique key holds the minute, so lines of different minutes never meet;
the model is about one. What two clocks make of a line at the turn of a minute is left
out (the same line may then be stored live in one minute and imported in the next).

*Steps.* A statement of the live process is a transaction (autocommit) and a step. An
import's transaction is SQLite's in WAL mode: it reads a snapshot, takes the write lock with its
first writing statement, is refused ("database is locked", at once) if somebody wrote since the snapshot, and is seen
by others at COMMIT. `INSERT OR IGNORE` ignores a row whose key exists. The web process
deletes channels without `PRAGMA foreign_keys`, the live process inserts with it.

*Conditions.* `gaps` are lines for which a number was drawn and no row stored (a lock timeout,
a foreign key that fails): the next same line then takes the next number, and
`TakenIsStored` does not count them. `overtook` says that an import had a line the archivist
had received and not stored yet: it is then stored as a repeat, which `NothingTwice`
excludes. A deleted channel's archivist hears it for up to ten seconds, in the model for as long as it likes.

*The promise.* `KeepsArchive` maps the state to `ArchivePromise`: `Filed` counts, for each channel, the rows
with its id by the channel they were said in. There, a line enters one at a time, as it is
recorded, or by an import, which raises a line to what a log has of it or adds none;
nothing is taken out or filed elsewhere. The three excuses are variables of the promise: `ahead` (a log overtook the
archivist, or a channel was deleted) lifts the limit of what was said, `holes` (`gaps`) the exact
number an import makes, and `lost` (`Lost`) everything: a deleted channel, and then those that were
not there at first, since they may get its id.

### Manager

*State.* `nets` and `chan` are the tables owners edit, `cmd` is `irc_commands`. `slot` is
`Manager.archivists`: nothing, reserved (`None`), or a bot; `starting` the threads that
were given channels and have not filled their slot, `alive` those in `bot.run()`. The main
thread is `pc`, with `todo`, `chosen`, `rows` and `avail` as its locals. An archivist is
its wish, the channels it was last told; what it does with them is `Presence`.

*Steps.* Boot, the passes of `pump_commands` row by row, and `sync_config` network by
network are steps of the main thread; filling a slot is a step of the archivist's thread.
Every `db.connect()` of the live process runs `migrate()`, which adopts channels
without a network (`Connect`). An edit is one statement, but for a forced delete, which
detaches the channels in a second one; one owner edits at a time. `Sender.query()` is one
step that is answered or raises. `/api/command` counts, then inserts.

*Faults.* Crashes, threads that die before they fill their slot, writes that fail, that of an
`except` branch included, and shutdowns. A shutdown ends the loop once the pass is over; when a
slot is `None` it raises in the statement it interrupts (`StopRaises`): in the `try` of a command the
`except` branch then finishes the row with an error, whatever it said. `hits` counts, for each command, what
hit it while it was in hand (crash, failed write, raising shutdown); it is not in the program.

### Accounts

*State.* `users`, `founder` (`root_user_id`), `sess`, `invites`, `joins`, `links` are the
tables; `req` is the request each thread works on: its place, whom and what it is about.
`era`, `halfway` and `raced` are not in the program: `era` counts, per id, what should end the
sessions there are, `halfway` the endings that were cut off, and `raced` says that a setup
made its account when there was one already. A session is *late* when
what its sign-in had verified changed before the row was written.

*Steps.* What a request reads before its first write is one step with its checks; then
each statement is a step, because handlers run on threads of their own with autocommit
connections. `Dies` ends a request at any statement, and what it did stays. Rows may
vanish for being too old at any time (`SignOut`). Ids are one above the largest, so that
the id of a deleted account is used again, with what foreign keys, which are off, left behind.

### Feed

*Queries* are operators over the table of messages: `Search` (filter, order, limit, offset),
`Locate` and `Context`, each translated from its SQL, and compared with one another.

*Figures.* A thread in `cached_meta()` reads the largest id, looks at the cache, reads
messages, reads tags, and puts its answer into the cache, a step each. The figures are a
number of messages and a number of edits, which is what tells a stale answer from a fresh one.

*Streams.* A slot is counted, the loop begins at `?since=` or at the newest message, polls
in batches, and ends for one of three reasons, after which the slot is given back. `heard`
is what the page has received over all its connections.

## 3. Runs

Passing runs:

| run | bounds | question |
| --- | --- | --- |
| `Delivery` | 1 network, 1 user, 3 lines, LIMIT 2, 1 fault | is `OutboxPromise` implemented, with a crash or a failed UPDATE, and shutdowns, raising ones too, inside a batch and across two batches |
| `DeliveryWarm` | 2 networks, the channel on the second; 2 Sender objects, pre-open requests, 2 lines in one batch, shutdowns, no faults | do Senders survive being shared: no orphaned socket but a pre-opened one, no line in a channel not asked for, none unheard but by a dead socket |
| `DeliveryLive` | 1 line, a network that is disabled and enabled, a channel that refuses, pre-open requests, fairness | are lines answered and locks released |
| `Presence` | 2 people, 1 channel, 2 events, an edit, a kick, refused JOINs, a loss, 2 checks | is the roster current once every line has been read; is an answer about the person asked for |
| `PresenceLive` | 1 person, 2 channels, an edit, a kick, refused JOINs, a loss, a check, a timeout, fairness | does the archivist end up where it is configured and let in, unless a loss is never noticed; are checks answered |
| `Storage` | 2 channels, a message and an event, said 3 times in all; an import of up to 2 logs; an edit, restart or fault | is nothing taken or imported missing, nothing there twice; is `ArchivePromise` implemented, so that an import of known lines adds nothing |
| `Manager` | 2 networks, of which the second has to be added, 1 channel, LIMIT 1, 1 pending command allowed, 2 handlers, 2 requests, 3 command ids, 2 faults, fairness | has each network one archivist, do edits reach it, is each command answered, once, and truly |
| `Accounts` | 3 accounts, 2 sessions, 3 reset links, an invite with 1 seat, 2 threads, 4 requests, 1 request cut off | does the founder stand, do sessions end, are seats and links accounted for |
| `Feed` | 2 channels, 2 times, 3 messages; or 2 messages with 2 readers, 2 pages, 1 slot, batches of 1, 2 edits, a tick, 2 requests, fairness of streams | does `locate` line up with `search`, are figures neither short nor older than the TTL, do streams skip nothing and give back their slot |

Why the bounds are enough: three lines with LIMIT 2 give a full batch, a second batch
that starts where the first ended, and a line queued in the meantime; a fault and a shutdown in each
process give one on the recovery from the other (with two faults a line takes the same steps twice). With the
one network of `Delivery` the handler of `/api/send` takes its two statements at once (`RoutesAtOnce`), since a row that was
not routed yet goes to the same network; the other runs let it be overtaken. Two objects are what one key can have at once (the
one in the table, and one a pre-open thread still holds). Two people let a rename take
another's place, and two channels let one be edited while the other stays. A second
network that is added, deleted and added again gets an id that was used before. Two
threads are what it takes to come between a check and its statement, and three accounts
are the founder, an admin and somebody an admin changes. `Feed` looks at all archives of three messages
while nobody asks for anything else, and at two messages of one kind otherwise
(`MCSpec`): times and channels matter to searches only.

`Storage`, `Accounts` and `Feed` do not check for deadlock: when everything is said,
read and asked for, the system rests. All others do. `Accounts` takes sessions, links and
threads to be alike (symmetry); it checks no liveness.

Runs that end in a violation, each a disagreement between the code and what its own
documentation says (quoted under "findings" in `PROJECT.json`):

| run | what happens |
| --- | --- |
| `DeliveryRoute` | a line goes out on the first enabled network instead of its own |
| `StorageLogging` | an import commits the nick the archivist is about to add: its INSERT fails, the line is lost and the connection closed |
| `FeedReconnect` | a page whose stream is reconnected asks for it without `?since=`: what was stored in between never comes |

Limits of the code which the models show when a bound or a condition is lifted:

* A line is said again, and recorded again, when the process dies between PRIVMSG and UPDATE: delivery is
  at least once. `DuplicatesNeedAFault` states exactly that.
* `sent` means written, not heard: the socket may be dead, the channel may have refused
  the JOIN. `SpokenIsHeard` names the ways.
* A shutdown while an archivist's slot is `None` (its thread has just been started, or died before it filled
  it) raises in `stop()` (connections.py:483) before any Sender is closed. Caught in the `try` of a line or a command, it
  marks a line that was written as failed, turns `sent` into failed, or an answered command into an error,
  without any fault. `AnswerMatchesWire` and `AnswerIsFinal` except the rows it had in hand (`cut`), `AnswerMatchesRun` and
  `FinishedIsFinal` the commands (`hits`, `Overwritten`).
* After SIGTERM the rest of a batch is still said, on sockets `stop()` closed or that
  `connect()` opens again.
* `person_profile` trusts the roster as soon as one channel was synced; another one's NAMES may still be missing.
* An ISON reply that comes after `CHECK_TIMEOUT` is taken for the answer to the next
  check: `AnswerIsAboutAsked` fails with `MaxTimeouts = 1`.
* An archivist that was kicked, or refused by a channel, does not try again until the channels are edited or the
  connection is lost: `ListensWhereConfigured` leaves out `barred`.
* A connection that is lost without a sign is kept for ever: the archivist has no ping of its own. `ListensWhereConfigured`
  holds only if losses are noticed (`LossesAreNoticed`), and checks are not even given up if the loss came before the
  welcome (`HangsUnwelcomed`); without these conditions TLC finds both violated.
* Two open sockets for one nick are possible: `pump()` forgets a Sender that raised, while a
  pre-open thread waits for its lock and then connects it. `ExtraSocketIsWarm` says that this is the only way.
* `presence_rename` to the same nick in another case removes the person from the roster
  (`RosterIsCurrent` fails with `CaseRenames = TRUE`).
* Ids of networks, channels, tags, users and commands are used again (no AUTOINCREMENT, foreign keys
  off in the web process): a new channel has the deleted one's lines, a new account its reset links.
* `sync_config` looks at enabled networks only: archivists of disabled and deleted ones go on, and
  a new host, port or nick waits for a restart. A thread that dies before it fills its slot leaves
  it reserved until then (`Served` names it).
* An import's channel belongs to no network until some process connects, and then to the first one.
* Two first-time setups can overlap, as nothing keeps the second from passing `any_users()` (server.py:1240) before the
  first one's account is there, though the comment says "Once a user exists this is permanently closed" (1238-1239). Both accounts are
  admins, and the one recorded last is the founder; if the other one is recorded first and removes an account, the founder may be gone.
  `FounderStands` excepts archives with that history (`raced`).
* Redeems at once exceed `max_uses` by up to one less than there are; resets of one account at once leave a live link each.
* A sign-in that verified the old password before a reset can write its session after the
  reset dropped them (`late`).
* The key of the metadata cache does not show a tag's new name; `META_TTL` bounds how long.
* A line whose INSERT timed out leaves a gap in its numbers. A process started later
  begins to number at the count of rows, which is taken: the same line, said again, is
  then ignored as a repeat (`gaps`, above).

### Fairness

`Delivery`: weak fairness of the main thread and of each pre-open thread, nothing else.
Each blocking call they make has a timeout (30 s to connect, 30 s for sqlite), so each
step ends; locks are held only by these threads. No fairness of users, networks or faults.

`Presence`: the archivist's loop reads a line, then pumps, so neither starves the other
(strong fairness of reading and of lookups, which `apply_channels` interrupts; weak
fairness of the rest); `run()` tries again for ever after a lost connection, and a
connection succeeds in the end; `sync_config` runs every ten seconds. Losses are bounded.
That a loss is noticed is no fairness assumption (`Lose` is under none) but a condition of the property.

`Manager`: weak fairness of the main thread, the end of the process after a shutdown included, and of each archivist's thread, and strong
fairness of the passes that end in `sync_config`, which comes up every ten seconds. No
fairness of owners, members or faults. `sync_config` is not due in every pass.

`Feed`: weak fairness of each stream's own thread (begin, poll, end). That a reader or a page asks is not assumed.
`Accounts` has none.

## 4. Proofs

Each theorem holds for every value of the constants that its module's assumptions allow. The
inductive invariants were checked by TLC on instances like those of the runs before they were proved.

`DeliveryProofs` proves, for any networks, users, channels, objects, LIMIT and bounds:

* `TypeCorrect`, from `InductiveInvariant: Spec => []IInv`;
* `Refinement: Spec => KeepsPromise`, i.e. initial states map to initial states of
  `OutboxPromise` and each step to a step of it or a stutter;
* `NoRepeatWithoutFault`, `AnswersAreTrue`, `OrderIsKept`, `AnswersAreFinal`: the
  promise's own properties, proved about `OutboxPromise` in `OutboxPromiseProofs` and
  carried over through the refinement.

The inductive invariant. "Oldest first" is what the abstract outbox allows, but `pump()`
works through a batch it read earlier. `BatchIsOldest` says that if any of the batch can
be said (`nets # {}`), no older unanswered row is missing from it; it needs
`QueuedInOrder` (new rows are younger) and that only the main thread answers rows.
`RowInHand` ties `cur` and `using` to the batch and to the Sender's key, so that the
`except` branch forgets the right entry. `HandIsOpen`: the row in hand is unanswered, or it is the last one
written, was just marked, and only a raising shutdown makes it failed. `CopiesBounded` counts: an
unanswered row was written at most once per fault, and once more in "mark" or after a raising shutdown.
`SendersInv` keeps the table and the objects consistent under popping.

* `ExtraSocketsAreWarm`: `Spec => []ExtraSocketIsWarm`, the property with `Talking` being
  inductive (`SendersInvariant`): only the main thread and pre-open threads open sockets, the
  main thread for a Sender in the table; what leaves the table is closed, or a pre-open thread still has it;
* `JoinsComeFirst` and `SpokenLinesAreHeard`: `Spec => SpeaksOnlyAfterJoin` and `SpokenIsHeard`. `Trusts`
  says that `joined` is about the socket there is: its channels, and the one the
  pre-open thread is about to add, were asked for on this socket, and on an open one
  the client is in those that refuse nobody. `close()` by `stop()` breaks it, which is why both
  properties end with the beginning of a shutdown (`JoinedIsTrue`). `MainHolds`: the main thread keeps the
  lock while it says a line, so that no pre-open thread comes between.

The assumptions are
those the modules name: networks are positive integers (so `ORDER BY id` has a first one),
each channel has a network, `Limit` is positive, the bounds are naturals.

`StorageProofs` proves, for any channels, lines, logs and bounds:

* `TypeCorrect`, which needs that a line in hand has a channel id, and that the rows of a
  finite archive are finite (the numbers of live lines are counts);
* `ImportedStays`: `Spec => []ImportedIsStored`.

Its inductive invariant (`IInv`, theorem `ArchiveInvariant`) does not count: `Covers` says that each of the first
n occurrences of an imported line has a row of its own under the channel. Rows are only
added, so what must be shown is that an import adds them (`DocumentImported`), and that
its transaction loses nothing of what others commit: while it holds the lock, `view` extends `db`
(`Uncommitted`). `CacheIsCurrent` says that the channel ids an import remembers from its
earlier files are those in the table, except for channels deleted meanwhile; a channel deleted
since is what the property leaves out. `CoveredIsStored` then counts, by an
injection from occurrences to rows. The assumptions are `StorageAssumption`: there are
finitely many lines, and the bounds are naturals.

`StorageCountProofs` goes on to how often a line is there, under the same assumption:

* `TakenStays`: `Spec => []TakenIsStored`;
* `NothingIsDoubled`: `Spec => []NothingTwice`;
* `ImportsAreIdempotent`: `Spec => ReimportAddsNothing`;
* `KeepsThePromise`: `Spec => KeepsArchive`, the refinement of `ArchivePromise`;
* `SearchesAreTrue`: a channel that is not lost has the lines that were said there and no other's, as
  often as each imported log, and not oftener than they were said.

The first three are from `CountInvariant: Spec => []Counted`, which adds five parts to `IInv`.
`Identity`: an id that is stored with a row, cached or in hand is that of the channel it was
looked up for; once a channel was deleted, this holds for the others of those there at first (`Settled`), as SQLite
gives an id again. It is what
makes "the rows of a channel" mean anything. `NewIsDone`: what an import's
transaction has and the archive has not are lines its documents hold, which is all that
idempotence needs. `NumbersFollow`: the rows of a line that lost no number are numbered
0, 1, 2... without a gap, and the number the archivist draws next follows on them, though an import and
the archivist number independently; how many rows there are follows by the least number that is missing (`WFMin`),
which takes no induction over data. `NewIsUnheard`: until a channel has an id, nothing is numbered or taken of it, so that
a channel made in between begins like the others. `NoneAhead`: no row, document or number drawn is above
what was heard; it is an import that had a line before the archivist stored it that breaks this, or a
deleted channel, and these are the conditions of `NothingTwice`.

The refinement rests on one fact: of a channel that is not lost, what is filed under it are the
rows said there (`FiledIs`, from `Identity`), whichever id it has and whenever it gets it. So only two steps
change what the promise sees of rows, and all others are its excuses or people talking. Insert (`Records`)
adds one row or, if its key is there, none. COMMIT (`Imports`, `CommitMerges`): at least what the log has, as its numbers are
covered; if a new row came and no number was lost, not more either, for a row numbered at or above the log's
count would be an older one, and by `NumbersFollow` the new row's number would have been there before it.

`PresenceProofs` proves, for any people, channels and bounds:

* `TypeCorrect`: `Spec => []TypeOK`;
* `AnswersAreTheirOwn`: `Spec => []AnswerIsAboutAsked`. While no lookup was given up,
  at most one line in `inbox` answers a lookup, and it answers the one in hand (`LookupsInHand`);
* `RostersAreCurrent`: `Spec => []RosterIsCurrent`, under the hypothesis `~CaseRenames`, as the property
  fails otherwise (section 3).

`PresenceInvariant: Spec => []IInv` is about the lines on their way. `Listens`: in a channel the archivist is
in, there is a place in `inbox`, its beginning if the roster was rebuilt, else the end of the last
NAMES list, from which the lines that follow lead from the roster, or from that list, to
who is there; nothing after that place resets the roster. `Parted`: what is still
to be read about a channel it is not in ends in its own farewell, with which the roster is dropped. `ListsEnd` and `ListInHand`
keep a list and its end together. Without a connection the archivist is
in no channel, and a new one drops the rosters (`RostersFollow`). The assumptions are `PresenceAssumption`:
the archivist is none of the people, and there are finitely many channels (`apply_channels` writes a JOIN for each of them).

`ManagerProofs` proves, for any networks, channels, handlers, LIMIT, limit of pending commands
and bounds, every invariant of the run and its action property:

* `TypeCorrect`, which needs that sequences read from a table have rows of the table only;
* `NeverTwoArchivists`: `Spec => []OneArchivistEach`. A slot is taken as long as a thread is to fill it or
  runs (`SlotsAreKept`); what `run()` has left to start is listed once and has no slot, and
  `sync_config` looks at the slot again before it starts one;
* `CommandsAreLimited`: `Spec => []PendingIsBounded`, by counting pending commands and the handlers between
  their count and their INSERT together (`LimitHolds`);
* `CommandsAreRunOnce`: `Spec => []AnswerMatchesRun`. `History` counts the runs of a command by where it is: one
  that is marked `sent` and not in hand was cut off, and one in the `except` branch that has
  been answered was hit there;
* `FinishedStaysFinished`: `Spec => FinishedIsFinal`. `RowsArePending`: a pass holds a row once and only
  pending ones, as nobody else finishes them; the one whose `try` is not left yet may be finished.

All from `ManagerInvariant: Spec => []IInv`. The assumptions are `ManagerAssumption`: networks are positive
integers, finitely many and 1 among them (the one `migrate()` makes when there is none), there are finitely many
handlers and at least one, LIMIT and the limit of pending commands are positive.

`AccountsProofs` proves, for any numbers of ids, sessions, links, invites, threads, seats, requests
and faults, every invariant of the run:

* `TypeCorrect`, which needs that a request has the account, link or invite it is about (`Made`);
* `FounderIsSafe`: `Spec => []FounderStands`. What `root_id()` names is there, an admin and enabled
  (`IsRoot`, `Rooted`), or setups overlapped (`raced`), about which nothing is promised. Before there is an account nobody
  can be asked about (`Empty`), and a setup that did not overlap records the only account there was (`SettingUp`). What matters is `Looked`: whoever
  checked that he may lessen an account found that it is not the founder, and it cannot become
  it later, as new ids are larger than the ids there are;
* `OldSessionsEnd`: `Spec => []EndedStaysEnded`. A request carries the `era` it verified
  (`Held`), and an account about to be deleted has late sessions only (`Leaving`), because its others were
  dropped the statement before;
* `ResetLinksAreFew`: `Spec => []LinksAreBounded`, by counting live links and the requests
  about to make one together: clearing deletes them all, so that together they are never more
  than the threads;
* `InvitesAddUp`: `Spec => []InvitesAreAccountedFor`, by counting: joiners are seated (`Seated`), and
  seats taken plus requests that saw the invite open (`Pending`) stay below seats plus threads.

The assumptions are `AccountsAssumption`: finitely many threads and links, at least one id and seat.

`FeedProofs` proves, for any numbers of readers, pages, slots, messages, edits and ticks and any size
of batch, every invariant of the run:

* `AnswersCover`: `Spec => []MetaCoversItsAsking`. `Answer` and `Entry` say that figures are never older than
  the key they are filed under, and a thread's key never older than its request; ids only grow;
* `AnswersAreRecent`: `Spec => []MetaAtMostTTLOld`. An entry has the edits made before the tick it
  is dated with, and is dated before its reading began; `History` says that edits only grow;
* `StreamIsWhole`: `Spec => []StreamMissesNothing`, from a lemma about the rows a poll reads
  (`RowsAreNext`) and one about appending what counts on (`GoesOn`);
* `NoSlotLeaks`: `Spec => []SlotsMatchStreams`, and with it `TypeCorrect`, as the counter is only
  known not to become negative from there being an open stream;
* `LocatedIsFound`: `Spec => []LocateLinesUp`. `ORDER BY ts, id` leaves one order (`AheadOrders`), in which a message's
  place is one more than the number of those ahead of it (`Places`): there is a sorted sequence (`SortedSorts`) and no
  other (`SortedOnce`). `locate()` counts exactly those ahead, so the page that skips as many
  begins with the message (`LocatedFirst`). `context()` is two pages, one each way from the message: the nearest
  before it, turned round, and the nearest after it make the stretch of the channel around it (`Halves`,
  `ContextIsAPage`), though near an end it is shorter.

All from `FeedInvariant: Spec => []IInv`, the last from its part about the table of messages alone (`ArchiveOK`). The assumptions are `FeedAssumption`: finitely many pages, a
batch, a slot and a lifetime of at least one.

Only model-checked: liveness, for which TLAPS has no means under fairness here: `LinesAreAnswered`, `LocksAreReleased`,
`ListensWhereConfigured`, `ChecksAreAnswered`, `CommandsAreAnswered`, `ChannelsAreServed`, `StreamsCatchUp`.

The three disagreements of section 3 are TLC's counterexamples. Every other property of a run is proved.

## 5. Not modelled, and why

`PROJECT.json` lists every component with its status. Within the modelled ones: the text
of lines and replies, PING, nick fallback (433/436), addresses and TLS, flood limits, the
heartbeat. The clock is abstract: anything that may be old may be found old, with exceptions
named where they are used (no two checks in one second; ticks in `Feed`).

* Parsing of logs, IRC replies and search words, and hashing, TOTP and passkey
  verification: functions of text or bytes, without state that others share.
* Enrolment of factors, challenges, API tokens, the throttle, search history, the audit log, shares,
  notes, annotations and settings: single statements nothing else depends on. A sign-in may
  be refused at any time, which covers the throttle.
* FTS and its triggers: SQLite's own. `activity()`, event summaries and the MCP tools only read.
* A handler's `Event.set()` while the main thread is in `Event.wait()`, and a second signal during the first one's handler.
* Image proxy, command line, web client (but for how it opens its stream), packaging: I/O.

## 6. Plan

Done: delivery, presence, storage, the Manager with its commands, accounts, queries, figures and
streams, and the proofs of all their safety properties. What is left, most important first:

1. **Import**: the ingest of days and its resumption after a fetch that failed.
2. **Proofs**: shorter ones where two components use the same argument (queues, finite counts).
