------------------------------ MODULE Presence ------------------------------
(***************************************************************************)
(* One network's archivist (ircbot.Logger): its registration, the channels *)
(* it listens in, the roster it keeps of them in live_presence, and the    *)
(* ISON lookups it makes for the web process.                              *)
(*                                                                         *)
(* The archivist's thread reads lines in the order the server wrote them;  *)
(* people come and go while lines are on their way.  The Manager's main    *)
(* thread hands it new channel sets, the web process asks for lookups, the *)
(* connection may be lost and the process restarted.                       *)
(*                                                                         *)
(* Abstractions.  Nicks are compared without case (COLLATE NOCASE), so a   *)
(* nick is its folded form and a change of case is a rename to itself.     *)
(* The server handles a request as it is sent; what it answers waits in    *)
(* `inbox`, which covers every delay of the round trip.  The archivist's   *)
(* own nick, PING, and what goes to messages and events are left out.      *)
(* Time is abstract: an unanswered lookup may be found 10 seconds old, and *)
(* no two checks are asked for in the same second.                         *)
(***************************************************************************)
EXTENDS Naturals, Sequences, SequencesExt, FiniteSets

CONSTANTS Me,           \* the archivist's nick
          People,       \* everybody else's
          Chans,
          NoOne, NoWish,
          MaxEvents,    \* bound: joins, parts, quits and renames of people
          MaxEdits,     \* bound: changes an owner makes to the channels
          MaxLosses,    \* bound: lost connections and restarts
          MaxAsks,      \* bound: presence checks asked for
          MaxTimeouts,  \* bound: lookups given up before their answer is read
          MaxKicks,     \* bound: times the archivist is kicked
          Refuses,      \* whether channels may refuse the archivist
          CaseRenames   \* whether people change the case of their nick

ASSUME PresenceAssumption ==
  /\ Me \notin People
  /\ NoOne \notin People \cup {Me}
  /\ IsFiniteSet(Chans)
  /\ {MaxEvents, MaxEdits, MaxLosses, MaxAsks, MaxTimeouts, MaxKicks} \subseteq Nat
  /\ {Refuses, CaseRenames} \subseteq BOOLEAN

VARIABLES
  members,      \* the server: who is in each channel, without the archivist
  inside,       \* the server: the channels the archivist is in
  barred,       \* ... and those that kicked it, or refused its last JOIN
  inbox,        \* lines written to the archivist and not read yet
  configured,   \* channels of the network with archived = 1
  conn,         \* the archivist: not started, without socket, connected, cut
  registered, channels, wanted, names, ison,    \* fields of the Logger
  taken,        \* apply_channels' `want`, once it has read `_wanted`
  roster,       \* table live_presence
  synced,       \* table live_presence_state
  asked,        \* unanswered live_presence_checks, oldest requested_at first
  answer,       \* their last answer, and the nick it is really about
  events, edits, losses, asks, timeouts, kicks  \* counters for the bounds

server == <<members, inside, barred>>
logger == <<registered, channels, wanted, names, ison, taken>>
rosters == <<roster, synced>>
checks == <<asked, answer>>
counters == <<events, edits, losses, asks, timeouts, kicks>>
vars == <<server, inbox, configured, conn, logger, rosters, checks, counters>>

Nick == People \cup {Me}

NoAnswer == [says |-> "none", about |-> NoOne]

Message == [t: {"001", "421"}]
             \cup [t: {"JOIN", "GONE"}, c: Chans, n: Nick]
             \cup [t: {"QUIT"}, n: People]
             \cup [t: {"NICK"}, n: People, to: People]
             \cup [t: {"353"}, c: Chans, ns: SUBSET Nick]
             \cup [t: {"366"}, c: Chans]
             \cup [t: {"303"}, n: People, on: BOOLEAN]

(* A check not answered yet; the one in hand is one of them.               *)
Asked(n) == \E i \in DOMAIN asked : asked[i] = n

TypeOK ==
  /\ members \in [Chans -> SUBSET People]
  /\ inside \subseteq Chans /\ barred \subseteq Chans /\ configured \subseteq Chans
  /\ inbox \in Seq(Message)
  /\ conn \in {"off", "down", "up", "cut"}
  /\ registered \in BOOLEAN /\ channels \subseteq Chans
  /\ {wanted, taken} \subseteq (SUBSET Chans) \cup {NoWish}
  /\ names \in [Chans -> SUBSET Nick]
  /\ ison \in People \cup {NoOne}
  /\ roster \in [Chans -> SUBSET Nick] /\ synced \subseteq Chans
  /\ asked \in Seq(People)
  /\ answer \in [People -> [says: {"none", "online", "offline", "unknown"},
                            about: People \cup {NoOne}]]
  /\ ison # NoOne => registered /\ Asked(ison)
  /\ taken # NoWish => registered /\ conn # "off"

Nobody == [c \in Chans |-> {}]

Init == /\ members \in [Chans -> SUBSET People]
        /\ inside = {} /\ barred = {} /\ inbox = <<>>
        /\ configured \in SUBSET Chans
        /\ conn = "off" /\ registered = FALSE /\ channels = {}
        /\ wanted = NoWish /\ taken = NoWish
        /\ names = Nobody /\ ison = NoOne
        /\ roster = Nobody /\ synced = {}
        /\ asked = <<>> /\ answer = [n \in People |-> NoAnswer]
        /\ events = 0 /\ edits = 0 /\ losses = 0
        /\ asks = 0 /\ timeouts = 0 /\ kicks = 0

-----------------------------------------------------------------------------
(* The server and the people on it.                                        *)

(* What the archivist is told of a line about a channel, or about a person *)
(* in some of its channels.                                                *)
Told(c, m) == IF c \in inside THEN Append(inbox, m) ELSE inbox
ToldOf(n, m) == IF \E c \in inside : n \in members[c] THEN Append(inbox, m) ELSE inbox

PersonEvent == /\ events < MaxEvents
               /\ events' = events + 1
               /\ UNCHANGED <<inside, barred, configured, conn, logger, rosters, checks,
                              edits, losses, asks, timeouts, kicks>>

PersonJoins(n, c) ==
  /\ n \notin members[c]
  /\ members' = [members EXCEPT ![c] = @ \cup {n}]
  /\ inbox' = Told(c, [t |-> "JOIN", c |-> c, n |-> n])
  /\ PersonEvent

(* PART, or KICK by an operator.                                           *)
PersonGoes(n, c) ==
  /\ n \in members[c]
  /\ members' = [members EXCEPT ![c] = @ \ {n}]
  /\ inbox' = Told(c, [t |-> "GONE", c |-> c, n |-> n])
  /\ PersonEvent

PersonQuits(n) ==
  /\ \E c \in Chans : n \in members[c]
  /\ members' = [c \in Chans |-> members[c] \ {n}]
  /\ inbox' = ToldOf(n, [t |-> "QUIT", n |-> n])
  /\ PersonEvent

PersonRenames(n, m) ==
  /\ \E c \in Chans : n \in members[c]
  /\ IF m = n THEN CaseRenames ELSE \A c \in Chans : m \notin members[c]
  /\ members' = [c \in Chans |-> IF n \in members[c] THEN (members[c] \ {n}) \cup {m}
                                                      ELSE members[c]]
  /\ inbox' = ToldOf(n, [t |-> "NICK", n |-> n, to |-> m])
  /\ PersonEvent

KickArchivist(c) ==
  /\ c \in inside /\ kicks < MaxKicks
  /\ kicks' = kicks + 1
  /\ inside' = inside \ {c} /\ barred' = barred \cup {c}
  /\ inbox' = Append(inbox, [t |-> "GONE", c |-> c, n |-> Me])
  /\ UNCHANGED <<members, configured, conn, logger, rosters, checks,
                 events, edits, losses, asks, timeouts>>

(* The connection is cut; the lines that are here already can still be     *)
(* read, those on their way are lost.  Until it is noticed, if it ever is, *)
(* what is sent goes nowhere.                                              *)
Cut ==
  /\ conn = "up" /\ losses < MaxLosses
  /\ losses' = losses + 1
  /\ conn' = "cut" /\ inside' = {} /\ barred' = {}
  /\ \E k \in 0..Len(inbox) : inbox' = SubSeq(inbox, 1, k)
  /\ UNCHANGED <<members, configured, logger, rosters, checks,
                 events, edits, asks, timeouts, kicks>>

(* What the server does with JOINs and PARTs: an echo, and on a JOIN the   *)
(* names of everybody in the channel.  A cut connection carries nothing.   *)
(* A refusal is a line that the archivist ignores.                         *)
JoinReply(c) == <<[t |-> "JOIN", c |-> c, n |-> Me],
                  [t |-> "353", c |-> c, ns |-> members[c] \cup {Me}],
                  [t |-> "366", c |-> c]>>

Request(joins, parts, lines) ==
  IF conn = "up"
  THEN LET new  == SetToSeq(joins \ inside)
           left == SetToSeq(parts \cap inside)
           replies == [i \in 1..3 * Len(new) |->
                         JoinReply(new[(i + 2) \div 3])[1 + ((i + 2) % 3)]]
           echoes  == [i \in DOMAIN left |-> [t |-> "GONE", c |-> left[i], n |-> Me]]
       IN  /\ inside' = (inside \cup joins) \ parts
           /\ inbox' = lines \o (replies \o echoes)
  ELSE inside' = inside /\ inbox' = lines

Refusable(joins) == IF conn = "up" /\ Refuses THEN SUBSET (joins \ inside) ELSE {{}}

Sends(joins, parts, lines) ==
  \E refused \in Refusable(joins) :
    /\ Request(joins \ refused, parts, lines)
    /\ barred' = (barred \ (joins \cup parts)) \cup refused

-----------------------------------------------------------------------------
(* The web process.                                                        *)

(* POST /api/networks/channels: an owner chooses what is archived.         *)
Edit(S) ==
  /\ edits < MaxEdits /\ S # configured
  /\ edits' = edits + 1
  /\ configured' = S
  /\ UNCHANGED <<server, inbox, conn, logger, rosters, checks,
                 events, losses, asks, timeouts, kicks>>

(* There is one row for a person.                                          *)
WithoutAsk(s, n) == IF \E i \in DOMAIN s : s[i] = n
                    THEN RemoveAt(s, CHOOSE i \in DOMAIN s : s[i] = n)
                    ELSE s

(* POST /api/person/status: requested_at is now, so the check is the last  *)
(* in line.  In the very second of an answer it still counts as answered.  *)
AskStatus(n) ==
  /\ asks < MaxAsks
  /\ asks' = asks + 1
  /\ \/ asked' = Append(WithoutAsk(asked, n), n)
     \/ answer[n].says # "none" /\ ~Asked(n) /\ UNCHANGED asked
  /\ UNCHANGED <<server, inbox, configured, conn, logger, rosters, answer,
                 events, edits, losses, timeouts, kicks>>

-----------------------------------------------------------------------------
(* The Manager's main thread.                                              *)

(* start_archivist: at the start of the process or from sync_config, once  *)
(* there is a channel to archive.                                          *)
Start ==
  /\ conn = "off" /\ configured # {}
  /\ conn' = "down" /\ channels' = configured
  /\ UNCHANGED <<server, inbox, configured, registered, wanted, names, ison, taken,
                 rosters, checks, counters>>

(* Mutant: channels are only ever added.                                   *)
SyncAdding ==
  /\ IF conn = "off" THEN configured = {} /\ UNCHANGED wanted
                     ELSE wanted' = configured \cup channels
  /\ UNCHANGED <<server, inbox, configured, conn, registered, channels, names, ison,
                 taken, rosters, checks, counters>>

(* sync_config hands over the channels; want_channels only records them.   *)
(* A network without channels and without archivist stays as it is.        *)
Sync ==
  /\ IF conn = "off" THEN configured = {} /\ UNCHANGED wanted
                     ELSE wanted' = configured
  /\ UNCHANGED <<server, inbox, configured, conn, registered, channels, names, ison,
                 taken, rosters, checks, counters>>

(* The process stops or dies and is started again.                         *)
Restart ==
  /\ conn # "off" /\ losses < MaxLosses
  /\ losses' = losses + 1
  /\ conn' = "off" /\ inside' = {} /\ barred' = {} /\ inbox' = <<>>
  /\ registered' = FALSE /\ channels' = {} /\ wanted' = NoWish /\ taken' = NoWish
  /\ names' = Nobody /\ ison' = NoOne
  /\ UNCHANGED <<members, configured, rosters, checks,
                 events, edits, asks, timeouts, kicks>>

-----------------------------------------------------------------------------
(* The archivist's thread: connect() and run().                            *)

(* Mutant: a new connection keeps the rosters of the old one.              *)
ConnectTrusting ==
  /\ conn = "down"
  /\ conn' = "up" /\ registered' = FALSE
  /\ names' = Nobody /\ ison' = NoOne
  /\ inbox' = <<[t |-> "001"]>>
  /\ UNCHANGED <<server, configured, channels, wanted, taken, rosters, checks, counters>>

(* A new connection, nothing of the old one believed.                      *)
Connect ==
  /\ conn = "down"
  /\ conn' = "up" /\ registered' = FALSE
  /\ names' = Nobody /\ ison' = NoOne
  /\ roster' = Nobody /\ synced' = {}
  /\ inbox' = <<[t |-> "001"]>>
  /\ UNCHANGED <<server, configured, channels, wanted, taken, checks, counters>>

(* End of file or an exception; run() closes the socket and waits.  When   *)
(* neither comes, lines() goes on for ever: socket.timeout is no loss.     *)
Lose ==
  /\ conn = "cut"
  /\ conn' = "down" /\ inbox' = <<>> /\ taken' = NoWish
  /\ UNCHANGED <<server, configured, registered, channels, wanted, names, ison,
                 rosters, checks, counters>>

(* apply_channels reads `_wanted` ...                                      *)
ApplyReads ==
  /\ conn \in {"up", "cut"} /\ registered
  /\ taken = NoWish /\ wanted # NoWish
  /\ taken' = wanted
  /\ UNCHANGED <<server, inbox, configured, conn, registered, channels, wanted, names,
                 ison, rosters, checks, counters>>

(* ... and clears it, whatever it is by now; JOINs and PARTs what differs, *)
(* forgetting the rosters of the channels it leaves.                       *)
ApplyActs ==
  LET left == channels \ taken IN
  /\ conn \in {"up", "cut"} /\ taken # NoWish
  /\ wanted' = NoWish /\ taken' = NoWish /\ channels' = taken
  /\ Sends(taken \ channels, left, inbox)
  /\ roster' = [c \in Chans |-> IF c \in left THEN {} ELSE roster[c]]
  /\ synced' = synced \ left
  /\ UNCHANGED <<members, configured, conn, registered, names, ison, checks, counters>>

(* ... or fails on the way: the wish is gone, the old channels are kept.   *)
ApplyFails ==
  /\ conn = "cut" /\ taken # NoWish
  /\ \E left \in SUBSET (channels \ taken) :
        /\ roster' = [c \in Chans |-> IF c \in left THEN {} ELSE roster[c]]
        /\ synced' = synced \ left
  /\ wanted' = NoWish /\ taken' = NoWish
  /\ conn' = "down" /\ inbox' = <<>>
  /\ UNCHANGED <<server, configured, registered, channels, names, ison, checks, counters>>

(* Mutant: the next check is asked before the last one is answered.        *)
LookupAtOnce ==
  /\ conn = "up" /\ registered /\ taken = NoWish
  /\ \E n \in People :
       /\ Asked(n) /\ n # ison
       /\ ison' = n
       /\ inbox' = Append(inbox, [t |-> "303", n |-> n,
                            on |-> \E c \in Chans : n \in members[c]])
  /\ UNCHANGED <<server, configured, conn, registered, channels, wanted, names, taken,
                 rosters, checks, counters>>

(* pump_presence_check: one lookup at a time; the oldest check is asked.   *)
Lookup ==
  /\ conn \in {"up", "cut"} /\ registered /\ taken = NoWish
  /\ ison = NoOne /\ asked # <<>>
  /\ ison' = Head(asked)
  /\ inbox' = IF conn = "up"
              THEN Append(inbox, [t |-> "303", n |-> Head(asked),
                            on |-> \E c \in Chans : Head(asked) \in members[c]])
              ELSE inbox
  /\ UNCHANGED <<server, configured, conn, registered, channels, wanted, names, taken,
                 rosters, checks, counters>>

(* A network without ISON.                                                 *)
LookupRefused ==
  /\ conn = "up" /\ registered /\ taken = NoWish
  /\ ison = NoOne /\ asked # <<>>
  /\ ison' = Head(asked)
  /\ inbox' = Append(inbox, [t |-> "421"])
  /\ UNCHANGED <<server, configured, conn, registered, channels, wanted, names, taken,
                 rosters, checks, counters>>

(* Mutant: the answered lookup stays in hand.                              *)
AnswerKeepingIson(a) ==
  /\ answer' = [answer EXCEPT ![ison] = a]
  /\ asked' = WithoutAsk(asked, ison)
  /\ UNCHANGED ison

(* UPDATE live_presence_checks SET checked_at = now for the nick in hand.  *)
Answer(a) ==
  /\ answer' = [answer EXCEPT ![ison] = a]
  /\ asked' = WithoutAsk(asked, ison)
  /\ ison' = NoOne

Unknown == [says |-> "unknown", about |-> NoOne]

(* Ten seconds without an answer, which may come after that or never.      *)
NeverAnswered == \A i \in DOMAIN inbox : inbox[i].t \notin {"303", "421"}

LookupTimesOut ==
  /\ conn \in {"up", "cut"} /\ registered /\ taken = NoWish
  /\ ison # NoOne
  /\ \/ NeverAnswered /\ UNCHANGED timeouts
     \/ timeouts < MaxTimeouts /\ timeouts' = timeouts + 1
  /\ Answer(Unknown)
  /\ UNCHANGED <<server, inbox, configured, conn, registered, channels, wanted, names,
                 taken, rosters, events, edits, losses, asks, kicks>>

-----------------------------------------------------------------------------
(* The archivist's thread: handle(), by line.                              *)

Reading(t) == /\ conn \in {"up", "cut"} /\ taken = NoWish
              /\ inbox # <<>> /\ Head(inbox).t = t
              /\ UNCHANGED <<members, configured, conn, channels, wanted, taken, counters>>

OnWelcome ==
  /\ Reading("001")
  /\ registered' = TRUE
  /\ Sends(channels, {}, Tail(inbox))
  /\ UNCHANGED <<names, ison, rosters, checks>>

(* One line of the roster's tables; presence_join, presence_part,          *)
(* presence_quit, presence_rename and presence_clear_channel.              *)
OnRoster(t) ==
  /\ Reading(t)
  /\ inbox' = Tail(inbox)
  /\ UNCHANGED <<inside, barred, registered, names, ison, checks>>

OnJoin == /\ OnRoster("JOIN")
          /\ LET m == Head(inbox) IN roster' = [roster EXCEPT ![m.c] = @ \cup {m.n}]
          /\ UNCHANGED synced

OnGone ==
  LET m == Head(inbox) IN
  /\ OnRoster("GONE")
  /\ roster' = [roster EXCEPT ![m.c] = IF m.n = Me THEN {} ELSE @ \ {m.n}]
  /\ synced' = IF m.n = Me THEN synced \ {m.c} ELSE synced

OnQuit == /\ OnRoster("QUIT")
          /\ roster' = [c \in Chans |-> roster[c] \ {Head(inbox).n}]
          /\ UNCHANGED synced

(* INSERT OR IGNORE the new nick where the old one is, DELETE the old one. *)
OnNick ==
  LET m == Head(inbox) IN
  /\ OnRoster("NICK")
  /\ roster' = [c \in Chans |->
       (IF m.n \in roster[c] THEN roster[c] \cup {m.to} ELSE roster[c]) \ {m.n}]
  /\ UNCHANGED synced

OnNames ==
  LET m == Head(inbox) IN
  /\ Reading("353")
  /\ names' = [names EXCEPT ![m.c] = @ \cup m.ns]
  /\ inbox' = Tail(inbox)
  /\ UNCHANGED <<inside, barred, registered, ison, rosters, checks>>

(* presence_replace_channel: the whole list at once.                       *)
OnEndOfNames ==
  LET m == Head(inbox) IN
  /\ Reading("366")
  /\ roster' = [roster EXCEPT ![m.c] = names[m.c]]
  /\ synced' = synced \cup {m.c}
  /\ names' = [names EXCEPT ![m.c] = {}]
  /\ inbox' = Tail(inbox)
  /\ UNCHANGED <<inside, barred, registered, ison, checks>>

(* 303 carries the nicks that are online, not the ones that were asked.    *)
OnIson ==
  LET m == Head(inbox)
      on == m.on /\ m.n = ison IN
  /\ Reading("303")
  /\ inbox' = Tail(inbox)
  /\ IF ison = NoOne
     THEN UNCHANGED <<ison, checks>>
     ELSE Answer([says |-> IF on THEN "online" ELSE "offline", about |-> m.n])
  /\ UNCHANGED <<inside, barred, registered, names, rosters>>

(* Mutant: 421 drops the lookup and does not record that it was answered.  *)
OnNoIsonSilently ==
  /\ Reading("421")
  /\ inbox' = Tail(inbox)
  /\ ison' = NoOne
  /\ UNCHANGED <<inside, barred, registered, names, rosters, checks>>

OnNoIson ==
  /\ Reading("421")
  /\ inbox' = Tail(inbox)
  /\ IF ison = NoOne THEN UNCHANGED <<ison, checks>> ELSE Answer(Unknown)
  /\ UNCHANGED <<inside, barred, registered, names, rosters>>

Handle == \/ OnWelcome \/ OnJoin \/ OnGone \/ OnQuit \/ OnNick
          \/ OnNames \/ OnEndOfNames \/ OnIson \/ OnNoIson

-----------------------------------------------------------------------------
Archivist == Connect \/ Handle
Pump == ApplyReads \/ ApplyActs \/ ApplyFails
Checker == Lookup \/ LookupRefused \/ LookupTimesOut

World == \/ \E n \in People, c \in Chans : PersonJoins(n, c) \/ PersonGoes(n, c)
         \/ \E n \in People : PersonQuits(n) \/ AskStatus(n)
         \/ \E n, m \in People : PersonRenames(n, m)
         \/ \E c \in Chans : KickArchivist(c)
         \/ \E S \in SUBSET Chans : Edit(S)
         \/ Cut \/ Restart

Next == Archivist \/ Lose \/ Pump \/ Checker \/ Start \/ Sync \/ World

Spec == Init /\ [][Next]_vars

(* Both threads keep running, and a connection succeeds in the end.  That  *)
(* a cut one is noticed is not assumed.                                    *)
(* The archivist's loop reads a line before each pump and makes every      *)
(* pump's lookup after its channel changes, so that pumps cannot starve    *)
(* either, although each waits while apply_channels is under way.          *)
FairSpec == /\ Spec
            /\ SF_vars(Archivist) /\ SF_vars(Checker) /\ WF_vars(Pump)
            /\ WF_vars(Start) /\ WF_vars(Sync)

-----------------------------------------------------------------------------
(* Properties.                                                             *)

Quiet == conn = "up" /\ registered /\ inbox = <<>> /\ taken = NoWish

(* "Rebuilt from NAMES whenever an archivist connects and then kept        *)
(* current from ordinary presence traffic": once every line has been read, *)
(* a channel's roster is who is in it, and there is none for a channel the *)
(* archivist is not in, whatever crossed on the way.                       *)
RosterIsCurrent ==
  Quiet => \A c \in Chans :
             /\ c \in synced <=> c \in inside
             /\ roster[c] = IF c \in inside THEN members[c] \cup {Me} ELSE {}

(* A lookup's answer is about the person it was asked for, whatever else   *)
(* was asked, lost or refused, as long as no lookup was given up early:    *)
(* 303 does not say whom it answers, so that one at a time is all there is.*)
AnswerIsAboutAsked ==
  timeouts = 0 => \A n \in People :
    answer[n].says \in {"online", "offline"} => answer[n].about = n

(* Unless a lost connection goes unnoticed for ever, the archivist ends up *)
(* in no channel but the configured ones, and in all of them that have     *)
(* neither refused it nor kicked it since it came, however edits, reads of *)
(* `_wanted`, reconnects and restarts interleave.                          *)
LossesAreNoticed == []<>(conn # "cut")

ListensWhereConfigured ==
  LossesAreNoticed =>
    <>[](configured # {} => inside \subseteq configured /\ configured \ barred \subseteq inside)

(* Every presence check is answered, unless the archivist waits for ever   *)
(* for the welcome of a connection that is lost.                           *)
HangsUnwelcomed == <>[](conn = "cut" /\ ~registered)

ChecksAreAnswered ==
  HangsUnwelcomed \/ \A n \in People : []<>(~Asked(n) \/ configured = {})
=============================================================================
