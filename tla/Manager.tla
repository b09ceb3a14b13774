------------------------------- MODULE Manager -------------------------------
(***************************************************************************)
(* connections.Manager: the table of archivists it starts from the         *)
(* networks and channels that owners configure in the web process, and the *)
(* queue of IRC commands that members leave for it.                        *)
(*                                                                         *)
(* Three kinds of actors share the database.  The main thread boots, then  *)
(* passes over commands and configuration for ever; one thread per         *)
(* archivist opens a connection of its own and fills the slot kept for it; *)
(* the handlers of the web process edit networks and channels and queue    *)
(* commands.  The process may crash or be told to stop, and is started     *)
(* again; a thread may die while it opens the database, and a write may    *)
(* fail because an import holds it.  The handler of the signal runs on the *)
(* main thread, in the middle of whatever that does, and raises there when *)
(* a slot is still None.                                                   *)
(*                                                                         *)
(* Abstractions.  One owner edits at a time.  An archivist is its wish:    *)
(* the channels it was last told to be in (Presence says what becomes of   *)
(* them).  The statements of migrate() are one step, and so are a SELECT   *)
(* and the in-memory use of what it found.  Ten seconds, an hour and seven *)
(* days may have passed or not.  Host, port and nick of a network only     *)
(* matter when its archivist starts and are left out.                      *)
(***************************************************************************)
EXTENDS Naturals, Sequences, FiniteSets

CONSTANTS Nets,         \* network ids, from 1
          Chans,
          Handlers,     \* handler threads of one member's /api/command
          Batch,        \* rows read at a time, LIMIT 5
          PendingMax,   \* unfinished commands a member may have, 3
          MaxRequests,  \* bound: edits and commands asked for
          MaxCommands,  \* bound: command ids
          MaxFaults     \* bound: ends of the process, dead threads, failed writes

ASSUME ManagerAssumption ==
  /\ Nets \subseteq Nat \ {0} /\ 1 \in Nets
  /\ Batch \in Nat \ {0} /\ PendingMax \in Nat \ {0}
  /\ IsFiniteSet(Nets) /\ IsFiniteSet(Handlers) /\ Handlers # {}
  /\ {MaxRequests, MaxCommands, MaxFaults} \subseteq Nat

VARIABLES
  nets,         \* table networks: id -> row, or no row
  chan,         \* table channels: name -> row, or no row
  detaching,    \* a forced delete between its two statements, or 0
  slot,         \* Manager.archivists
  starting,     \* channels given to threads that have not filled their slot
  alive,        \* archivist threads in bot.run()
  pc, todo,     \* the main thread, and the networks it has yet to look at
  chosen,       \* start_archivist's `channels`
  stopping,     \* Manager._stop
  cmd,          \* table irc_commands; history: how often a row was run,
                \* whether its answer came, and the crashes, failed writes
                \* and raising shutdowns met with the row in hand
  rows, avail,  \* pump_commands' rows and `nets`
  asking,       \* handlers between their checks and their INSERT: the network
  requests, faults \* counters for the bounds

config == <<nets, chan, detaching>>
archivists == <<slot, starting, alive>>
main == <<pc, todo, chosen, stopping, rows, avail>>
vars == <<config, archivists, main, cmd, asking, requests, faults>>

Cmds == 1..MaxCommands

NoNet == [here |-> FALSE, enabled |-> FALSE]
NoChan == [here |-> FALSE, net |-> 0, arch |-> FALSE]
Empty == [st |-> "none", wish |-> {}]
Reserved == [st |-> "reserved", wish |-> {}]
NoCmd == [st |-> "none", net |-> 0, runs |-> 0, told |-> FALSE, hits |-> 0]

TypeOK ==
  /\ nets \in [Nets -> [here: BOOLEAN, enabled: BOOLEAN]]
  /\ chan \in [Chans -> [here: BOOLEAN, net: Nets \cup {0}, arch: BOOLEAN]]
  /\ detaching \in Nets \cup {0}
  /\ slot \in [Nets -> [st: {"none", "reserved", "bot"}, wish: SUBSET Chans]]
  /\ starting \in [Nets -> Seq(SUBSET Chans)]
  /\ alive \in [Nets -> Nat]
  /\ pc \in {"off", "boot", "channels", "start", "wait", "pump", "row", "query",
             "answer", "finished", "except", "sync", "channels2", "start2", "resume"}
  /\ todo \in Seq(Nets) /\ chosen \subseteq Chans /\ stopping \in BOOLEAN
  /\ cmd \in [Cmds -> [st: {"none", "queued", "sent", "done", "failed"},
                       net: Nets \cup {0}, runs: Nat, told: BOOLEAN, hits: Nat]]
  /\ rows \in Seq(Cmds) /\ avail \subseteq Nets
  /\ asking \in [Handlers -> Nets \cup {0}]
  /\ requests \in Nat /\ faults \in Nat

(* What the process finds when it starts: channels of networks there are,  *)
(* perhaps a command from before.                                          *)
Init ==
  /\ nets \in [Nets -> {NoNet, [here |-> TRUE, enabled |-> TRUE]}]
  /\ chan \in [Chans -> {NoChan} \cup
                 {[here |-> TRUE, net |-> n, arch |-> TRUE] : n \in Nets}]
  /\ \A c \in Chans : chan[c].here => nets[chan[c].net].here
  /\ detaching = 0
  /\ slot = [n \in Nets |-> Empty] /\ starting = [n \in Nets |-> <<>>]
  /\ alive = [n \in Nets |-> 0]
  /\ pc = "off" /\ todo = <<>> /\ chosen = {} /\ rows = <<>> /\ avail = {}
  /\ stopping = FALSE
  /\ \/ cmd = [i \in Cmds |-> NoCmd]
     \/ \E n \in Nets :
          /\ nets[n].here
          /\ cmd = [i \in Cmds |-> IF i = 1 THEN [NoCmd EXCEPT !.st = "queued", !.net = n]
                                  ELSE NoCmd]
  /\ asking = [h \in Handlers |-> 0]
  /\ requests = 0 /\ faults = 0

(* networks(enabled_only) and network_channels().                          *)
Enabled == {n \in Nets : nets[n].here /\ nets[n].enabled}
InOrder(S) == CHOOSE s \in [1..Cardinality(S) -> S] :
                \A i, j \in 1..Cardinality(S) : i < j => s[i] < s[j]
Archived(n) == {c \in Chans : chan[c].here /\ chan[c].net = n /\ chan[c].arch}

(* INTEGER PRIMARY KEY without AUTOINCREMENT: one above the largest id.    *)
IsNextId(i, Used) == IF Used = {} THEN i = 1
                     ELSE i - 1 \in Used /\ \A j \in Used : j < i

-----------------------------------------------------------------------------
(* Owners' edits, in the web process.                                      *)

Edit == /\ detaching = 0 /\ requests < MaxRequests
        /\ requests' = requests + 1
        /\ UNCHANGED <<archivists, main, cmd, asking, faults>>

AddNetwork(n) ==
  /\ Edit
  /\ IsNextId(n, {m \in Nets : nets[m].here})
  /\ nets' = [nets EXCEPT ![n] = [here |-> TRUE, enabled |-> TRUE]]
  /\ UNCHANGED <<chan, detaching>>

(* Only a forced delete detaches the network's channels, and in a second   *)
(* statement; without force no message may be archived, and the channels   *)
(* keep the id.                                                            *)
DeleteNetwork(n, force) ==
  /\ Edit
  /\ nets[n].here
  /\ nets' = [nets EXCEPT ![n] = NoNet]
  /\ detaching' = IF force THEN n ELSE 0
  /\ UNCHANGED chan

Detach ==
  /\ detaching # 0
  /\ chan' = [c \in Chans |-> IF chan[c].net = detaching
                              THEN [chan[c] EXCEPT !.net = 0, !.arch = FALSE]
                              ELSE chan[c]]
  /\ detaching' = 0
  /\ UNCHANGED <<nets, archivists, main, cmd, asking, requests, faults>>

ToggleNetwork(n) ==
  /\ Edit
  /\ nets[n].here
  /\ nets' = [nets EXCEPT ![n].enabled = ~@]
  /\ UNCHANGED <<chan, detaching>>

(* A channel's name is unique: adding it to a network takes it from        *)
(* another one.                                                            *)
AddChannel(n, c) ==
  /\ Edit
  /\ nets[n].here
  /\ chan' = [chan EXCEPT ![c] = [here |-> TRUE, net |-> n, arch |-> TRUE]]
  /\ UNCHANGED <<nets, detaching>>

ArchiveChannel(n, c, on) ==
  /\ Edit
  /\ nets[n].here /\ chan[c].here /\ chan[c].net = n
  /\ chan' = [chan EXCEPT ![c].arch = on]
  /\ UNCHANGED <<nets, detaching>>

DeleteChannel(n, c) ==
  /\ Edit
  /\ nets[n].here /\ chan[c].here /\ chan[c].net = n
  /\ chan' = [chan EXCEPT ![c] = NoChan]
  /\ UNCHANGED <<nets, detaching>>

(* An import adds a channel of its log without a network (Ids).            *)
ImportChannel(c) ==
  /\ Edit
  /\ ~chan[c].here
  /\ chan' = [chan EXCEPT ![c] = [here |-> TRUE, net |-> 0, arch |-> TRUE]]
  /\ UNCHANGED <<nets, detaching>>

Owner == \/ \E n \in Nets : AddNetwork(n) \/ ToggleNetwork(n)
         \/ \E n \in Nets, force \in BOOLEAN : DeleteNetwork(n, force)
         \/ \E n \in Nets, c \in Chans : AddChannel(n, c) \/ DeleteChannel(n, c)
         \/ \E n \in Nets, c \in Chans, on \in BOOLEAN : ArchiveChannel(n, c, on)
         \/ \E c \in Chans : ImportChannel(c)
         \/ Detach

-----------------------------------------------------------------------------
(* Mutant: channels without a network always get one of their own.         *)
ConnectApart ==
  LET orphans == {c \in Chans : chan[c].here /\ chan[c].net = 0}
      own == 1 + Cardinality({n \in Nets : nets[n].here}) IN
  /\ nets' = [n \in Nets |-> IF orphans # {} /\ n = own
                              THEN [here |-> TRUE, enabled |-> TRUE] ELSE nets[n]]
  /\ chan' = [c \in Chans |-> IF c \in orphans THEN [chan[c] EXCEPT !.net = own]
                              ELSE chan[c]]

(* db.connect() in the live process: migrate() gives channels without a    *)
(* network to the first one, or to a new "default" network.                *)
Connect ==
  LET orphans == {c \in Chans : chan[c].here /\ chan[c].net = 0}
      used == {n \in Nets : nets[n].here}
      first == CHOOSE n \in Nets : IF used = {} THEN n = 1
                                   ELSE n \in used /\ \A m \in used : n <= m IN
  IF orphans = {} THEN UNCHANGED <<nets, chan>>
  ELSE /\ nets' = [nets EXCEPT ![first] =
                     IF used = {} THEN [here |-> TRUE, enabled |-> TRUE] ELSE @]
       /\ chan' = [c \in Chans |-> IF c \in orphans
                                   THEN [chan[c] EXCEPT !.net = first]
                                   ELSE chan[c]]

(* run(): connect, list the networks, and start an archivist for each.     *)
Boot ==
  /\ pc = "off"
  /\ Connect
  /\ pc' = "boot"
  /\ UNCHANGED <<detaching, archivists, todo, chosen, stopping, rows, avail, cmd, asking,
                 requests, faults>>

BootNetworks ==
  /\ pc = "boot"
  /\ todo' = InOrder(Enabled)
  /\ pc' = "channels"
  /\ UNCHANGED <<config, archivists, chosen, stopping, rows, avail, cmd, asking, requests, faults>>

(* start_archivist(), first half: its own db.connect() and the channels.   *)
(* Without any the network gets no slot.                                   *)
StartReads(here, there, after) ==
  /\ pc = here /\ todo # <<>>
  /\ Connect
  /\ chosen' = {c \in Chans : chan'[c].here /\ chan'[c].net = Head(todo)
                              /\ chan'[c].arch}
  /\ IF chosen' = {} THEN pc' = after /\ todo' = Tail(todo)
                     ELSE pc' = there /\ todo' = todo
  /\ UNCHANGED <<detaching, archivists, stopping, rows, avail, cmd, asking, requests, faults>>

(* Mutant: the slot is not reserved, so that it stays empty until the      *)
(* thread fills it.                                                        *)
StartsThreadUnreserved(here, after) ==
  LET n == Head(todo) IN
  /\ pc = here
  /\ starting' = [starting EXCEPT ![n] = Append(@, chosen)]
  /\ chosen' = {} /\ todo' = Tail(todo) /\ pc' = after
  /\ UNCHANGED <<config, slot, alive, stopping, rows, avail, cmd, asking, requests, faults>>

(* Second half: reserve the slot (setdefault), start the thread.           *)
StartsThread(here, after) ==
  LET n == Head(todo) IN
  /\ pc = here
  /\ slot' = [slot EXCEPT ![n] = IF @.st = "none" THEN Reserved ELSE @]
  /\ starting' = [starting EXCEPT ![n] = Append(@, chosen)]
  /\ chosen' = {} /\ todo' = Tail(todo) /\ pc' = after
  /\ UNCHANGED <<config, alive, stopping, rows, avail, cmd, asking, requests, faults>>

BootDone ==
  /\ pc = "channels" /\ todo = <<>>
  /\ pc' = "wait"
  /\ UNCHANGED <<config, archivists, todo, chosen, stopping, rows, avail, cmd, asking,
                 requests, faults>>

(* _run_archivist(): open the database, fill the slot, run.                *)
ThreadRuns(n) ==
  /\ starting[n] # <<>>
  /\ Connect
  /\ slot' = [slot EXCEPT ![n] = [st |-> "bot", wish |-> Head(starting[n])]]
  /\ starting' = [starting EXCEPT ![n] = Tail(@)]
  /\ alive' = [alive EXCEPT ![n] = @ + 1]
  /\ UNCHANGED <<detaching, main, cmd, asking, requests, faults>>

(* db.connect() or Logger() raises: the thread ends, its slot stays None.  *)
ThreadDies(n) ==
  /\ starting[n] # <<>> /\ faults < MaxFaults
  /\ starting' = [starting EXCEPT ![n] = Tail(@)]
  /\ faults' = faults + 1
  /\ UNCHANGED <<config, slot, alive, main, cmd, asking, requests>>

-----------------------------------------------------------------------------
(* /api/command, and pump_commands() in the main thread.                   *)

Pending == {i \in Cmds : cmd[i].st \in {"queued", "sent"}}

(* Mutant: the limit refuses only above it.                                *)
AskLoosely(h, n) ==
  /\ asking[h] = 0 /\ n \in Enabled
  /\ Cardinality(Pending) <= PendingMax
  /\ asking' = [asking EXCEPT ![h] = n]
  /\ requests < MaxRequests /\ requests' = requests + 1
  /\ UNCHANGED <<config, archivists, main, cmd, faults>>

(* The handler's checks.  That too many were queued within ten seconds,    *)
(* or that the network is not connected, may refuse it at any time.        *)
Ask(h, n) ==
  /\ asking[h] = 0 /\ n \in Enabled
  /\ Cardinality(Pending) < PendingMax
  /\ asking' = [asking EXCEPT ![h] = n]
  /\ requests < MaxRequests /\ requests' = requests + 1
  /\ UNCHANGED <<config, archivists, main, cmd, faults>>

Queue(h) ==
  /\ asking[h] # 0
  /\ asking' = [asking EXCEPT ![h] = 0]
  /\ \/ \E i \in Cmds :
          /\ IsNextId(i, {j \in Cmds : cmd[j].st # "none"})
          /\ cmd' = [cmd EXCEPT ![i] = [NoCmd EXCEPT !.st = "queued",
                                                     !.net = asking[h]]]
     \/ cmd[MaxCommands].st # "none" /\ UNCHANGED cmd  \* bound: no id left
  /\ UNCHANGED <<config, archivists, main, requests, faults>>

FirstOf(S, k) == LET s == InOrder(S) IN SubSeq(s, 1, IF Len(s) < k THEN Len(s) ELSE k)

(* Mutant: failed commands are taken up again.                             *)
ReadCommandsRetrying ==
  /\ pc = "pump"
  /\ avail' = Enabled
  /\ rows' = FirstOf({i \in Cmds : cmd[i].st \in {"queued", "sent", "failed"}}, Batch)
  /\ pc' = "row"
  /\ UNCHANGED <<config, archivists, todo, chosen, stopping, cmd, asking, requests, faults>>

(* A pass sends the outbox first (Delivery).                               *)
PassBegins ==
  /\ pc = "wait" /\ ~stopping
  /\ pc' = "pump"
  /\ UNCHANGED <<config, archivists, todo, chosen, stopping, rows, avail, cmd, asking,
                 requests, faults>>

(* Then the commands; every hour, finished ones a week old are deleted.    *)
ReadCommands ==
  /\ pc = "pump"
  /\ \/ UNCHANGED cmd
     \/ cmd' = [i \in Cmds |-> IF i \in Pending THEN cmd[i] ELSE NoCmd]
  /\ avail' = Enabled
  /\ rows' = FirstOf(Pending, Batch)
  /\ pc' = "row"
  /\ UNCHANGED <<config, archivists, todo, chosen, stopping, asking, requests, faults>>

RowsDone ==
  /\ pc = "row" /\ rows = <<>>
  /\ pc' \in {"sync", "wait"} /\ avail' = {}
  /\ UNCHANGED <<config, archivists, todo, chosen, stopping, rows, cmd, asking,
                 requests, faults>>

(* The row in hand, and how it is finished.                                *)
Row == Head(rows)
Finish(i, how) == [cmd EXCEPT ![i].st = how]
OnRow(here) == /\ pc = here /\ rows # <<>>
               /\ UNCHANGED <<config, archivists, todo, chosen, stopping, avail, asking, requests>>

(* Mutant: the command of a network that is gone is passed over.           *)
UnavailableWaits ==
  /\ OnRow("row") /\ cmd[Row].net \notin avail
  /\ rows' = Tail(rows) /\ pc' = "row"
  /\ UNCHANGED <<cmd, faults>>

Unavailable ==
  /\ OnRow("row") /\ cmd[Row].net \notin avail
  /\ cmd' = Finish(Row, "failed")
  /\ rows' = Tail(rows) /\ pc' = "row"
  /\ UNCHANGED faults

MarkSent ==
  /\ OnRow("row") /\ cmd[Row].net \in avail
  /\ cmd' = Finish(Row, "sent")
  /\ pc' = "query"
  /\ UNCHANGED <<rows, faults>>

(* Sender.query(): the line is written and answered; or nothing could be   *)
(* written; or the connection was closed before the end of the answer.     *)
Query ==
  /\ OnRow("query")
  /\ cmd' = [cmd EXCEPT ![Row].runs = @ + 1, ![Row].told = TRUE]
  /\ pc' = "answer"
  /\ UNCHANGED <<rows, faults>>

(* Mutant: the line is written once more, as Sender.say() does.            *)
QueryRaisesTwice ==
  /\ OnRow("query")
  /\ \E wrote \in 0..2 : cmd' = [cmd EXCEPT ![Row].runs = @ + wrote]
  /\ pc' = "except"
  /\ UNCHANGED <<rows, faults>>

QueryRaises ==
  /\ OnRow("query")
  /\ \E wrote \in {0, 1} : cmd' = [cmd EXCEPT ![Row].runs = @ + wrote]
  /\ pc' = "except"
  /\ UNCHANGED <<rows, faults>>

Answered ==
  /\ OnRow("answer")
  /\ cmd' = Finish(Row, "done")
  /\ pc' = "finished"
  /\ UNCHANGED <<rows, faults>>

NextRow ==
  /\ OnRow("finished")
  /\ rows' = Tail(rows) /\ pc' = "row"
  /\ UNCHANGED <<cmd, faults>>

(* The except branch, whatever the row said before.                        *)
MarkFailed ==
  /\ OnRow("except")
  /\ cmd' = Finish(Row, "failed")
  /\ rows' = Tail(rows) /\ pc' = "row"
  /\ UNCHANGED faults

(* Something other than query() raises inside the try of a row; while      *)
(* query() runs its line may be out.                                       *)
InTry == /\ rows # <<>>
         /\ \/ pc = "row" /\ cmd[Row].net \in avail
            \/ pc \in {"query", "answer", "finished"}
TryRaises ==
  /\ InTry
  /\ \E wrote \in IF pc = "query" THEN {0, 1} ELSE {0} :
       cmd' = [cmd EXCEPT ![Row].hits = @ + 1, ![Row].runs = @ + wrote]
  /\ pc' = "except"
  /\ UNCHANGED <<config, archivists, todo, chosen, rows, avail, asking, requests>>

(* Or outside of it, and the rest of the pass is given up.                 *)
PassRaises ==
  /\ cmd' = IF pc = "except" THEN [cmd EXCEPT ![Row].hits = @ + 1] ELSE cmd
  /\ pc' = "wait" /\ todo' = <<>> /\ chosen' = {} /\ rows' = <<>> /\ avail' = {}
  /\ UNCHANGED <<config, archivists, asking, requests>>

(* A write raises: an UPDATE of the try; or the one of the except branch,  *)
(* that of an unavailable command, or another one of the pass.             *)
WriteFails ==
  /\ faults < MaxFaults /\ faults' = faults + 1
  /\ UNCHANGED stopping
  /\ \/ pc \in {"row", "answer"} /\ TryRaises
     \/ /\ \/ pc = "row" /\ ~InTry
           \/ pc \in {"pump", "except", "sync", "channels2", "start2", "resume"}
        /\ PassRaises

-----------------------------------------------------------------------------
(* sync_config().                                                          *)

SyncReads ==
  /\ pc = "sync" /\ todo = <<>>
  /\ todo' = InOrder(Enabled) /\ pc' = IF Enabled = {} THEN "wait" ELSE "sync"
  /\ UNCHANGED <<config, archivists, chosen, stopping, rows, avail, cmd, asking, requests, faults>>

SyncNext == pc' = IF Tail(todo) = <<>> THEN "wait" ELSE "sync"

(* Mutant: a network without a slot is left for the next start.            *)
SyncStartsNone ==
  /\ pc = "sync" /\ todo # <<>>
  /\ slot[Head(todo)].st = "none" /\ Archived(Head(todo)) # {}
  /\ todo' = Tail(todo) /\ SyncNext
  /\ UNCHANGED <<config, archivists, chosen, stopping, rows, avail, cmd, asking, requests, faults>>

(* A network added since the start, or one that had no channel then.       *)
SyncStarts ==
  /\ pc = "sync" /\ todo # <<>>
  /\ slot[Head(todo)].st = "none" /\ Archived(Head(todo)) # {}
  /\ pc' = "channels2"
  /\ UNCHANGED <<config, archivists, todo, chosen, stopping, rows, avail, cmd, asking,
                 requests, faults>>

(* Nothing to start, or a slot whose thread has not filled it yet.         *)
SyncSkips ==
  /\ pc = "sync" /\ todo # <<>>
  /\ \/ slot[Head(todo)].st = "reserved"
     \/ slot[Head(todo)].st = "none" /\ Archived(Head(todo)) = {}
  /\ todo' = Tail(todo) /\ SyncNext
  /\ UNCHANGED <<config, archivists, chosen, stopping, rows, avail, cmd, asking, requests, faults>>

SyncWants ==
  LET n == Head(todo) IN
  /\ pc = "sync" /\ todo # <<>>
  /\ slot[n].st = "bot"
  /\ slot' = [slot EXCEPT ![n].wish = Archived(n)]
  /\ todo' = Tail(todo) /\ SyncNext
  /\ UNCHANGED <<config, starting, alive, chosen, stopping, rows, avail, cmd, asking,
                 requests, faults>>

(* The pass is over once start_archivist() was the last network's.         *)
SyncResumes ==
  /\ pc = "resume"
  /\ pc' = IF todo = <<>> THEN "wait" ELSE "sync"
  /\ UNCHANGED <<config, archivists, todo, chosen, stopping, rows, avail, cmd, asking,
                 requests, faults>>

-----------------------------------------------------------------------------
(* stop(), on SIGTERM or SIGINT: bot.stop() on every slot, and then the    *)
(* Senders are closed.  Nothing else changes; a query() under way may      *)
(* raise as it may at any time.                                            *)
ShutsDown ==
  /\ pc # "off" /\ ~stopping /\ stopping' = TRUE
  /\ faults < MaxFaults /\ faults' = faults + 1

Stop ==
  /\ ShutsDown
  /\ \A n \in Nets : slot[n].st # "reserved"
  /\ UNCHANGED <<config, archivists, pc, todo, chosen, rows, avail, cmd, asking, requests>>

(* A slot that is None has no stop(), and the exception comes up in the    *)
(* main thread: in the try of a command or of an outbox row, which catch   *)
(* it, or elsewhere.                                                       *)
StopRaises ==
  /\ ShutsDown
  /\ \E n \in Nets : slot[n].st = "reserved"
  /\ \/ TryRaises
     \/ pc \notin {"query", "answer", "finished"} /\ PassRaises
     \/ /\ pc = "pump"
        /\ UNCHANGED <<config, archivists, pc, todo, chosen, rows, avail, cmd, asking, requests>>

(* The end of the process; its supervisor starts it again.                 *)
Restarted ==
  /\ slot' = [n \in Nets |-> Empty] /\ starting' = [n \in Nets |-> <<>>]
  /\ alive' = [n \in Nets |-> 0]
  /\ pc' = "off" /\ todo' = <<>> /\ chosen' = {} /\ stopping' = FALSE
  /\ rows' = <<>> /\ avail' = {}
  /\ UNCHANGED <<config, asking, requests>>

(* The loop sees _stop and run() returns.                                  *)
Exit ==
  /\ pc = "wait" /\ stopping
  /\ Restarted
  /\ UNCHANGED <<cmd, faults>>

(* Or it ends anywhere, a command in hand or its line just written.        *)
Crash ==
  /\ pc # "off" /\ faults < MaxFaults /\ faults' = faults + 1
  /\ Restarted
  /\ IF pc \in {"query", "answer", "finished", "except"}
     THEN \E wrote \in IF pc = "query" THEN {0, 1} ELSE {0} :
            cmd' = [cmd EXCEPT ![Row].hits = @ + 1, ![Row].runs = @ + wrote]
     ELSE UNCHANGED cmd

Starting == \/ Boot \/ BootNetworks \/ BootDone
            \/ StartReads("channels", "start", "channels")
            \/ StartsThread("start", "channels")
Pumping == \/ PassBegins \/ ReadCommands \/ RowsDone \/ Unavailable \/ MarkSent
           \/ Query \/ QueryRaises \/ Answered \/ NextRow \/ MarkFailed
Syncing == \/ SyncReads \/ SyncStarts \/ SyncSkips \/ SyncWants \/ SyncResumes
           \/ StartReads("channels2", "start2", "resume")
           \/ StartsThread("start2", "resume")

Thread == \E n \in Nets : ThreadRuns(n)
Member == \E h \in Handlers : Queue(h) \/ \E n \in Nets : Ask(h, n)
Fault == WriteFails \/ Stop \/ StopRaises \/ Crash \/ \E n \in Nets : ThreadDies(n)

Next == Starting \/ Pumping \/ Syncing \/ Exit \/ Thread \/ Owner \/ Member \/ Fault

Spec == Init /\ [][Next]_vars

(* The threads of the live process run; sync_config comes up every ten     *)
(* seconds, so that passes without it do not follow one another for ever.  *)
Fairness == /\ WF_vars(Starting \/ Pumping \/ Syncing \/ Exit)
            /\ SF_vars(RowsDone /\ pc' = "sync")
            /\ \A n \in Nets : WF_vars(ThreadRuns(n))

FairSpec == Spec /\ Fairness

-----------------------------------------------------------------------------
(* Properties.                                                             *)

(* "Each gets exactly one always-on archivist connection": a network never *)
(* has two archivists, running or about to, however the start-up, the      *)
(* sync and the threads that fill the slots interleave.                    *)
OneArchivistEach == \A n \in Nets : Len(starting[n]) + alive[n] <= 1

(* A member has at most one command more under way than the limit for each *)
(* handler that counted before another one's INSERT.                       *)
PendingIsBounded ==
  Cardinality(Pending) <= PendingMax - 1 + Cardinality(Handlers)

(* A command is run at most once more than the process crashed, a write    *)
(* failed or a shutdown raised while it was in hand; one shown as answered *)
(* was answered, and one shown as failed was not unless that happened.     *)
AnswerMatchesRun ==
  \A i \in Cmds : /\ cmd[i].runs <= 1 + cmd[i].hits
                  /\ cmd[i].st = "done" => cmd[i].told
                  /\ cmd[i].st = "failed" /\ cmd[i].told => cmd[i].hits > 0

(* What a finished command says does not change while its row is there,    *)
(* but for an answer that a shutdown which raised in its try turns into an *)
(* error.                                                                  *)
Overwritten(i) == /\ stopping /\ cmd[i].st = "done" /\ cmd[i].hits > 0
                  /\ cmd'[i].st = "failed"
FinishedIsFinal ==
  [][\A i \in Cmds : cmd[i].st \in {"done", "failed"} =>
       \/ cmd'[i].st = cmd[i].st \/ cmd'[i] = NoCmd
       \/ Overwritten(i)]_vars

(* Every queued command is finished, whatever becomes of its network.      *)
CommandsAreAnswered == \A i \in Cmds : []<>(i \notin Pending)

(* Edits reach the archivists without a restart: again and again, an       *)
(* enabled network with channels has an archivist that was told exactly    *)
(* those, unless its thread died before it filled the slot.                *)
Served(n) ==
  \/ n \notin Enabled
  \/ slot[n].st = "none" /\ Archived(n) = {}
  \/ slot[n].st = "bot" /\ slot[n].wish = Archived(n)
  \/ slot[n].st = "reserved" /\ starting[n] = <<>>

ChannelsAreServed == \A n \in Nets : []<>Served(n)
=============================================================================
