------------------------------ MODULE Delivery ------------------------------
(***************************************************************************)
(* A line from POST /api/send to the IRC network and its answer.           *)
(*                                                                         *)
(* The web process queues a row in two statements (INSERT, then UPDATE of  *)
(* its network), each committed by itself.  The live process's main thread *)
(* loops over pump(), prewarm(), reap(); pump() works through a batch of   *)
(* rows it read beforehand, says each one through the user's Sender and    *)
(* marks it.  Pre-open threads share the Senders with it (Senders.tla).    *)
(* Any process may crash.  SIGTERM closes the Senders under the main       *)
(* thread wherever that is, or raises there because an archivist's slot is *)
(* not filled, and the supervisor starts the process again.                *)
(*                                                                         *)
(* pump_commands() and sync_config(), which run in the same loop, neither  *)
(* read nor write the rows; pump_commands uses Senders like pump does.     *)
(* Time is abstract: reap() may find any ready Sender idle, and            *)
(* a pre-open request may be found too old.                                *)
(***************************************************************************)
EXTENDS Senders, Sequences

CONSTANTS ChanNet,      \* channels.network_id of each configured channel
          Toggled,      \* bound: networks an owner enables and disables
          Focused,      \* bound: channels whose composer gets the focus
          Limit,        \* rows one pump() reads: LIMIT 20 in the code
          MaxRows,      \* bound: lines queued
          MaxFaults     \* bound: live-process crashes and failed UPDATEs

ASSUME DeliveryAssumption == /\ ChanNet \in [Chans -> Nets]
                             /\ Toggled \subseteq Nets
                             /\ Focused \subseteq Chans
                             /\ Limit \in Nat \ {0}
                             /\ MaxRows \in Nat
                             /\ MaxFaults \in Nat

NoNet == 0              \* outbox.network_id IS NULL
NoRow == 0

VARIABLES
  outbox,       \* table outbox
  routing,      \* /api/send handlers between their INSERT and their UPDATE
  enabled,      \* networks with enabled = 1
  preopen,      \* settings rows prewarm:<network>:<nick>, with their channel
  pc,           \* where the main thread is
  nets,         \* pump's `nets`, read once per batch
  batch, seen,  \* pump's `rows` still to do, and the network_id each had
  cur, using,   \* the row being said, and the Sender used for it
  stopping,     \* Manager._stop
  wire,         \* history: every PRIVMSG written to a socket
  faults,       \* history: crashes and failed UPDATEs
  cut           \* history: rows in hand when a shutdown raised

db == <<outbox, routing, enabled, preopen>>
main == <<pc, nets, batch, seen, cur, using, stopping>>
history == <<wire, faults, cut>>
vars == <<senders, sender, db, main, history>>

Row == 1 .. MaxRows

NoLine == [state |-> "none", chan |-> NoChan, nick |-> NoKey, net |-> NoNet]

LineRec == [state: {"none", "pending", "sent", "failed"},
            chan: Chans \cup {NoChan}, nick: Nicks \cup {NoKey},
            net: Nets \cup {NoNet}]

(* One PRIVMSG: the row, the network its socket is on, whether the socket  *)
(* had asked to join the channel, and whether the channel, and so the      *)
(* archivist in it, heard the line.                                        *)
WireRec == [row: Row, net: Nets, asked: BOOLEAN, heard: BOOLEAN]

TypeOK ==
  /\ SendersTypeOK
  /\ outbox \in [Row -> LineRec]
  /\ routing \subseteq Row
  /\ enabled \subseteq Nets
  /\ preopen \in [Key -> Chans \cup {NoChan}]
  /\ pc \in {"loop", "rows", "row", "say", "mark", "sent", "except", "prewarm",
             "reap"}
  /\ nets \subseteq Nets
  /\ batch \subseteq Row
  /\ seen \in [Row -> Nets \cup {NoNet}]
  /\ cur \in Row \cup {NoRow}
  /\ using \in Objs \cup {NoObj}
  /\ stopping \in BOOLEAN
  /\ wire \in Seq(WireRec)
  /\ faults \in 0 .. MaxFaults
  /\ cut \subseteq Row

(* The live process as it starts: no Sender, nothing read.                 *)
FreshMain == /\ pc = "loop" /\ nets = {} /\ batch = {}
             /\ seen = [r \in Row |-> NoNet]
             /\ cur = NoRow /\ using = NoObj /\ stopping = FALSE

Init == /\ SendersInit
        /\ outbox = [r \in Row |-> NoLine]
        /\ routing = {}
        /\ enabled \in {S \in SUBSET Nets : Nets \ Toggled \subseteq S}
        /\ preopen = [k \in Key |-> NoChan]
        /\ FreshMain
        /\ wire = <<>>
        /\ faults = 0
        /\ cut = {}

-----------------------------------------------------------------------------
(* The web process.                                                        *)

(* POST /api/send up to the commit of its INSERT: channel_network() has    *)
(* found the channel's network and its archivist's heartbeat is fresh (an  *)
(* archivist keeps beating when its network is disabled).  Refusals (400,  *)
(* 409) change nothing.                                                    *)
SendQueue(r, c, k) ==
  /\ outbox[r].state = "none"
  /\ \A q \in Row : q < r => outbox[q].state # "none"
  /\ outbox' = [outbox EXCEPT ![r] =
                  [state |-> "pending", chan |-> c, nick |-> k, net |-> NoNet]]
  /\ routing' = routing \cup {r}
  /\ UNCHANGED <<senders, sender, enabled, preopen, main, history>>

(* Mutant of SendRoute: the channel is stored as the network.              *)
SendRouteByName(r) ==
  /\ r \in routing
  /\ outbox' = [outbox EXCEPT ![r].net = outbox[r].chan]
  /\ routing' = routing \ {r}
  /\ UNCHANGED <<senders, sender, enabled, preopen, main, history>>

(* ... and its UPDATE outbox SET network_id.                               *)
SendRoute(r) ==
  /\ r \in routing
  /\ outbox' = [outbox EXCEPT ![r].net = ChanNet[outbox[r].chan]]
  /\ routing' = routing \ {r}
  /\ UNCHANGED <<senders, sender, enabled, preopen, main, history>>

(* POST /api/prewarm: the composer was focused.                            *)
AskPreopen(c, k) ==
  /\ preopen' = [preopen EXCEPT ![<<ChanNet[c], k>>] = c]
  /\ UNCHANGED <<senders, sender, outbox, routing, enabled, main, history>>

(* POST /api/networks/update with enabled.                                 *)
Toggle(n) ==
  /\ enabled' = IF n \in enabled THEN enabled \ {n} ELSE enabled \cup {n}
  /\ UNCHANGED <<senders, sender, outbox, routing, preopen, main, history>>

(* The web process dies: handlers in flight never finish.                  *)
ServeCrash ==
  /\ routing # {}
  /\ routing' = {}
  /\ UNCHANGED <<senders, sender, outbox, enabled, preopen, main, history>>

-----------------------------------------------------------------------------
(* The main thread: pump().                                                *)

Pending(r) == outbox[r].state = "pending"

(* `while not self._stop.is_set()`, then db.networks(enabled_only=True).   *)
ReadNets ==
  /\ pc = "loop" /\ ~stopping
  /\ nets' = enabled
  /\ pc' = "rows"
  /\ UNCHANGED <<senders, sender, db, batch, seen, cur, using, stopping, history>>

(* Mutant of ReadRows: no ORDER BY, so LIMIT may drop any of them.         *)
ReadRowsUnordered ==
  /\ pc = "rows"
  /\ batch' \in {S \in SUBSET {r \in Row : Pending(r)} : Cardinality(S) <= Limit}
  /\ seen' = [r \in Row |-> IF r \in batch' THEN outbox[r].net ELSE NoNet]
  /\ pc' = "row"
  /\ UNCHANGED <<senders, sender, db, nets, cur, using, stopping, history>>

(* Mutant of ReadRows: failed rows are picked up again.                    *)
ReadRowsRetrying ==
  /\ pc = "rows"
  /\ batch' = {r \in Row : /\ outbox[r].state \in {"pending", "failed"}
                           /\ Cardinality({q \in Row : q < r /\ Pending(q)}) < Limit}
  /\ seen' = [r \in Row |-> IF r \in batch' THEN outbox[r].net ELSE NoNet]
  /\ pc' = "row"
  /\ UNCHANGED <<senders, sender, db, nets, cur, using, stopping, history>>

(* SELECT ... WHERE sent_at IS NULL ORDER BY id LIMIT Limit.               *)
ReadRows ==
  /\ pc = "rows"
  /\ batch' = {r \in Row : /\ Pending(r)
                           /\ Cardinality({q \in Row : q < r /\ Pending(q)}) < Limit}
  /\ seen' = [r \in Row |-> IF r \in batch' THEN outbox[r].net ELSE NoNet]
  /\ pc' = "row"
  /\ UNCHANGED <<senders, sender, db, nets, cur, using, stopping, history>>

(* Mutant of NextRow: newest first.                                        *)
NextRowNewest(r) == r \in batch /\ \A q \in batch : r >= q

NextRow(r) == r \in batch /\ \A q \in batch : r <= q

(* nets.get(row.network_id) or next(iter(nets.values()), None).            *)
PicksNet(r, n) ==
  /\ n \in nets
  /\ IF seen[r] \in nets THEN n = seen[r] ELSE \A m \in nets : n <= m

Done(r) == /\ batch' = batch \ {r}
           /\ seen' = [seen EXCEPT ![r] = NoNet]

(* `if not net: continue`.                                                 *)
SkipRow(r) ==
  /\ pc = "row" /\ NextRow(r) /\ nets = {}
  /\ Done(r)
  /\ UNCHANGED <<senders, sender, db, pc, nets, cur, using, stopping, history>>

(* sender_for(), then say() up to its lock.                                *)
BeginSay(r, n, o) ==
  LET k == <<n, outbox[r].nick>> IN
  /\ pc = "row" /\ NextRow(r) /\ PicksNet(r, n)
  /\ \/ /\ senders[k] = o
        /\ sender[o].holder = "none"
        /\ sender' = [sender EXCEPT ![o] = Locked(@, "main")]
     \/ /\ senders[k] = NoObj
        /\ sender[o] = Unused
        /\ sender' = [sender EXCEPT ![o] = Locked(New(k), "main")]
  /\ senders' = [senders EXCEPT ![k] = o]
  /\ pc' = "say" /\ cur' = r /\ using' = o
  /\ UNCHANGED <<db, nets, batch, seen, stopping, history>>

SayConnects ==
  /\ pc = "say"
  /\ Dial(using) \/ Register(using)
  /\ UNCHANGED <<db, main, history>>

(* The rest of say(): JOIN unless joined, then PRIVMSG.  The channel hears *)
(* it if the socket is open and the network has this client in it.         *)
SayWrites ==
  LET o == using
      c == outbox[cur].chan IN
  /\ pc = "say" /\ sender[o].step = "talk" /\ CanWrite(sender[o])
  /\ \E s \in AfterJoin(sender[o], c) :
       /\ sender' = [sender EXCEPT ![o] = Released(s)]
       /\ wire' = Append(wire, [row |-> cur, net |-> sender[o].key[1],
                                asked |-> c \in s.asked,
                                heard |-> s.sock = "open" /\ c \in s.inside])
  /\ pc' = "mark"
  /\ UNCHANGED <<senders, db, nets, batch, seen, cur, using, stopping, faults, cut>>

(* Mutant of SayRaises: the exception is swallowed.                        *)
SayRaisesSilently ==
  /\ pc = "say"
  /\ Connecting(sender[using]) \/ sender[using].sock # "open"
  /\ sender' = [sender EXCEPT ![using] = Released(@)]
  /\ pc' = "mark"
  /\ UNCHANGED <<senders, db, nets, batch, seen, cur, using, stopping, history>>

(* connect() or a write raised; a JOIN may have been written by then.      *)
SayRaises ==
  LET o == using
      s == sender[o]
      c == outbox[cur].chan IN
  /\ pc = "say"
  /\ Connecting(s) \/ s.sock # "open"
  /\ \E t \in {s} \cup (IF Connecting(s) THEN {}
                        ELSE IF CanWrite(s) THEN AfterJoin(s, c)
                        ELSE {Noted(s, c)}) :
       sender' = [sender EXCEPT ![o] = Released(t)]
  /\ pc' = "except"
  /\ UNCHANGED <<senders, db, nets, batch, seen, cur, using, stopping, history>>

RowDone == /\ Done(cur)
           /\ cur' = NoRow /\ using' = NoObj
           /\ pc' = "row"
           /\ UNCHANGED <<nets, stopping>>

(* Mutant of MarkSent: the UPDATE is not committed.                        *)
MarkSentUncommitted ==
  /\ pc = "mark"
  /\ pc' = "sent"
  /\ UNCHANGED <<senders, sender, db, nets, batch, seen, cur, using, stopping, history>>

(* UPDATE outbox SET sent_at; the try is not left yet.                     *)
MarkSent ==
  /\ pc = "mark"
  /\ outbox' = [outbox EXCEPT ![cur].state = "sent"]
  /\ pc' = "sent"
  /\ UNCHANGED <<senders, sender, routing, enabled, preopen, nets, batch, seen,
                 cur, using, stopping, history>>

LeaveTry ==
  /\ pc = "sent"
  /\ RowDone
  /\ UNCHANGED <<senders, sender, db, history>>

(* ... which may itself raise: database is locked.                         *)
MarkRaises ==
  /\ pc = "mark" /\ faults < MaxFaults
  /\ faults' = faults + 1
  /\ pc' = "except"
  /\ UNCHANGED <<senders, sender, db, nets, batch, seen, cur, using, stopping, wire, cut>>

(* Mutant of MarkFailed: sent_at is not set.                               *)
MarkFailedForRetry ==
  /\ pc = "except"
  /\ outbox' = [outbox EXCEPT ![cur].state = "pending"]
  /\ senders' = [senders EXCEPT ![sender[using].key] = NoObj]
  /\ sender' = [sender EXCEPT ![using] = IF @.warm = "none" THEN Unused ELSE @]
  /\ RowDone
  /\ UNCHANGED <<routing, enabled, preopen, history>>

(* except: UPDATE outbox SET sent_at, error, then forget the Sender, which *)
(* lives on only if a pre-open thread still waits for its lock.            *)
MarkFailed ==
  /\ pc = "except"
  /\ outbox' = [outbox EXCEPT ![cur].state = "failed"]
  /\ senders' = [senders EXCEPT ![sender[using].key] = NoObj]
  /\ sender' = [sender EXCEPT ![using] = IF @.warm = "none" THEN Unused ELSE @]
  /\ RowDone
  /\ UNCHANGED <<routing, enabled, preopen, history>>

GiveUpPass == /\ nets' = {} /\ batch' = {} /\ seen' = [r \in Row |-> NoNet]
              /\ cur' = NoRow /\ using' = NoObj
              /\ pc' = "loop"

(* The second UPDATE raised too: run() logs "pump error" and starts over.  *)
PumpRaises ==
  /\ pc = "except" /\ faults < MaxFaults
  /\ faults' = faults + 1
  /\ GiveUpPass
  /\ UNCHANGED <<senders, sender, db, stopping, wire, cut>>

PumpReturns ==
  /\ pc = "row" /\ batch = {}
  /\ nets' = {}
  /\ pc' = "prewarm"
  /\ UNCHANGED <<senders, sender, db, batch, seen, cur, using, stopping, history>>

-----------------------------------------------------------------------------
(* The main thread: prewarm(), reap(), the end of the loop.                *)

(* Every request row is deleted.  Those neither stale, nor for a disabled  *)
(* network, nor for a key that has a Sender already, get one, with a       *)
(* thread that will open it.                                               *)
Prewarm ==
  /\ pc = "prewarm"
  /\ \E ks \in SUBSET {k \in Key : /\ preopen[k] # NoChan
                                   /\ k[1] \in enabled
                                   /\ senders[k] = NoObj} :
     \E f \in [ks -> {o \in Objs : sender[o] = Unused}] :
       /\ \A k, l \in ks : k # l => f[k] # f[l]
       /\ senders' = [k \in Key |-> IF k \in ks THEN f[k] ELSE senders[k]]
       /\ sender' = [o \in Objs |->
            IF \E k \in ks : f[k] = o
            THEN LET k == CHOOSE l \in ks : f[l] = o
                 IN  [New(k) EXCEPT !.warm = "waiting", !.wish = preopen[k]]
            ELSE sender[o]]
  /\ preopen' = [k \in Key |-> NoChan]
  /\ pc' = "reap"
  /\ UNCHANGED <<outbox, routing, enabled, nets, batch, seen, cur, using,
                 stopping, history>>

(* Mutant of Reap: idle Senders are forgotten, their sockets kept.         *)
ReapWithoutClose ==
  /\ pc = "reap"
  /\ \E idle \in SUBSET {o \in Objs : InTable(o) /\ sender[o].ready} :
       senders' = [k \in Key |-> IF senders[k] \in idle THEN NoObj ELSE senders[k]]
  /\ pc' = "loop"
  /\ UNCHANGED <<sender, db, nets, batch, seen, cur, using, stopping, history>>

(* Mutant of Reap: closed Senders stay in the table and remember `joined`. *)
ReapKeepingJoined ==
  /\ pc = "reap"
  /\ \E idle \in SUBSET {o \in Objs : InTable(o) /\ sender[o].ready
                                       /\ sender[o].holder = "none"} :
       sender' = [o \in Objs |-> IF o \in idle
                    THEN [Closed(sender[o]) EXCEPT !.joined = sender[o].joined]
                    ELSE sender[o]]
  /\ pc' = "loop"
  /\ UNCHANGED <<senders, db, nets, batch, seen, cur, using, stopping, history>>

(* Idle Senders are closed and forgotten, without a look at their locks.   *)
(* One a pre-open thread still refers to lives on without a socket.        *)
Forgotten(s) == IF s.warm = "none" THEN Unused ELSE Closed(s)

Reap ==
  /\ pc = "reap"
  /\ \E idle \in SUBSET {o \in Objs : InTable(o) /\ sender[o].ready} :
       /\ senders' = [k \in Key |-> IF senders[k] \in idle THEN NoObj ELSE senders[k]]
       /\ sender' = [o \in Objs |-> IF o \in idle THEN Forgotten(sender[o]) ELSE sender[o]]
  /\ pc' = "loop"
  /\ UNCHANGED <<db, nets, batch, seen, cur, using, stopping, history>>

(* SIGTERM: Manager.stop() in a signal handler on the main thread, so at   *)
(* any point of it (bound: one signal to a process).  Senders in the table *)
(* are closed whoever is using them.                                       *)
Stop ==
  /\ ~stopping
  /\ stopping' = TRUE
  /\ sender' = [o \in Objs |-> IF InTable(o) THEN Closed(sender[o]) ELSE sender[o]]
  /\ UNCHANGED <<senders, db, pc, nets, batch, seen, cur, using, history>>

(* The same while an archivist's slot is None: until its thread has filled *)
(* it, or for good if that thread died first, so at any time here.  stop() *)
(* raises before it closes a Sender, out of the statement interrupted.     *)
RaisesInStop == ~stopping /\ stopping' = TRUE

(* Inside pump()'s try, the except-branch has the row next: one that was   *)
(* said, or even answered.  A JOIN may have been written, and noted.       *)
StopRaisesInRow ==
  LET s == sender[using]
      c == outbox[cur].chan IN
  /\ RaisesInStop
  /\ pc \in {"say", "mark", "sent"}
  /\ \E t \in {s} \cup (IF Connecting(s) \/ c \in s.joined THEN {}
                        ELSE AsksToJoin(s, c) \cup AfterJoin(s, c)) :
       sender' = IF pc = "say" THEN [sender EXCEPT ![using] = Released(t)] ELSE sender
  /\ pc' = "except"
  /\ cut' = cut \cup {cur}
  /\ UNCHANGED <<senders, db, nets, batch, seen, cur, using, wire, faults>>

(* ... a row that waits for a lock a pre-open thread holds.                *)
StopRaisesWaiting(r, n, o) ==
  /\ RaisesInStop
  /\ pc = "row" /\ NextRow(r) /\ PicksNet(r, n)
  /\ senders[<<n, outbox[r].nick>>] = o /\ o # NoObj
  /\ pc' = "except" /\ cur' = r /\ using' = o
  /\ cut' = cut \cup {r}
  /\ UNCHANGED <<senders, sender, db, nets, batch, seen, wire, faults>>

(* Elsewhere run() logs "pump error" and the loop ends.                    *)
StopRaisesOutside ==
  /\ RaisesInStop
  /\ pc \in {"loop", "rows", "row", "except", "prewarm", "reap"}
  /\ GiveUpPass
  /\ UNCHANGED <<senders, sender, db, history>>

StopRaises == \/ StopRaisesInRow \/ StopRaisesOutside
              \/ \E r \in Row, n \in Nets, o \in Objs : StopRaisesWaiting(r, n, o)

(* The process is gone and started again: only the database remains.       *)
Restarted == /\ pc' = "loop" /\ nets' = {} /\ batch' = {}
             /\ seen' = [r \in Row |-> NoNet]
             /\ cur' = NoRow /\ using' = NoObj /\ stopping' = FALSE
             /\ senders' = [k \in Key |-> NoObj]
             /\ sender' = [o \in Objs |-> Unused]
             /\ UNCHANGED <<db, wire, cut>>

(* run() returns once _stop is set, and the supervisor restarts it.        *)
Exit == pc = "loop" /\ stopping /\ Restarted /\ UNCHANGED faults

(* SIGKILL, a power cut, an out-of-memory kill.                            *)
Crash == faults < MaxFaults /\ faults' = faults + 1 /\ Restarted

-----------------------------------------------------------------------------
Pump == \/ ReadNets \/ ReadRows \/ PumpReturns
        \/ \E r \in Row : \/ SkipRow(r)
                          \/ \E n \in Nets, o \in Objs : BeginSay(r, n, o)
        \/ SayConnects \/ SayWrites \/ SayRaises
        \/ MarkSent \/ LeaveTry \/ MarkFailed

MainStep == Pump \/ Prewarm \/ Reap \/ Exit

WarmThread(o) == WarmStep(o) /\ UNCHANGED <<db, main, history>>

ServeStep == \/ \E r \in Row, c \in Chans, k \in Nicks : SendQueue(r, c, k)
             \/ \E r \in Row : SendRoute(r)
             \/ \E c \in Focused, k \in Nicks : AskPreopen(c, k)
             \/ \E n \in Toggled : Toggle(n)
             \/ ServeCrash

FaultStep == MarkRaises \/ PumpRaises \/ Crash

Next == \/ MainStep \/ Stop \/ StopRaises \/ FaultStep \/ ServeStep
        \/ \E o \in Objs : WarmThread(o)
        \/ NetworkStep /\ UNCHANGED <<db, main, history>>

Spec == Init /\ [][Next]_vars

(* The main thread and the pre-open threads keep running: every blocking   *)
(* call they make has a timeout.  Nothing else is owed a step.             *)
FairSpec == /\ Spec
            /\ WF_vars(MainStep)
            /\ \A o \in Objs : WF_vars(WarmThread(o))

-----------------------------------------------------------------------------
(* Properties.                                                             *)

CopiesIn(w, r) == Cardinality({i \in DOMAIN w : w[i].row = r})
Copies(r) == CopiesIn(wire, r)
LastRow == IF wire = <<>> THEN 0 ELSE wire[Len(wire)].row

(* What a person who pressed "send" is promised, without the machinery.    *)
Promise == INSTANCE OutboxPromise WITH
             state <- [r \in Row |-> outbox[r].state],
             copies <- [r \in Row |-> Copies(r)],
             newest <- LastRow

(* The outbox and the live process implement that promise.                 *)
KeepsPromise == Promise!PSpec

(* A line is written at most once more than there were crashes and failed  *)
(* UPDATEs; a graceful restart in the middle of a batch repeats nothing.   *)
DuplicatesNeedAFault == Promise!DuplicatesNeedAFault

(* What /api/send/status answers is true of the wire: "sent" only for a    *)
(* line that was written, "failed" only for one that was not, faults and   *)
(* rows a raising shutdown found in hand excepted.                         *)
AnswerMatchesWire == Promise!AnswerMatchesWire

(* Lines are written in the order they were queued, across batches, failed *)
(* Senders, reconnects and restarts.                                       *)
WireInQueueOrder == Promise!WireInQueueOrder

(* A row that has been answered is never written again, and its answer is  *)
(* taken back ("sent" to "failed") only by a shutdown that raised with the *)
(* row in hand, the last one written.                                      *)
AnswerIsFinal == Promise!AnswerIsFinal

(* say() never speaks in a channel the socket has not asked to join:       *)
(* `joined`, which ensure() fills too, is forgotten with the socket it     *)
(* describes, until a shutdown has begun.                                  *)
SpeaksOnlyAfterJoin ==
  [][wire' # wire /\ ~stopping => wire'[Len(wire')].asked]_wire

(* What `joined` is for: a line written through a socket that is alive is  *)
(* heard in its channel, and so recorded, unless the channel refuses or    *)
(* removes the client; "sent" is silent for no other reason.               *)
SpokenIsHeard ==
  [][wire' # wire /\ ~stopping /\ sender[using].sock = "open"
       /\ outbox[cur].chan \notin Refusing => wire'[Len(wire')].heard]_wire

(* Two sockets for one nick on one network exist only while a pre-open     *)
(* thread still works on an object that pump() has already forgotten.      *)
ExtraSocketIsWarm ==
  \A o \in Objs : sender[o].sock # "none" /\ ~InTable(o)
                    => sender[o].warm # "none"

(* Why the promise is kept: the inductive invariant behind KeepsPromise.   *)
Saying == pc \in {"say", "mark", "sent", "except"}

QueuedInOrder ==
  \A r, q \in Row : q < r /\ outbox[r].state # "none" => outbox[q].state # "none"

LinesAreAddressed ==
  /\ \A r \in routing : outbox[r].state # "none"
  /\ \A r \in Row : outbox[r].state # "none" => /\ outbox[r].chan \in Chans
                                                /\ outbox[r].nick \in Nicks

(* The row in hand is the first of the batch, said through a Sender that   *)
(* belongs to a key; between rows there is none.                           *)
RowInHand ==
  IF Saying
  THEN /\ cur \in batch /\ (\A q \in batch : cur <= q) /\ nets # {}
       /\ using \in Objs /\ sender[using].key \in Key
       /\ senders[sender[using].key] = using
  ELSE cur = NoRow

(* It is unanswered, or the last one written and just answered; in the     *)
(* except-branch the latter only if a shutdown raised.                     *)
Cut == pc = "except" /\ stopping /\ cur \in cut

HandIsOpen ==
  /\ pc \in {"say", "mark"} => Pending(cur)
  /\ pc = "sent" => outbox[cur].state = "sent"
  /\ pc = "except" => Pending(cur) \/ (Cut /\ outbox[cur].state = "sent")
  /\ pc = "mark" \/ (Saying /\ ~Pending(cur)) => LastRow = cur

(* The rest of the batch is unanswered, and if it can be said at all no    *)
(* older unanswered row is missing from it.                                *)
BatchIsOldest ==
  /\ \A r \in batch : r # cur => Pending(r)
  /\ pc \in {"loop", "rows", "prewarm", "reap"} => batch = {}
  /\ nets # {} => \A r \in batch, q \in Row : q < r /\ Pending(q) => q \in batch

(* How often an unanswered row can have been written.                      *)
CopiesBounded ==
  \A r \in Row :
    /\ outbox[r].state = "none" => Copies(r) = 0
    /\ Pending(r) => Copies(r) <= (IF r = cur /\ (pc = "mark" \/ Cut)
                                   THEN 1 + faults ELSE faults)
    /\ pc = "mark" /\ r = cur => Copies(r) > 0

IInv == /\ TypeOK /\ SendersInv /\ QueuedInOrder /\ LinesAreAddressed
        /\ RowInHand /\ HandIsOpen /\ BatchIsOldest /\ CopiesBounded

(* Every queued line is answered, once some network stays enabled and the  *)
(* process is no longer being restarted.                                   *)
LinesAreAnswered ==
  <>[](enabled # {} /\ ~stopping) => \A r \in Row : []<>~Pending(r)

(* No pre-open thread keeps a Sender's lock: pump() is never stuck on it.  *)
LocksAreReleased ==
  \A o \in Objs : []<>(sender[o].holder # "warm")

(* "Resolve against configured channels": a line goes out on the network   *)
(* its channel is configured on.                                           *)
OnItsOwnNetwork ==
  \A i \in DOMAIN wire : wire[i].net = ChanNet[outbox[wire[i].row].chan]
=============================================================================
