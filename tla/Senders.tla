------------------------------ MODULE Senders ------------------------------
(***************************************************************************)
(* The send-only IRC clients of the live process (connections.Sender) and  *)
(* the Manager's table of them.  A Sender is an object with a lock: the    *)
(* Manager's main thread takes it in say(), the pre-open thread in         *)
(* ensure().  The table forgets an object (pop) while a pre-open thread    *)
(* may still hold a reference, so objects and table entries are separate.  *)
(*                                                                         *)
(* Abstractions.  A Sender is known by its key; the underscores that       *)
(* 433/436 append to its nick are left out.  A socket is none, open, or    *)
(* dead (closed by the peer or the path, which this side has not noticed). *)
(* Two fields are the network's own view of the connection: the channels   *)
(* a JOIN was written for, and those it let the client into.  PING/PONG    *)
(* and the bytes that drain() throws away change nothing here.             *)
(***************************************************************************)
EXTENDS Naturals, FiniteSets

CONSTANTS Nets,         \* network ids, ordered as ORDER BY id orders them
          Nicks, Chans,
          Refusing,     \* channels that refuse or remove clients (bound)
          Objs,         \* identities of Sender objects that exist at once
          NoObj, NoKey, NoChan

ASSUME SendersAssumption == /\ Nets \subseteq Nat \ {0}
                            /\ Refusing \subseteq Chans
                            /\ NoObj \notin Objs
                            /\ NoKey \notin Nets \X Nicks
                            /\ NoChan \notin Chans

VARIABLES senders,      \* Manager.senders: (network, nick) -> object
          sender        \* the Sender objects themselves

Key == Nets \X Nicks

Unused == [key |-> NoKey, ready |-> FALSE, sock |-> "none",
           joined |-> {}, asked |-> {}, inside |-> {},
           holder |-> "none", step |-> "idle", warm |-> "none", wish |-> NoChan]

New(k) == [Unused EXCEPT !.key = k]

SenderRec == [key: Key \cup {NoKey}, ready: BOOLEAN,
              sock: {"none", "open", "dead"},
              joined: SUBSET Chans, asked: SUBSET Chans, inside: SUBSET Chans,
              holder: {"none", "main", "warm"},
              step: {"idle", "dial", "register", "talk", "note"},
              warm: {"none", "waiting", "inside"}, wish: Chans \cup {NoChan}]

SendersTypeOK == /\ senders \in [Key -> Objs \cup {NoObj}]
                 /\ sender \in [Objs -> SenderRec]

SendersInit == /\ senders = [k \in Key |-> NoObj]
               /\ sender = [o \in Objs |-> Unused]

(* A table entry leads to a Sender made for that network and nick.         *)
TableMatches == \A k \in Key : senders[k] # NoObj => sender[senders[k]].key = k

(* A pre-open thread knows its channel, and only it holds a lock as "warm".*)
WarmHasWish == \A o \in Objs : /\ sender[o].warm # "none" => sender[o].wish \in Chans
                               /\ sender[o].holder = "warm" => sender[o].warm = "inside"

SendersInv == TableMatches /\ WarmHasWish

InTable(o) == \E k \in Key : senders[k] = o

-----------------------------------------------------------------------------
(* Pieces of say() and ensure(), as functions on one object's record.      *)

(* `with self.lock`, then `if not self.ready: self.connect()`.             *)
Locked(s, who) == [s EXCEPT !.holder = who,
                            !.step = IF s.ready THEN "talk" ELSE "dial"]

Released(s) == [s EXCEPT !.holder = "none", !.step = "idle"]

(* `if channel not in self.joined`: JOIN is written.  The network may not  *)
(* hear it (dead socket) or may refuse it (ban, invite-only).              *)
AsksToJoin(s, c) ==
  {[s EXCEPT !.asked = @ \cup {c}, !.inside = i] :
     i \in (IF s.sock = "open" THEN {s.inside \cup {c}} ELSE {s.inside})
           \cup (IF c \in Refusing THEN {s.inside} ELSE {})}

(* ... and self.joined.add(channel).                                       *)
Noted(s, c) == [s EXCEPT !.joined = @ \cup {c}]

AfterJoin(s, c) ==
  IF c \in s.joined THEN {s} ELSE {Noted(t, c) : t \in AsksToJoin(s, c)}

(* A write to a dead socket may still be accepted by this side's kernel;   *)
(* a write to no socket (closed by a shutdown meanwhile) always raises.    *)
CanWrite(s) == s.sock # "none"
Connecting(s) == s.step \in {"dial", "register"}

(* Sender.close(): QUIT, socket gone, not ready, nothing joined.           *)
Closed(s) == [s EXCEPT !.sock = "none", !.ready = FALSE, !.joined = {},
                       !.asked = {}, !.inside = {}]

-----------------------------------------------------------------------------
(* connect(), by whichever thread holds the lock of o.                     *)

(* create_connection, TLS, NICK and USER.  A socket left by an earlier     *)
(* attempt that failed is replaced, and closed with its last reference.    *)
Dial(o) ==
  /\ sender[o].step = "dial"
  /\ sender' = [sender EXCEPT ![o].sock = "open", ![o].step = "register",
                              ![o].asked = {}, ![o].inside = {}]
  /\ UNCHANGED senders

(* 001, after any number of 433/436 that append "_" and try again.  It may *)
(* already have been read when the socket goes.                            *)
Register(o) ==
  /\ sender[o].step = "register"
  /\ sender' = [sender EXCEPT ![o].ready = TRUE, ![o].step = "talk"]
  /\ UNCHANGED senders

-----------------------------------------------------------------------------
(* The pre-open thread, Manager._warm: ensure(channel) on one object.      *)

WarmLock(o) ==
  /\ sender[o].warm = "waiting"
  /\ sender[o].holder = "none"
  /\ sender' = [sender EXCEPT ![o] = [Locked(@, "warm") EXCEPT !.warm = "inside"]]
  /\ UNCHANGED senders

(* The thread returns; an object nobody refers to any more is freed, and   *)
(* its socket with it.                                                     *)
WarmEnds(o, s) ==
  /\ sender' = [sender EXCEPT ![o] =
       IF InTable(o) THEN [Released(s) EXCEPT !.warm = "none", !.wish = NoChan]
                     ELSE Unused]
  /\ UNCHANGED senders

WarmJoins(o) ==
  LET s == sender[o] IN
  /\ s.holder = "warm"
  /\ s.step = "talk"
  /\ IF s.wish \in s.joined
     THEN WarmEnds(o, s)
     ELSE /\ CanWrite(s)
          /\ \E t \in AsksToJoin(s, s.wish) :
               sender' = [sender EXCEPT ![o] = [t EXCEPT !.step = "note"]]
          /\ UNCHANGED senders

(* A shutdown may have closed the Sender, and cleared `joined`, meanwhile. *)
WarmNotes(o) ==
  /\ sender[o].holder = "warm"
  /\ sender[o].step = "note"
  /\ WarmEnds(o, Noted(sender[o], sender[o].wish))

(* Mutants of WarmFails: the channel is noted before it is asked for, and  *)
(* the lock is not released on an exception.                               *)
WarmFailsNoted(o) ==
  /\ sender[o].holder = "warm"
  /\ sender[o].step = "talk" /\ sender[o].sock # "open"
  /\ WarmEnds(o, Noted(sender[o], sender[o].wish))
WarmFailsLocked(o) ==
  /\ sender[o].holder = "warm"
  /\ Connecting(sender[o])
  /\ sender' = [sender EXCEPT ![o].step = "idle", ![o].warm = "none"]
  /\ UNCHANGED senders

(* connect() or the JOIN raised: logged, "the send path will simply open   *)
(* it the slow way".                                                       *)
WarmFails(o) ==
  /\ sender[o].holder = "warm"
  /\ \/ Connecting(sender[o])
     \/ /\ sender[o].step = "talk" /\ sender[o].sock # "open"
        /\ sender[o].wish \notin sender[o].joined
  /\ WarmEnds(o, sender[o])

WarmStep(o) == \/ WarmLock(o) \/ WarmJoins(o) \/ WarmNotes(o) \/ WarmFails(o)
               \/ sender[o].holder = "warm" /\ (Dial(o) \/ Register(o))

-----------------------------------------------------------------------------
(* The network, which owes a client nothing.                               *)

(* The connection is lost: KILL, netsplit, a dead path, a restarted ircd.  *)
Drop(o) ==
  /\ sender[o].sock = "open"
  /\ sender' = [sender EXCEPT ![o].sock = "dead", ![o].inside = {}]
  /\ UNCHANGED senders

(* A channel operator removes the client.  drain() throws the KICK away,   *)
(* so `joined` keeps the channel.                                          *)
Kick(o, c) ==
  /\ sender[o].sock = "open"
  /\ c \in sender[o].inside \cap Refusing
  /\ sender' = [sender EXCEPT ![o].inside = @ \ {c}]
  /\ UNCHANGED senders

NetworkStep == \E o \in Objs : Drop(o) \/ \E c \in Chans : Kick(o, c)
=============================================================================
