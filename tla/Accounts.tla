------------------------------ MODULE Accounts ------------------------------
(***************************************************************************)
(* Accounts, invites, reset links and sessions: auth.py, and the handlers  *)
(* of the web process that use it.                                         *)
(*                                                                         *)
(* Every request runs on a thread of its own with a connection in          *)
(* autocommit mode, so that the statements of two requests interleave; a   *)
(* request may end at any statement (the process is stopped, or the        *)
(* statement raises), and what it did stays.                               *)
(*                                                                         *)
(* Abstractions.  What a request reads before its first write is one step  *)
(* with its checks.  A person who signs in knows the password and the      *)
(* second factor; an admin without one may be refused, and any lifetime    *)
(* may be over.  Names are left out: a request is about an account that    *)
(* was there when it looked.  Foreign keys are off in the web process, and *)
(* ids are one above the largest.  Three variables are not in the program: *)
(* `era` counts, for each id, what should end the sessions there are (a    *)
(* new password, being disabled or deleted), `halfway` tells where that    *)
(* was cut off, and `raced` that a setup made a second first account.      *)
(***************************************************************************)
EXTENDS Naturals, FiniteSets

CONSTANTS MaxUser,      \* bound: user ids
          Sids,         \* session ids, bound: rows at a time
          Links,        \* reset links
          Invites,
          Handlers,     \* threads of the web process
          Seats,        \* max_uses of an invite
          MaxRequests,  \* bound: requests
          MaxFaults,    \* bound: requests that end half way
          NoSid, NoItem \* neither a session nor an invite or link

ASSUME AccountsAssumption ==
  /\ MaxUser \in Nat \ {0} /\ Seats \in Nat \ {0}
  /\ MaxRequests \in Nat /\ MaxFaults \in Nat
  /\ IsFiniteSet(Handlers) /\ IsFiniteSet(Links)
  /\ NoSid \notin Sids /\ NoItem \notin Invites \cup Links

VARIABLES
  users,      \* table users: id -> row, or no row
  founder,    \* settings.root_user_id, or 0
  sess,       \* table sessions
  invites,    \* table invites
  joins,      \* table invite_uses: who joined on which link
  links,      \* table password_resets
  req,        \* the request each thread works on
  era,        \* id -> what ended its sessions so far
  halfway,    \* ids one of whose endings was not finished
  raced,      \* a setup found accounts that were made since it looked
  requests, faults

tables == <<users, founder, sess, invites, joins, links>>
ghosts == <<era, halfway, raced>>
vars == <<tables, req, ghosts, requests, faults>>

Ids == 1..MaxUser
Roles == {"admin", "user"}

UserRow == [here: BOOLEAN, role: Roles, off: BOOLEAN, via: Invites \cup {NoItem}]
Session == [user: Ids \cup {0}, era: Nat, late: BOOLEAN]
Invite == [here: BOOLEAN, role: Roles, uses: Nat, revoked: BOOLEAN, first: Ids \cup {0}]
Link == [st: {"none", "live", "used"}, user: Ids \cup {0}]

NoUser == [here |-> FALSE, role |-> "user", off |-> FALSE, via |-> NoItem]
NewUser(role) == [here |-> TRUE, role |-> role, off |-> FALSE, via |-> NoItem]
NoSession == [user |-> 0, era |-> 0, late |-> FALSE]
NoInvite == [here |-> FALSE, role |-> "user", uses |-> 0, revoked |-> FALSE, first |-> 0]
NoLink == [st |-> "none", user |-> 0]

(* What /api/users/update may be asked for at once: a role, disabling or   *)
(* enabling, deleting.                                                     *)
Change == [role: Roles \cup {"same"}, off: {"yes", "no", "same"}, delete: BOOLEAN]
NoChange == [role |-> "same", off |-> "same", delete |-> FALSE]

(* Where a request is, and what it is about.                               *)
Places == {"idle", "found", "root", "grant", "password", "used", "drop", "keep",
           "role", "off", "dropOff", "dropGone", "remove", "clear", "link",
           "join", "seat", "joined", "method"}
Job == [pc: Places, user: Ids \cup {0}, sid: Sids \cup {NoSid},
        on: Invites \cup Links \cup {NoItem}, era: Nat, want: Change]
Idle == [pc |-> "idle", user |-> 0, sid |-> NoSid, on |-> NoItem, era |-> 0,
         want |-> NoChange]

TypeOK ==
  /\ users \in [Ids -> UserRow] /\ founder \in Ids \cup {0}
  /\ sess \in [Sids -> Session]
  /\ invites \in [Invites -> Invite] /\ joins \subseteq Invites \X Ids
  /\ links \in [Links -> Link]
  /\ req \in [Handlers -> Job]
  /\ era \in [Ids -> Nat] /\ halfway \subseteq Ids /\ raced \in BOOLEAN
  /\ requests \in Nat /\ faults \in Nat

Here == {u \in Ids : users[u].here}
First == CHOOSE u \in Here : \A v \in Here : u <= v
Root == IF founder # 0 THEN founder ELSE IF Here = {} THEN 0 ELSE First
IsNextId(u) == \A v \in Here : v < u /\ (u = 1 \/ u - 1 \in Here)

(* A new archive, or one with accounts made before root_user_id was kept.  *)
Init ==
  /\ \/ users = [u \in Ids |-> NoUser]
     \/ users = [u \in Ids |-> IF u = 1 THEN NewUser("admin")
                               ELSE IF u = 2 THEN NewUser("user") ELSE NoUser]
  /\ founder = 0
  /\ sess = [s \in Sids |-> NoSession]
  /\ invites = [i \in Invites |-> NoInvite] /\ joins = {}
  /\ links = [l \in Links |-> NoLink]
  /\ req = [h \in Handlers |-> Idle]
  /\ era = [u \in Ids |-> 0] /\ halfway = {} /\ raced = FALSE
  /\ requests = 0 /\ faults = 0

(* session() and _need_owner().                                            *)
Account(s) == sess[s].user
Signed(s) == Account(s) \in Here /\ ~users[Account(s)].off
Admin(s) == Signed(s) /\ users[Account(s)].role = "admin"

-----------------------------------------------------------------------------
(* A request: its checks, then a statement at a time.                      *)

Asked == requests < MaxRequests /\ requests' = requests + 1

Begin(h, r) == /\ req[h] = Idle /\ Asked
               /\ req' = [req EXCEPT ![h] = r]
               /\ UNCHANGED <<tables, ghosts, faults>>

At(h, pc) == req[h].pc = pc /\ UNCHANGED <<requests, faults>>
Goes(h, pc) == req' = [req EXCEPT ![h].pc = pc]
Ends(h) == req' = [req EXCEPT ![h] = Idle]

(* start_session(): the row is inserted whatever became of the account.    *)
(* It is late when what the request relied on has changed, or the account  *)
(* is about to be deleted.                                                 *)
BeingDeleted(u) == \E g \in Handlers : req[g].pc = "remove" /\ req[g].user = u

Grant(h) ==
  LET u == req[h].user IN
  /\ At(h, "grant")
  /\ \E s \in Sids :
       /\ sess[s] = NoSession
       /\ sess' = [sess EXCEPT ![s] = [user |-> u, era |-> req[h].era,
                                       late |-> req[h].era # era[u] \/ BeingDeleted(u)]]
  /\ Ends(h)
  /\ UNCHANGED <<users, founder, invites, joins, links, ghosts>>

(* /api/login and /api/passkey/finish, once what they were given is right. *)
AskLogin(h, u) ==
  /\ u \in Here /\ ~users[u].off
  /\ Begin(h, [Idle EXCEPT !.pc = "grant", !.user = u, !.era = era[u]])

(* create_user(): a new row under the next id.                             *)
Inserts(h, role, pc) ==
  /\ \E u \in Ids :
       /\ IsNextId(u)
       /\ users' = [users EXCEPT ![u] = NewUser(role)]
       /\ req' = [req EXCEPT ![h].pc = pc, ![h].user = u, ![h].era = era[u]]
  /\ UNCHANGED <<founder, sess, invites, joins, links, era, halfway>>

(* /api/setup: any_users() and what else is checked, create_user(), and    *)
(* root_user_id.  Nothing keeps a second setup from looking before the     *)
(* first one's account is there.                                           *)
AskSetup(h) == Here = {} /\ Begin(h, [Idle EXCEPT !.pc = "found"])
Found(h) == /\ At(h, "found") /\ Inserts(h, "admin", "root")
            /\ raced' = (raced \/ Here # {})
SetRoot(h) == /\ At(h, "root") /\ Goes(h, "grant")
              /\ founder' = req[h].user
              /\ UNCHANGED <<users, sess, invites, joins, links, ghosts>>

Setup(h) == AskSetup(h) \/ Found(h) \/ SetRoot(h)

-----------------------------------------------------------------------------
(* New passwords, and the sessions they end.                               *)

(* drop_user_sessions().                                                   *)
Without(u, keep) == [s \in Sids |-> IF s # keep /\ sess[s].user = u
                                    THEN NoSession ELSE sess[s]]

Drop(h, here, after) ==
  /\ At(h, here) /\ Goes(h, after)
  /\ sess' = Without(req[h].user, NoSid)
  /\ halfway' = halfway \ {req[h].user}
  /\ UNCHANGED <<users, founder, invites, joins, links, era, raced>>

(* The session that asked for the new password stays.                      *)
DropOthers(h) ==
  LET u == req[h].user s == req[h].sid IN
  /\ At(h, "keep") /\ Ends(h)
  /\ sess' = [t \in Sids |-> IF t = s /\ sess[t].user = u
                             THEN [sess[t] EXCEPT !.era = era[u]]
                             ELSE Without(u, s)[t]]
  /\ halfway' = halfway \ {u}
  /\ UNCHANGED <<users, founder, invites, joins, links, era, raced>>

AskPassword(h, s) ==
  /\ Signed(s)
  /\ Begin(h, [Idle EXCEPT !.pc = "password", !.user = Account(s), !.sid = s])

(* /api/reset/complete: reset_ok().                                        *)
AskComplete(h, l) ==
  LET u == links[l].user IN
  /\ links[l].st = "live" /\ u \in Here /\ ~users[u].off
  /\ Begin(h, [Idle EXCEPT !.pc = "password", !.user = u, !.on = l, !.era = era[u]])

SetPassword(h) ==
  LET u == req[h].user next == IF req[h].on = NoItem THEN "keep" ELSE "used" IN
  /\ At(h, "password")
  /\ IF u \in Here
     THEN /\ era' = [era EXCEPT ![u] = @ + 1]
          /\ req' = [req EXCEPT ![h].pc = next, ![h].era = era[u] + 1]
     ELSE Goes(h, next) /\ UNCHANGED era
  /\ UNCHANGED <<tables, halfway, raced>>

UseLink(h) ==
  /\ At(h, "used") /\ Goes(h, "drop")
  /\ links' = [links EXCEPT ![req[h].on].st = "used"]
  /\ UNCHANGED <<users, founder, sess, invites, joins, ghosts>>

Password(h) == \/ \E s \in Sids : AskPassword(h, s)
               \/ \E l \in Links : AskComplete(h, l)
               \/ SetPassword(h) \/ UseLink(h) \/ Drop(h, "drop", "grant")
               \/ DropOthers(h)

(* /api/users/reset: older unused links die, a new one is made.            *)
AskReset(h, s, u) ==
  /\ Admin(s) /\ u \in Here /\ (u = Root => Account(s) = Root)
  /\ Begin(h, [Idle EXCEPT !.pc = "clear", !.user = u])

(* Mutant: the links that were used are deleted.                           *)
ClearLinksUsed(h) ==
  /\ At(h, "clear") /\ Goes(h, "link")
  /\ links' = [l \in Links |-> IF links[l] = [st |-> "used", user |-> req[h].user]
                               THEN NoLink ELSE links[l]]
  /\ UNCHANGED <<users, founder, sess, invites, joins, ghosts>>

ClearLinks(h) ==
  /\ At(h, "clear") /\ Goes(h, "link")
  /\ links' = [l \in Links |-> IF links[l] = [st |-> "live", user |-> req[h].user]
                               THEN NoLink ELSE links[l]]
  /\ UNCHANGED <<users, founder, sess, invites, joins, ghosts>>

MakeLink(h) ==
  /\ At(h, "link") /\ Ends(h)
  /\ \E l \in Links : /\ links[l].st = "none"
                      /\ links' = [links EXCEPT ![l] = [st |-> "live", user |-> req[h].user]]
  /\ UNCHANGED <<users, founder, sess, invites, joins, ghosts>>

Reset(h) == \/ \E s \in Sids, u \in Ids : AskReset(h, s, u)
            \/ ClearLinks(h) \/ MakeLink(h)

-----------------------------------------------------------------------------
(* Invites.                                                                *)

InviteOk(i) == invites[i].here /\ ~invites[i].revoked /\ invites[i].uses < Seats

AskRedeem(h, i) ==
  /\ InviteOk(i)
  /\ Begin(h, [Idle EXCEPT !.pc = "join", !.on = i])

Join(h) == /\ At(h, "join") /\ Inserts(h, invites[req[h].on].role, "seat")
           /\ UNCHANGED raced

TakeSeat(h) ==
  LET i == req[h].on
      first == IF invites[i].first = 0 THEN req[h].user ELSE invites[i].first IN
  /\ At(h, "seat") /\ Goes(h, "joined")
  /\ invites' = [invites EXCEPT ![i].uses = @ + 1, ![i].first = first]
  /\ UNCHANGED <<users, founder, sess, joins, links, ghosts>>

(* Mutant: who joined is left to the repair at the next connect.           *)
JoinedByRepair(h) ==
  At(h, "joined") /\ Goes(h, "method") /\ UNCHANGED <<tables, ghosts>>

Joined(h) ==
  /\ At(h, "joined") /\ Goes(h, "method")
  /\ joins' = joins \cup {<<req[h].on, req[h].user>>}
  /\ UNCHANGED <<users, founder, sess, invites, links, ghosts>>

Method(h) ==
  /\ At(h, "method") /\ Goes(h, "grant")
  /\ users' = IF req[h].user \in Here
              THEN [users EXCEPT ![req[h].user].via = req[h].on] ELSE users
  /\ UNCHANGED <<founder, sess, invites, joins, links, ghosts>>

Redeem(h) == \/ \E i \in Invites : AskRedeem(h, i)
             \/ Join(h) \/ TakeSeat(h) \/ Joined(h) \/ Method(h)

(* Mutant: the roles still have the names of before 1.1.2.                 *)
MintOldWords(s, i, role) ==
  /\ Admin(s) /\ ~invites[i].here /\ Asked
  /\ invites' = [invites EXCEPT ![i] = [NoInvite EXCEPT !.here = TRUE,
                   !.role = IF role = "admin" THEN "owner" ELSE "member"]]
  /\ UNCHANGED <<users, founder, sess, joins, links, req, ghosts, faults>>

Mint(s, i, role) ==
  /\ Admin(s) /\ ~invites[i].here /\ Asked
  /\ invites' = [invites EXCEPT ![i] = [NoInvite EXCEPT !.here = TRUE, !.role = role]]
  /\ UNCHANGED <<users, founder, sess, joins, links, req, ghosts, faults>>

Revoke(s, i) ==
  /\ Admin(s) /\ invites[i].here /\ ~invites[i].revoked /\ Asked
  /\ invites' = [invites EXCEPT ![i].revoked = TRUE]
  /\ UNCHANGED <<users, founder, sess, joins, links, req, ghosts, faults>>

(* auth.init() of any connect: a link that was used gets its first joiner  *)
(* when it has none.                                                       *)
Repair ==
  LET bare == {i \in Invites : invites[i].first # 0 /\ \A u \in Ids : <<i, u>> \notin joins} IN
  /\ bare # {}
  /\ joins' = joins \cup {<<i, invites[i].first>> : i \in bare}
  /\ UNCHANGED <<users, founder, sess, invites, links, req, ghosts, requests, faults>>

-----------------------------------------------------------------------------
(* /api/users/create and /api/users/update.                                *)

Create(s, role) ==
  /\ Admin(s) /\ Asked
  /\ \E u \in Ids : IsNextId(u) /\ users' = [users EXCEPT ![u] = NewUser(role)]
  /\ UNCHANGED <<founder, sess, invites, joins, links, req, ghosts, faults>>

AfterOff(w) == IF w.delete THEN "dropGone" ELSE "idle"
AfterRole(w) == IF w.off # "same" THEN "off" ELSE AfterOff(w)
Starts(w) == IF w.role # "same" THEN "role" ELSE AfterRole(w)
Lessens(w) == w.delete \/ w.off = "yes" \/ w.role = "user"

(* Mutant: the founder's role and enabling are not looked after.           *)
AskUpdateUnrooted(h, s, u, w) ==
  /\ Admin(s) /\ u \in Here /\ w # NoChange
  /\ Lessens(w) => u # Account(s) /\ (w.delete => u # Root)
  /\ Begin(h, [Idle EXCEPT !.pc = Starts(w), !.user = u, !.want = w])

AskUpdate(h, s, u, w) ==
  /\ Admin(s) /\ u \in Here /\ w # NoChange
  /\ Lessens(w) => u # Root /\ u # Account(s)
  /\ Begin(h, [Idle EXCEPT !.pc = Starts(w), !.user = u, !.want = w])

Proceeds(h, pc) == IF pc = "idle" THEN Ends(h) ELSE Goes(h, pc)

SetRole(h) ==
  LET u == req[h].user w == req[h].want IN
  /\ At(h, "role") /\ Proceeds(h, AfterRole(w))
  /\ users' = IF u \in Here THEN [users EXCEPT ![u].role = w.role] ELSE users
  /\ UNCHANGED <<founder, sess, invites, joins, links, ghosts>>

(* Mutant: session() refuses the disabled account, its rows are left.      *)
SetOffOnly(h) ==
  LET u == req[h].user w == req[h].want IN
  /\ At(h, "off")
  /\ users' = IF u \in Here THEN [users EXCEPT ![u].off = (w.off = "yes")] ELSE users
  /\ era' = IF u \in Here /\ w.off = "yes" THEN [era EXCEPT ![u] = @ + 1] ELSE era
  /\ Proceeds(h, AfterOff(w))
  /\ UNCHANGED <<founder, sess, invites, joins, links, halfway, raced>>

SetOff(h) ==
  LET u == req[h].user w == req[h].want IN
  /\ At(h, "off")
  /\ users' = IF u \in Here THEN [users EXCEPT ![u].off = (w.off = "yes")] ELSE users
  /\ era' = IF u \in Here /\ w.off = "yes" THEN [era EXCEPT ![u] = @ + 1] ELSE era
  /\ Proceeds(h, IF w.off = "yes" THEN "dropOff" ELSE AfterOff(w))
  /\ UNCHANGED <<founder, sess, invites, joins, links, halfway, raced>>

DropOff(h) ==
  /\ At(h, "dropOff") /\ Proceeds(h, AfterOff(req[h].want))
  /\ sess' = Without(req[h].user, NoSid)
  /\ halfway' = halfway \ {req[h].user}
  /\ UNCHANGED <<users, founder, invites, joins, links, era, raced>>

(* Links, tokens and passkeys of the account stay: foreign keys are off.   *)
Remove(h) ==
  LET u == req[h].user IN
  /\ At(h, "remove") /\ Ends(h)
  /\ users' = [users EXCEPT ![u] = NoUser]
  /\ era' = [era EXCEPT ![u] = @ + 1]
  /\ UNCHANGED <<founder, sess, invites, joins, links, halfway, raced>>

Changes == {[NoChange EXCEPT !.role = r] : r \in Roles}
           \cup {[NoChange EXCEPT !.off = o] : o \in {"yes", "no"}}
           \cup {[NoChange EXCEPT !.delete = TRUE],
                 [NoChange EXCEPT !.delete = TRUE, !.off = "yes"]}

Update(h) == \/ \E s \in Sids, u \in Ids, w \in Changes : AskUpdate(h, s, u, w)
             \/ SetRole(h) \/ SetOff(h) \/ DropOff(h)
             \/ Drop(h, "dropGone", "remove") \/ Remove(h)

-----------------------------------------------------------------------------
(* /api/signout and /api/sessions/revoke, a lifetime that is over.         *)
SignOut(s) ==
  /\ sess[s] # NoSession
  /\ sess' = [sess EXCEPT ![s] = NoSession]
  /\ UNCHANGED <<users, founder, invites, joins, links, req, ghosts, requests, faults>>

RevokeOthers(s) ==
  /\ Signed(s)
  /\ sess' = Without(Account(s), s)
  /\ UNCHANGED <<users, founder, invites, joins, links, req, ghosts, requests, faults>>

(* A request ends at any statement.                                        *)
EndsSessions(r) == r.pc \in {"used", "drop", "keep", "dropOff"}

Dies(h) ==
  /\ req[h] # Idle /\ faults < MaxFaults
  /\ Ends(h)
  /\ halfway' = IF EndsSessions(req[h]) THEN halfway \cup {req[h].user} ELSE halfway
  /\ faults' = faults + 1
  /\ UNCHANGED <<tables, era, raced, requests>>

Request(h) == \/ \E u \in Ids : AskLogin(h, u)
              \/ Grant(h) \/ Setup(h) \/ Password(h) \/ Reset(h) \/ Redeem(h)
              \/ Update(h)

Next ==
  \/ \E h \in Handlers : Request(h) \/ Dies(h)
  \/ \E s \in Sids, i \in Invites : Revoke(s, i) \/ \E r \in Roles : Mint(s, i, r)
  \/ \E s \in Sids : SignOut(s) \/ RevokeOthers(s) \/ \E r \in Roles : Create(s, r)
  \/ Repair

Spec == Init /\ [][Next]_vars

-----------------------------------------------------------------------------
(* Properties.                                                             *)

(* "It can never be demoted, disabled or removed": the account root_id()   *)
(* names, recorded or the lowest id, is there, an admin and enabled, with  *)
(* checks and updates of several admins under way at once, unless two      *)
(* setups overlapped and each made an account to be the first.             *)
FounderStands ==
  Root # 0 /\ ~raced =>
    Root \in Here /\ users[Root].role = "admin" /\ ~users[Root].off

(* "Whoever held the old password holds nothing now": once a new password, *)
(* a reset or the end of an account is done, no session granted before it  *)
(* is left, except the one that asked, and one whose sign-in was under way *)
(* and came after.                                                         *)
Ending(u) == u \in halfway \/ \E g \in Handlers : EndsSessions(req[g]) /\ req[g].user = u

EndedStaysEnded ==
  \A s \in Sids : sess[s] # NoSession =>
    sess[s].era = era[sess[s].user] \/ sess[s].late \/ Ending(sess[s].user)

(* An account that joined on a link is recorded as its joiner, a link has  *)
(* a seat for each, and more seats are taken than it has only by requests  *)
(* that saw it open together.                                              *)
Joiners(i) == {u \in Ids : <<i, u>> \in joins}

InvitesAreAccountedFor ==
  /\ \A u \in Ids : users[u].via # NoItem => u \in Joiners(users[u].via)
  /\ \A i \in Invites : /\ Cardinality(Joiners(i)) <= invites[i].uses
                        /\ invites[i].uses < Seats + Cardinality(Handlers)

(* "There is only ever one live way in": at most one reset link of an      *)
(* account works for each request that makes links at the same time.       *)
LiveLinks(u) == {l \in Links : links[l] = [st |-> "live", user |-> u]}
LinksAreBounded == \A u \in Ids : Cardinality(LiveLinks(u)) <= Cardinality(Handlers)
=============================================================================
