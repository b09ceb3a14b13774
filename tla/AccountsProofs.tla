--------------------------- MODULE AccountsProofs ---------------------------
(***************************************************************************)
(* Proofs about Accounts: its type, and every invariant its run checks,    *)
(* for any numbers of users, sessions, links, invites, threads, seats,     *)
(* requests and faults.                                                    *)
(***************************************************************************)
EXTENDS Accounts, FiniteSetTheorems, TLAPS

USE AccountsAssumption

-----------------------------------------------------------------------------
(* Types.                                                                  *)

(* A request that is under way has the account, the link or the invite it  *)
(* is about.                                                               *)
Made(r) ==
  /\ r.pc \notin {"idle", "found", "join"} => r.user \in Ids
  /\ r.pc = "used" \/ (r.pc = "password" /\ r.on # NoItem) => r.on \in Links
  /\ r.pc \in {"join", "seat", "joined", "method"} => r.on \in Invites
  /\ r.pc = "role" => r.want.role \in Roles

Jobs == req \in [Handlers -> Job] /\ \A h \in Handlers : Made(req[h])

Tables ==
  /\ users \in [Ids -> UserRow] /\ founder \in Ids \cup {0}
  /\ sess \in [Sids -> Session]
  /\ invites \in [Invites -> Invite] /\ joins \subseteq Invites \X Ids
  /\ links \in [Links -> Link]
  /\ era \in [Ids -> Nat] /\ halfway \subseteq Ids /\ raced \in BOOLEAN
  /\ requests \in Nat /\ faults \in Nat

Typed == Jobs /\ Tables

(* The steps of the program, one by one.                                   *)
LEMMA Steps ==
  ASSUME Next
  PROVE  \/ \E h \in Handlers :
              \/ \E u \in Ids : AskLogin(h, u)
              \/ AskSetup(h)
              \/ \E s \in Sids : AskPassword(h, s)
              \/ \E l \in Links : AskComplete(h, l)
              \/ \E s \in Sids, u \in Ids : AskReset(h, s, u)
              \/ \E i \in Invites : AskRedeem(h, i)
              \/ \E s \in Sids, u \in Ids, w \in Changes : AskUpdate(h, s, u, w)
              \/ Grant(h) \/ Found(h) \/ SetRoot(h)
              \/ SetPassword(h) \/ UseLink(h) \/ Drop(h, "drop", "grant") \/ DropOthers(h)
              \/ ClearLinks(h) \/ MakeLink(h)
              \/ Join(h) \/ TakeSeat(h) \/ Joined(h) \/ Method(h)
              \/ SetRole(h) \/ SetOff(h) \/ DropOff(h)
              \/ Drop(h, "dropGone", "remove") \/ Remove(h) \/ Dies(h)
         \/ \E s \in Sids, i \in Invites : Revoke(s, i) \/ \E r \in Roles : Mint(s, i, r)
         \/ \E s \in Sids : SignOut(s) \/ RevokeOthers(s) \/ \E r \in Roles : Create(s, r)
         \/ Repair
BY DEF Next, Request, Setup, Password, Reset, Redeem, Update

LEMMA IdleTyped == Idle \in Job /\ NoChange \in Change /\ Changes \subseteq Change
<1>1. NoChange \in Change
  BY DEF NoChange, Change, Roles
<1>2. Idle \in Job
  BY <1>1 DEF Idle, Job, Places
<1>3. Changes \subseteq Change
  BY DEF Changes, NoChange, Change, Roles
<1> QED
  BY <1>1, <1>2, <1>3

(* A request is replaced by another, or moves on.                          *)
LEMMA Replaced ==
  ASSUME Jobs, NEW h \in Handlers, NEW r \in Job, Made(r), req' = [req EXCEPT ![h] = r]
  PROVE  Jobs'
BY DEF Jobs, Made

LEMMA Ended == ASSUME Jobs, NEW h \in Handlers, Ends(h) PROVE Jobs'
<1>1. Made(Idle)
  BY DEF Made, Idle
<1> QED
  BY <1>1, Replaced, IdleTyped DEF Ends

LEMMA Moved ==
  ASSUME NEW h \in Handlers, Jobs, NEW p \in Places
  PROVE  LET n == [req[h] EXCEPT !.pc = p] IN
         /\ n \in Job /\ n.pc = p /\ n.user = req[h].user /\ n.on = req[h].on
         /\ n.want = req[h].want
         /\ [req EXCEPT ![h].pc = p] = [req EXCEPT ![h] = n]
<1>1. req[h] \in Job
  BY DEF Jobs
<1> QED
  BY <1>1 DEF Job, Jobs

LEMMA Went ==
  ASSUME Jobs, NEW h \in Handlers, NEW p \in Places, Goes(h, p),
         p \notin {"idle", "found", "join"} => req[h].user \in Ids,
         p \notin {"used", "password", "role"},
         p \in {"join", "seat", "joined", "method"} => req[h].on \in Invites
  PROVE  Jobs'
<1> DEFINE n == [req[h] EXCEPT !.pc = p]
<1>1. n \in Job /\ req' = [req EXCEPT ![h] = n]
  BY Moved DEF Goes
<1>2. Made(n)
  BY Moved DEF Made
<1> QED
  BY <1>1, <1>2, Replaced

(* The requests that begin.                                                *)
LEMMA Began ==
  ASSUME Jobs, NEW h \in Handlers, NEW r \in Job, Made(r), Begin(h, r)
  PROVE  Jobs'
BY Replaced DEF Begin

LEMMA JobsBegin ==
  ASSUME Typed, NEW h \in Handlers,
         \/ \E u \in Ids : AskLogin(h, u)
         \/ AskSetup(h)
         \/ \E s \in Sids : AskPassword(h, s)
         \/ \E l \in Links : AskComplete(h, l)
         \/ \E s \in Sids, u \in Ids : AskReset(h, s, u)
         \/ \E i \in Invites : AskRedeem(h, i)
         \/ \E s \in Sids, u \in Ids, w \in Changes : AskUpdate(h, s, u, w)
  PROVE  Jobs'
<1> USE DEF Typed
<1>1. ASSUME NEW u \in Ids, AskLogin(h, u) PROVE Jobs'
  <2> DEFINE r == [Idle EXCEPT !.pc = "grant", !.user = u, !.era = era[u]]
  <2>1. r \in Job /\ Made(r)
    BY IdleTyped DEF Job, Places, Made, Idle, Tables
  <2> QED
    BY <1>1, <2>1, Began DEF AskLogin
<1>2. ASSUME AskSetup(h) PROVE Jobs'
  <2> DEFINE r == [Idle EXCEPT !.pc = "found"]
  <2>1. r \in Job /\ Made(r)
    BY IdleTyped DEF Job, Places, Made, Idle
  <2> QED
    BY <1>2, <2>1, Began DEF AskSetup
<1>3. ASSUME NEW s \in Sids, AskPassword(h, s) PROVE Jobs'
  <2> DEFINE r == [Idle EXCEPT !.pc = "password", !.user = Account(s), !.sid = s]
  <2>1. Account(s) \in Ids
    BY <1>3 DEF AskPassword, Signed, Here
  <2>2. r \in Job /\ Made(r)
    BY <2>1, IdleTyped DEF Job, Places, Made, Idle
  <2> QED
    BY <1>3, <2>2, Began DEF AskPassword
<1>4. ASSUME NEW l \in Links, AskComplete(h, l) PROVE Jobs'
  <2> DEFINE u == links[l].user
             r == [Idle EXCEPT !.pc = "password", !.user = u, !.on = l, !.era = era[u]]
  <2>1. u \in Ids /\ era[u] \in Nat
    BY <1>4 DEF AskComplete, Here, Tables
  <2>2. r \in Job /\ Made(r)
    BY <2>1, IdleTyped DEF Job, Places, Made, Idle
  <2> QED
    BY <1>4, <2>2, Began DEF AskComplete
<1>5. ASSUME NEW s \in Sids, NEW u \in Ids, AskReset(h, s, u) PROVE Jobs'
  <2> DEFINE r == [Idle EXCEPT !.pc = "clear", !.user = u]
  <2>1. r \in Job /\ Made(r)
    BY IdleTyped DEF Job, Places, Made, Idle
  <2> QED
    BY <1>5, <2>1, Began DEF AskReset
<1>6. ASSUME NEW i \in Invites, AskRedeem(h, i) PROVE Jobs'
  <2> DEFINE r == [Idle EXCEPT !.pc = "join", !.on = i]
  <2>1. r \in Job /\ Made(r)
    BY IdleTyped DEF Job, Places, Made, Idle
  <2> QED
    BY <1>6, <2>1, Began DEF AskRedeem
<1>7. ASSUME NEW s \in Sids, NEW u \in Ids, NEW w \in Changes, AskUpdate(h, s, u, w)
      PROVE  Jobs'
  <2> DEFINE r == [Idle EXCEPT !.pc = Starts(w), !.user = u, !.want = w]
  <2>1. w \in Change
    BY IdleTyped
  <2>2. Starts(w) \in {"role", "off", "dropGone", "idle"}
        /\ (Starts(w) = "role" => w.role \in Roles)
    BY <2>1 DEF Starts, AfterRole, AfterOff, Change
  <2>3. r \in Job /\ Made(r)
    BY <2>1, <2>2, IdleTyped DEF Job, Places, Made, Idle
  <2> QED
    BY <1>7, <2>3, Began DEF AskUpdate
<1> QED
  BY <1>1, <1>2, <1>3, <1>4, <1>5, <1>6, <1>7

LEMMA JobsMove ==
  ASSUME Typed, NEW h \in Handlers,
         \/ Grant(h) \/ Found(h) \/ SetRoot(h)
         \/ SetPassword(h) \/ UseLink(h) \/ Drop(h, "drop", "grant") \/ DropOthers(h)
         \/ ClearLinks(h) \/ MakeLink(h)
         \/ Join(h) \/ TakeSeat(h) \/ Joined(h) \/ Method(h)
         \/ SetRole(h) \/ SetOff(h) \/ DropOff(h)
         \/ Drop(h, "dropGone", "remove") \/ Remove(h) \/ Dies(h)
  PROVE  Jobs'
<1> USE DEF Typed
<1>1. Made(req[h]) /\ req[h] \in Job
  BY DEF Jobs
<1>2. CASE Grant(h) \/ DropOthers(h) \/ MakeLink(h) \/ Remove(h) \/ Dies(h)
  BY <1>2, Ended DEF Grant, DropOthers, MakeLink, Remove, Dies
<1>3. ASSUME NEW pc \in {"seat", "root"}, Inserts(h, invites[req[h].on].role, pc)
             \/ Inserts(h, "admin", pc), pc = "seat" => req[h].on \in Invites
      PROVE  Jobs'
  <2>1. PICK u \in Ids : req' = [req EXCEPT ![h].pc = pc, ![h].user = u, ![h].era = era[u]]
    BY <1>3 DEF Inserts
  <2> DEFINE n == [req[h] EXCEPT !.pc = pc, !.user = u, !.era = era[u]]
  <2>2. req' = [req EXCEPT ![h] = n]
    BY <2>1 DEF Jobs
  <2>3. era[u] \in Nat
    BY DEF Tables
  <2>4. n \in Job /\ n.pc = pc /\ n.user = u /\ n.on = req[h].on
    BY <1>1, <2>3 DEF Job, Places
  <2>5. Made(n)
    BY <1>3, <2>4 DEF Made
  <2> QED
    BY <2>2, <2>4, <2>5, Replaced
<1>4. CASE Found(h) \/ Join(h)
  BY <1>1, <1>3, <1>4 DEF Found, Join, At, Made
<1>5. CASE SetPassword(h)
  <2> DEFINE p == IF req[h].on = NoItem THEN "keep" ELSE "used"
             n == [req[h] EXCEPT !.pc = p]
             e == [req[h] EXCEPT !.pc = p, !.era = era[req[h].user] + 1]
  <2>1. req[h].user \in Ids /\ era[req[h].user] + 1 \in Nat /\ (p = "used" => req[h].on \in Links)
    BY <1>1, <1>5 DEF SetPassword, At, Made, Tables
  <2>2. \/ req' = [req EXCEPT ![h] = n] \/ req' = [req EXCEPT ![h] = e]
    BY <1>5 DEF SetPassword, Goes, Jobs
  <2>3. /\ n \in Job /\ n.pc = p /\ n.user = req[h].user /\ n.on = req[h].on
        /\ e \in Job /\ e.pc = p /\ e.user = req[h].user /\ e.on = req[h].on
    BY <1>1, <2>1 DEF Job, Places
  <2>4. Made(n) /\ Made(e)
    BY <2>1, <2>3 DEF Made
  <2> QED
    BY <2>2, <2>3, <2>4, Replaced
<1>6. CASE SetRoot(h) \/ UseLink(h) \/ Drop(h, "drop", "grant") \/ ClearLinks(h)
           \/ Drop(h, "dropGone", "remove")
  <2>1. PICK p \in {"grant", "drop", "link", "remove"} : Goes(h, p)
    BY <1>6 DEF SetRoot, UseLink, Drop, ClearLinks
  <2>2. req[h].user \in Ids
    BY <1>1, <1>6 DEF SetRoot, UseLink, Drop, ClearLinks, At, Made
  <2> QED
    BY <2>1, <2>2, Went DEF Places
<1>7. CASE TakeSeat(h) \/ Joined(h) \/ Method(h)
  <2>1. PICK p \in {"joined", "method", "grant"} : Goes(h, p)
    BY <1>7 DEF TakeSeat, Joined, Method
  <2>2. req[h].user \in Ids /\ req[h].on \in Invites
    BY <1>1, <1>7 DEF TakeSeat, Joined, Method, At, Made
  <2> QED
    BY <2>1, <2>2, Went DEF Places
<1>8. CASE SetRole(h) \/ SetOff(h) \/ DropOff(h)
  <2>1. \/ Ends(h) \/ \E p \in {"off", "dropOff", "dropGone"} : Goes(h, p)
    BY <1>8 DEF SetRole, SetOff, DropOff, Proceeds, AfterRole, AfterOff
  <2>2. req[h].user \in Ids
    BY <1>1, <1>8 DEF SetRole, SetOff, DropOff, At, Made
  <2> QED
    BY <2>1, <2>2, Ended, Went DEF Places
<1> QED
  BY <1>2, <1>4, <1>5, <1>6, <1>7, <1>8

LEMMA JobsStep == Typed /\ [Next]_vars => Jobs'
<1> SUFFICES ASSUME Typed, [Next]_vars PROVE Jobs'
  OBVIOUS
<1>1. CASE UNCHANGED req
  BY <1>1 DEF Jobs, Typed
<1>2. CASE Next
  BY <1>1, <1>2, Steps, JobsBegin, JobsMove DEF Revoke, Mint, SignOut, RevokeOthers, Create, Repair
<1> QED
  BY <1>1, <1>2 DEF vars

LEMMA TablesStep == Typed /\ [Next]_vars => Tables'
<1> SUFFICES ASSUME Typed, [Next]_vars PROVE Tables'
  OBVIOUS
<1> USE DEF Typed
<1>1. ASSUME UNCHANGED tables, UNCHANGED ghosts, requests' \in Nat, faults' \in Nat
      PROVE  Tables'
  BY <1>1 DEF Tables, tables, ghosts
<1>2. ASSUME NEW h \in Handlers, NEW r, Begin(h, r) PROVE Tables'
  BY <1>1, <1>2 DEF Begin, Asked, Tables
<1>3. CASE UNCHANGED vars
  BY <1>1, <1>3 DEF vars, Tables
<1>4. ASSUME NEW h \in Handlers, Grant(h) PROVE Tables'
  <2>1. req[h].user \in Ids /\ req[h].era \in Nat
    BY <1>4 DEF Jobs, Made, Grant, At, Job
  <2>2. PICK s \in Sids, b \in BOOLEAN :
          sess' = [sess EXCEPT ![s] = [user |-> req[h].user, era |-> req[h].era, late |-> b]]
    BY <1>4 DEF Grant, BeingDeleted
  <2>3. sess' \in [Sids -> Session]
    BY <2>1, <2>2 DEF Tables, Session
  <2> QED
    BY <1>4, <2>3 DEF Grant, At, Tables, ghosts
<1>5. ASSUME NEW h \in Handlers, NEW role \in Roles, NEW pc, Inserts(h, role, pc), At(h, req[h].pc),
             raced' \in BOOLEAN
      PROVE  Tables'
  <2>1. users' \in [Ids -> UserRow]
    BY <1>5 DEF Inserts, NewUser, UserRow, Tables
  <2> QED
    BY <1>5, <2>1 DEF Inserts, At, Tables, ghosts
<1>6. ASSUME NEW h \in Handlers, Found(h) PROVE Tables'
  <2>1. raced' \in BOOLEAN
    BY <1>6 DEF Found
  <2> QED
    BY <1>5, <1>6, <2>1 DEF Found, At, Roles
<1>7. ASSUME NEW h \in Handlers, Join(h) PROVE Tables'
  <2>1. invites[req[h].on].role \in Roles
    BY <1>7 DEF Join, At, Jobs, Made, Tables, Invite
  <2>2. raced' \in BOOLEAN
    BY <1>7 DEF Join, Tables
  <2> QED
    BY <1>5, <1>7, <2>1, <2>2 DEF Join, At
<1>8. ASSUME NEW h \in Handlers, SetRoot(h) PROVE Tables'
  <2>1. req[h].user \in Ids
    BY <1>8 DEF Jobs, Made, SetRoot, At
  <2> QED
    BY <1>8, <2>1 DEF SetRoot, At, Tables, ghosts
<1>9. ASSUME NEW h \in Handlers, SetPassword(h) PROVE Tables'
  BY <1>9 DEF SetPassword, At, Tables, tables
<1>10. ASSUME NEW h \in Handlers, UseLink(h) PROVE Tables'
  <2>1. links' \in [Links -> Link]
    BY <1>10 DEF UseLink, Tables, Link
  <2> QED
    BY <1>10, <2>1 DEF UseLink, At, Tables, ghosts
<1>11. ASSUME NEW u, NEW keep PROVE Without(u, keep) \in [Sids -> Session]
  BY DEF Without, NoSession, Session, Tables
<1>12. ASSUME NEW h \in Handlers, NEW here, NEW after, Drop(h, here, after) PROVE Tables'
  BY <1>11, <1>12 DEF Drop, At, Tables
<1>13. ASSUME NEW h \in Handlers, DropOthers(h) PROVE Tables'
  <2> DEFINE u == req[h].user
  <2>1. u \in Ids /\ era[u] \in Nat
    BY <1>13 DEF Jobs, Made, DropOthers, At, Tables
  <2>2. \A x \in Session : [x EXCEPT !.era = era[u]] \in Session
    BY <2>1 DEF Session
  <2>3. sess' \in [Sids -> Session]
    <3>1. sess' = [t \in Sids |-> IF t = req[h].sid /\ sess[t].user = u
                                  THEN [sess[t] EXCEPT !.era = era[u]]
                                  ELSE Without(u, req[h].sid)[t]]
      BY <1>13 DEF DropOthers
    <3>2. \A t \in Sids : sess[t] \in Session /\ Without(u, req[h].sid)[t] \in Session
      BY <1>11 DEF Tables
    <3> QED
      BY <2>2, <3>1, <3>2
  <2> QED
    BY <1>13, <2>3 DEF DropOthers, At, Tables
<1>14. ASSUME NEW h \in Handlers, ClearLinks(h) PROVE Tables'
  <2>1. links' \in [Links -> Link]
    BY <1>14 DEF ClearLinks, Tables, Link, NoLink
  <2> QED
    BY <1>14, <2>1 DEF ClearLinks, At, Tables, ghosts
<1>15. ASSUME NEW h \in Handlers, MakeLink(h) PROVE Tables'
  <2>1. req[h].user \in Ids
    BY <1>15 DEF Jobs, Made, MakeLink, At
  <2>2. links' \in [Links -> Link]
    BY <1>15, <2>1 DEF MakeLink, Tables, Link
  <2> QED
    BY <1>15, <2>2 DEF MakeLink, At, Tables, ghosts
<1>16. ASSUME NEW h \in Handlers, TakeSeat(h) PROVE Tables'
  <2>1. req[h].user \in Ids /\ req[h].on \in Invites
    BY <1>16 DEF Jobs, Made, TakeSeat, At
  <2>2. invites' \in [Invites -> Invite]
    <3> DEFINE x == invites[req[h].on]
               first == IF x.first = 0 THEN req[h].user ELSE x.first
               n == [x EXCEPT !.uses = x.uses + 1, !.first = first]
    <3>1. x \in Invite
      BY <2>1 DEF Tables
    <3>2. x.uses + 1 \in Nat /\ first \in Ids \cup {0}
      BY <2>1, <3>1 DEF Invite
    <3> HIDE DEF first
    <3>4. n \in Invite
      BY <3>1, <3>2 DEF Invite
    <3>3. invites' = [invites EXCEPT ![req[h].on] = n]
      BY <1>16, <2>1 DEF TakeSeat, Tables, first
    <3> QED
      BY <3>3, <3>4 DEF Tables
  <2> QED
    BY <1>16, <2>2 DEF TakeSeat, At, Tables, ghosts
<1>17. ASSUME NEW h \in Handlers, Joined(h) PROVE Tables'
  <2>1. req[h].user \in Ids /\ req[h].on \in Invites
    BY <1>17 DEF Jobs, Made, Joined, At
  <2> QED
    BY <1>17, <2>1 DEF Joined, At, Tables, ghosts
<1>18. ASSUME NEW h \in Handlers, Method(h) PROVE Tables'
  <2>1. req[h].user \in Ids /\ req[h].on \in Invites
    BY <1>18 DEF Jobs, Made, Method, At
  <2>2. users' \in [Ids -> UserRow]
    BY <1>18, <2>1 DEF Method, Tables, UserRow
  <2> QED
    BY <1>18, <2>2 DEF Method, At, Tables, ghosts
<1>19. ASSUME NEW h \in Handlers, SetRole(h) PROVE Tables'
  <2>1. req[h].want.role \in Roles
    BY <1>19 DEF Jobs, Made, SetRole, At
  <2>2. users' \in [Ids -> UserRow]
    BY <1>19, <2>1 DEF SetRole, Tables, UserRow, Here
  <2> QED
    BY <1>19, <2>2 DEF SetRole, At, Tables, ghosts
<1>20. ASSUME NEW h \in Handlers, SetOff(h) PROVE Tables'
  <2>1. users' \in [Ids -> UserRow]
    <3> DEFINE b == (req[h].want.off = "yes")
    <3>1. b \in BOOLEAN
      OBVIOUS
    <3>2. users' = users \/ users' = [users EXCEPT ![req[h].user].off = b]
      BY <1>20 DEF SetOff
    <3> HIDE DEF b
    <3> QED
      BY <3>1, <3>2, SMTT(30) DEF Tables, UserRow
  <2>2. era' \in [Ids -> Nat]
    BY <1>20 DEF SetOff, Tables, Here
  <2> QED
    BY <1>20, <2>1, <2>2 DEF SetOff, At, Tables
<1>21. ASSUME NEW h \in Handlers, DropOff(h) PROVE Tables'
  BY <1>11, <1>21 DEF DropOff, At, Tables
<1>22. ASSUME NEW h \in Handlers, Remove(h) PROVE Tables'
  <2>1. NoUser \in UserRow
    BY DEF UserRow, NoUser, Roles
  <2>2. users' \in [Ids -> UserRow]
    BY <1>22, <2>1 DEF Remove, Tables
  <2>3. era' \in [Ids -> Nat]
    <3>1. req[h].user \in Ids
      BY <1>22 DEF Jobs, Made, Remove, At
    <3> QED
      BY <1>22, <3>1 DEF Remove, Tables
  <2> QED
    BY <1>22, <2>2, <2>3 DEF Remove, At, Tables
<1>23. ASSUME NEW h \in Handlers, Dies(h) PROVE Tables'
  <2>1. EndsSessions(req[h]) => req[h].user \in Ids
    BY DEF EndsSessions, Jobs, Made
  <2> QED
    BY <1>23, <2>1 DEF Dies, Tables, tables
<1>24. ASSUME NEW s \in Sids, NEW i \in Invites, Revoke(s, i) PROVE Tables'
  <2>1. invites' \in [Invites -> Invite]
    BY <1>24 DEF Revoke, Tables, Invite
  <2> QED
    BY <1>24, <2>1 DEF Revoke, Asked, Tables, ghosts
<1>25. ASSUME NEW s \in Sids, NEW i \in Invites, NEW r \in Roles, Mint(s, i, r) PROVE Tables'
  <2>1. invites' \in [Invites -> Invite]
    BY <1>25 DEF Mint, Tables, Invite, NoInvite
  <2> QED
    BY <1>25, <2>1 DEF Mint, Asked, Tables, ghosts
<1>26. ASSUME NEW s \in Sids, SignOut(s) \/ RevokeOthers(s) PROVE Tables'
  <2>1. sess' \in [Sids -> Session]
    <3>1. NoSession \in Session
      BY DEF Session, NoSession
    <3> QED
      BY <1>11, <1>26, <3>1 DEF SignOut, RevokeOthers, Tables
  <2> QED
    BY <1>26, <2>1 DEF SignOut, RevokeOthers, Tables, ghosts
<1>27. ASSUME NEW s \in Sids, NEW r \in Roles, Create(s, r) PROVE Tables'
  <2>1. users' \in [Ids -> UserRow]
    BY <1>27 DEF Create, NewUser, UserRow, Tables
  <2> QED
    BY <1>27, <2>1 DEF Create, Asked, Tables, ghosts
<1>28. CASE Repair
  <2>1. \A i \in Invites : invites[i].first # 0 => invites[i].first \in Ids
    BY DEF Tables, Invite
  <2> QED
    BY <1>28, <2>1 DEF Repair, Tables, ghosts
<1>29. ASSUME NEW h \in Handlers,
              \/ \E u \in Ids : AskLogin(h, u)
              \/ AskSetup(h)
              \/ \E s \in Sids : AskPassword(h, s)
              \/ \E l \in Links : AskComplete(h, l)
              \/ \E s \in Sids, u \in Ids : AskReset(h, s, u)
              \/ \E i \in Invites : AskRedeem(h, i)
              \/ \E s \in Sids, u \in Ids, w \in Changes : AskUpdate(h, s, u, w)
       PROVE  Tables'
  BY <1>2, <1>29 DEF AskLogin, AskSetup, AskPassword, AskComplete, AskReset, AskRedeem, AskUpdate
<1> QED
  BY Steps, <1>3, <1>4, <1>6, <1>7, <1>8, <1>9, <1>10, <1>12, <1>13, <1>14, <1>15, <1>16,
     <1>17, <1>18, <1>19, <1>20, <1>21, <1>22, <1>23, <1>24, <1>25, <1>26, <1>27, <1>28, <1>29

LEMMA TypedInit == Init => Typed
<1> SUFFICES ASSUME Init PROVE Typed
  OBVIOUS
<1>1. Jobs
  BY IdleTyped DEF Init, Jobs, Made, Idle
<1>2. Tables
  <2>1. /\ NoUser \in UserRow /\ NewUser("admin") \in UserRow /\ NewUser("user") \in UserRow
        /\ NoSession \in Session /\ NoInvite \in Invite /\ NoLink \in Link
    BY DEF NoUser, NewUser, NoSession, NoInvite, NoLink, UserRow, Session, Invite, Link, Roles
  <2> QED
    BY <2>1 DEF Init, Tables
<1> QED
  BY <1>1, <1>2 DEF Typed

LEMMA AlwaysTyped == Spec => []Typed
<1>1. Typed /\ [Next]_vars => Typed'
  BY JobsStep, TablesStep DEF Typed
<1> QED
  BY <1>1, TypedInit, PTL DEF Spec

(* Rows, requests and counters are what the schema and the handlers say.   *)
THEOREM TypeCorrect == Spec => []TypeOK
<1>1. Typed => TypeOK
  BY DEF Typed, Jobs, Tables, TypeOK
<1> QED
  BY <1>1, AlwaysTyped, PTL

-----------------------------------------------------------------------------
(* The founder.                                                            *)

Stands(u) == u \in Here /\ users[u].role = "admin" /\ ~users[u].off

(* The account root_id() names: without CHOOSE, so that it is nobody when  *)
(* the fallback has none.                                                  *)
IsRoot(u) == \/ founder # 0 /\ u = founder
             \/ founder = 0 /\ u \in Here /\ \A v \in Here : u <= v

(* A change that would take something from its account.                    *)
Lessening(r) == \/ r.pc \in {"dropOff", "dropGone", "remove"}
                \/ r.pc \in {"role", "off"} /\ Lessens(r.want)

Rooted == /\ \A u \in Ids : IsRoot(u) => Stands(u)
          /\ Here # {} => \E u \in Ids : IsRoot(u)

(* Before the first account there are only setups.                         *)
Empty == Here = {} => /\ \A i \in Invites : ~invites[i].here
                      /\ \A h \in Handlers : req[h].pc \in {"idle", "found"}

SettingUp == \A h \in Handlers : req[h].pc = "root" => IsRoot(req[h].user)

Looked == \A h \in Handlers : Lessening(req[h]) => ~IsRoot(req[h].user)

Founded == Rooted /\ Empty /\ SettingUp /\ Looked

LEMMA RootIs == ASSUME NEW u \in Ids, IsRoot(u) PROVE Root = u
<1>1. CASE founder # 0
  BY <1>1 DEF IsRoot, Root
<1>2. CASE founder = 0
  <2>1. u \in Here /\ \A v \in Here : u <= v
    BY <1>2 DEF IsRoot
  <2>2. Here \subseteq Nat
    BY DEF Here, Ids
  <2>3. First \in Here /\ \A v \in Here : First <= v
    BY <2>1 DEF First
  <2>4. First = u
    BY <2>1, <2>2, <2>3
  <2> QED
    BY <1>2, <2>1, <2>4 DEF Root
<1> QED
  BY <1>1, <1>2

LEMMA FounderFollows == Typed /\ Rooted => FounderStands
<1> SUFFICES ASSUME Typed, Rooted, Root # 0 PROVE Stands(Root)
  BY DEF FounderStands, Stands
<1>1. founder # 0 \/ Here # {}
  BY DEF Root
<1>2. PICK u \in Ids : IsRoot(u)
  BY <1>1 DEF Rooted, IsRoot, Typed, Tables
<1> QED
  BY <1>2, RootIs DEF Rooted

LEMMA FoundedInit == Init => Founded
<1> SUFFICES ASSUME Init PROVE Founded
  OBVIOUS
<1>1. \A h \in Handlers : req[h].pc = "idle"
  BY DEF Init, Idle
<1>2. \A i \in Invites : ~invites[i].here
  BY DEF Init, NoInvite
<1>3. Rooted
  <2>1. CASE users = [u \in Ids |-> NoUser]
    BY <2>1 DEF Init, Rooted, Here, NoUser, IsRoot
  <2>2. CASE users = [u \in Ids |-> IF u = 1 THEN NewUser("admin")
                                    ELSE IF u = 2 THEN NewUser("user") ELSE NoUser]
    <3>1. 1 \in Ids /\ 1 \in Here /\ Ids \subseteq Nat \ {0}
      BY <2>2 DEF Here, NewUser, Ids
    <3>2. founder = 0 /\ IsRoot(1) /\ Stands(1)
      BY <2>2, <3>1 DEF Init, IsRoot, Stands, NewUser, Here
    <3>3. \A u \in Ids : IsRoot(u) => u = 1
      BY <3>1, <3>2 DEF IsRoot, Here
    <3> QED
      BY <3>1, <3>2, <3>3 DEF Rooted
  <2> QED
    BY <2>1, <2>2 DEF Init
<1> QED
  BY <1>1, <1>2, <1>3 DEF Founded, Empty, SettingUp, Looked, Lessening

(* A request moves on, and the accounts stay as they are.                  *)
LEMMA FoundedRequest ==
  ASSUME Typed, Founded, NEW h \in Handlers, NEW n, req' = [req EXCEPT ![h] = n],
         UNCHANGED <<users, founder>>,
         \A i \in Invites : invites'[i].here => Here # {},
         n.pc \notin {"found", "root"}, Here = {} => n.pc = "idle",
         Lessening(n) => ~IsRoot(n.user)
  PROVE  Founded'
<1>1. Here' = Here /\ \A u : (IsRoot(u)' <=> IsRoot(u)) /\ (Stands(u)' <=> Stands(u))
  BY DEF Here, IsRoot, Stands
<1>2. \A g \in Handlers : req'[g] = IF g = h THEN n ELSE req[g]
  BY DEF Typed, Jobs
<1>3. Rooted'
  BY <1>1 DEF Founded, Rooted
<1>4. Empty'
  BY <1>1, <1>2 DEF Founded, Empty
<1>5. SettingUp'
  BY <1>1, <1>2 DEF Founded, SettingUp
<1>6. Looked'
  BY <1>1, <1>2 DEF Founded, Looked, Lessening
<1> QED
  BY <1>3, <1>4, <1>5, <1>6 DEF Founded

(* Some account changes, and the founder stays the founder.                *)
Roots == {u \in Ids : IsRoot(u)}
Standing == {u \in Ids : Stands(u)}

LEMMA FoundedUsers ==
  ASSUME Typed, Founded, NEW h \in Handlers, NEW n, req' = [req EXCEPT ![h] = n],
         UNCHANGED <<Roots, invites>>, Roots \subseteq Standing', Here # {}, Here' # {},
         n.pc \notin {"found", "root"}, n.pc = "idle" \/ n.user \in Ids,
         Lessening(n) => n.user \notin Roots
  PROVE  Founded'
<1>1. \A g \in Handlers : req'[g] = IF g = h THEN n ELSE req[g]
  BY DEF Typed, Jobs
<1>2. \A u \in Ids : (IsRoot(u)' <=> IsRoot(u)) /\ (IsRoot(u) => Stands(u)')
  BY DEF Roots, Standing, Ids
<1>3. Rooted'
  BY <1>2 DEF Founded, Rooted
<1>4. Empty'
  BY DEF Empty
<1>5. \A g \in Handlers : req[g].pc = "root" \/ Lessening(req[g]) => req[g].user \in Ids
  BY DEF Typed, Jobs, Made, Lessening
<1>6. SettingUp'
  BY <1>1, <1>2, <1>5 DEF Founded, SettingUp
<1>7. Looked'
  <2> SUFFICES ASSUME NEW g \in Handlers, Lessening(req[g])' PROVE ~IsRoot(req[g].user)'
    BY DEF Looked
  <2> DEFINE r == IF g = h THEN n ELSE req[g]
  <2>1. req'[g] = r /\ Lessening(r)
    BY <1>1 DEF Lessening
  <2>2. r.user \in Ids /\ ~IsRoot(r.user)
    BY <1>5, <2>1 DEF Founded, Looked, Lessening, Roots
  <2> QED
    BY <1>2, <2>1, <2>2
<1> QED
  BY <1>3, <1>4, <1>6, <1>7 DEF Founded

(* Who comes later has a larger id, and who goes is not the founder.       *)
LEMMA RootStays ==
  ASSUME Typed, Founded, Here # {}, UNCHANGED founder, NEW x \in Ids,
         \/ Here' = Here
         \/ Here' = Here \cup {x} /\ \A v \in Here : v < x
         \/ Here' = Here \ {x} /\ x \notin Roots
  PROVE  UNCHANGED Roots
<1>1. Here \subseteq Nat /\ Here' \subseteq Nat /\ Ids \subseteq Nat
  BY DEF Here, Ids
<1>2. PICK r \in Ids : IsRoot(r)
  BY DEF Founded, Rooted
<1>3. CASE founder # 0
  BY <1>3 DEF Roots, IsRoot, Ids
<1>4. CASE founder = 0
  <2>1. r \in Here /\ \A v \in Here : r <= v
    BY <1>2, <1>4 DEF IsRoot
  <2>2. r \in Here' /\ \A v \in Here' : r <= v
    BY <1>1, <1>2, <2>1 DEF Roots
  <2>3. Roots = {r}
    BY <1>1, <1>2, <1>4, <2>1 DEF Roots, IsRoot, Ids
  <2>4. Roots' = {r}
    BY <1>1, <1>4, <2>2 DEF Roots, IsRoot, Ids
  <2> QED
    BY <2>3, <2>4
<1> QED
  BY <1>3, <1>4

(* Most requests begin at one place of three.                              *)
LEMMA Asks ==
  ASSUME NEW h \in Handlers,
         \/ \E u \in Ids : AskLogin(h, u)
         \/ \E s \in Sids : AskPassword(h, s)
         \/ \E l \in Links : AskComplete(h, l)
         \/ \E s \in Sids, u \in Ids : AskReset(h, s, u)
  PROVE  \E r : Begin(h, r) /\ r.pc \in {"grant", "password", "clear"}
<1> DEFINE Fits(r) == Begin(h, r) /\ r.pc \in {"grant", "password", "clear"}
<1>1. ASSUME NEW u, NEW e, Begin(h, [Idle EXCEPT !.pc = "grant", !.user = u, !.era = e])
      PROVE  \E r : Fits(r)
  <2> DEFINE r == [Idle EXCEPT !.pc = "grant", !.user = u, !.era = e]
  <2>1. r.pc = "grant"
    BY DEF Idle
  <2> QED
    BY <1>1, <2>1
<1>2. ASSUME NEW u, NEW s, Begin(h, [Idle EXCEPT !.pc = "password", !.user = u, !.sid = s])
      PROVE  \E r : Fits(r)
  <2> DEFINE r == [Idle EXCEPT !.pc = "password", !.user = u, !.sid = s]
  <2>1. r.pc = "password"
    BY DEF Idle
  <2> QED
    BY <1>2, <2>1
<1>3. ASSUME NEW u, NEW l, NEW e,
             Begin(h, [Idle EXCEPT !.pc = "password", !.user = u, !.on = l, !.era = e])
      PROVE  \E r : Fits(r)
  <2> DEFINE r == [Idle EXCEPT !.pc = "password", !.user = u, !.on = l, !.era = e]
  <2>1. r.pc = "password"
    BY DEF Idle
  <2> QED
    BY <1>3, <2>1
<1>4. ASSUME NEW u, Begin(h, [Idle EXCEPT !.pc = "clear", !.user = u])
      PROVE  \E r : Fits(r)
  <2> DEFINE r == [Idle EXCEPT !.pc = "clear", !.user = u]
  <2>1. r.pc = "clear"
    BY DEF Idle
  <2> QED
    BY <1>4, <2>1
<1> HIDE DEF Fits
<1>5. \E r : Fits(r)
  BY <1>1, <1>2, <1>3, <1>4
     DEF AskLogin, AskPassword, AskComplete, AskReset
<1> QED
  BY <1>5 DEF Fits

LEMMA Redeems ==
  ASSUME NEW h \in Handlers, NEW i \in Invites, AskRedeem(h, i)
  PROVE  \E r : Begin(h, r) /\ r.pc = "join" /\ r.on = i
<1> DEFINE r == [Idle EXCEPT !.pc = "join", !.on = i]
<1>1. Begin(h, r) /\ r.pc = "join" /\ r.on = i
  BY DEF AskRedeem, Idle
<1> QED
  BY <1>1

LEMMA FoundedBegin ==
  ASSUME Typed, Founded, NEW h \in Handlers,
         \/ \E u \in Ids : AskLogin(h, u)
         \/ AskSetup(h)
         \/ \E s \in Sids : AskPassword(h, s)
         \/ \E l \in Links : AskComplete(h, l)
         \/ \E s \in Sids, u \in Ids : AskReset(h, s, u)
         \/ \E i \in Invites : AskRedeem(h, i)
         \/ \E s \in Sids, u \in Ids, w \in Changes : AskUpdate(h, s, u, w)
  PROVE  Founded'
<1>1. ASSUME NEW r, Begin(h, r), r.pc \notin {"found", "root"}, Here # {},
             Lessening(r) => ~IsRoot(r.user)
      PROVE  Founded'
  BY <1>1, FoundedRequest DEF Begin, tables
<1>2. CASE \/ \E u \in Ids : AskLogin(h, u)
           \/ \E s \in Sids : AskPassword(h, s)
           \/ \E l \in Links : AskComplete(h, l)
           \/ \E s \in Sids, u \in Ids : AskReset(h, s, u)
           \/ \E i \in Invites : AskRedeem(h, i)
  <2>1. PICK r : Begin(h, r) /\ r.pc \in {"grant", "password", "clear", "join"}
    BY <1>2, Asks, Redeems
  <2>2. Here # {}
    BY <1>2 DEF AskLogin, AskPassword, AskComplete, AskReset, AskRedeem, Signed, InviteOk,
                Founded, Empty
  <2> QED
    BY <1>1, <2>1, <2>2 DEF Lessening
<1>3. ASSUME NEW s \in Sids, NEW u \in Ids, NEW w \in Changes, AskUpdate(h, s, u, w)
      PROVE  Founded'
  <2> DEFINE r == [Idle EXCEPT !.pc = Starts(w), !.user = u, !.want = w]
  <2>1. Begin(h, r) /\ Here # {} /\ (Lessens(w) => ~IsRoot(u))
    BY <1>3, RootIs DEF AskUpdate
  <2>2. r.pc = Starts(w) /\ r.user = u /\ r.want = w
    BY DEF Idle
  <2>3. Starts(w) \in {"role", "off", "dropGone", "idle"}
        /\ (Starts(w) = "dropGone" => Lessens(w))
    BY DEF Starts, AfterRole, AfterOff, Lessens
  <2> QED
    BY <1>1, <2>1, <2>2, <2>3 DEF Lessening
<1>4. CASE AskSetup(h)
  <2> DEFINE n == [Idle EXCEPT !.pc = "found"]
  <2>1. req' = [req EXCEPT ![h] = n] /\ n.pc = "found" /\ UNCHANGED tables /\ Here = {}
    BY <1>4 DEF AskSetup, Begin, Idle
  <2>2. Here' = {} /\ founder = 0
    BY <2>1 DEF Here, tables, Founded, Rooted, IsRoot, Stands, Typed, Tables
  <2>3. \A g \in Handlers : req'[g] = IF g = h THEN n ELSE req[g]
    BY <2>1 DEF Typed, Jobs
  <2>4. \A g \in Handlers : req[g].pc \in {"idle", "found"}
    BY <2>1 DEF Founded, Empty
  <2> HIDE DEF n
  <2>5. Rooted' /\ Empty' /\ SettingUp' /\ Looked'
    BY <2>1, <2>2, <2>3, <2>4 DEF Founded, Rooted, Empty, SettingUp, Looked, Lessening, IsRoot, tables
  <2> QED
    BY <2>5 DEF Founded
<1> QED
  BY <1>2, <1>3, <1>4

(* The steps that leave the accounts as they are.                          *)
LEMMA FoundedMove ==
  ASSUME Typed, Founded, NEW h \in Handlers,
         \/ Grant(h) \/ SetPassword(h) \/ UseLink(h) \/ Drop(h, "drop", "grant")
         \/ DropOthers(h) \/ ClearLinks(h) \/ MakeLink(h) \/ TakeSeat(h) \/ Joined(h)
         \/ DropOff(h) \/ Drop(h, "dropGone", "remove") \/ Dies(h)
  PROVE  Founded'
<1>1. req[h].pc \notin {"idle", "found"} => Here # {}
  BY DEF Founded, Empty
<1>2. ASSUME NEW n, req' = [req EXCEPT ![h] = n], n.user = req[h].user,
             n.pc \notin {"found", "root"}, UNCHANGED <<users, founder>>,
             \A i \in Invites : invites'[i].here = invites[i].here,
             req[h].pc \notin {"idle", "found"}, Lessening(n) => Lessening(req[h])
      PROVE  Founded'
  <2>1. Lessening(n) => ~IsRoot(n.user)
    BY <1>2 DEF Founded, Looked
  <2>2. \A i \in Invites : invites'[i].here => Here # {}
    BY <1>2 DEF Founded, Empty
  <2> QED
    BY <1>1, <1>2, <2>1, <2>2, FoundedRequest
<1>3. ASSUME Ends(h), UNCHANGED <<users, founder, invites>> PROVE Founded'
  <2>1. req' = [req EXCEPT ![h] = Idle] /\ Idle.pc = "idle"
    BY <1>3 DEF Ends, Idle
  <2>2. \A i \in Invites : invites'[i].here => Here # {}
    BY <1>3 DEF Founded, Empty
  <2> QED
    BY <1>3, <2>1, <2>2, FoundedRequest DEF Lessening
<1>4. CASE Grant(h) \/ DropOthers(h) \/ MakeLink(h) \/ Dies(h)
  BY <1>3, <1>4 DEF Grant, DropOthers, MakeLink, Dies, tables
<1>5. ASSUME NEW p \in Places, Goes(h, p), p \notin {"found", "root"},
             UNCHANGED <<users, founder>>,
             \A i \in Invites : invites'[i].here = invites[i].here,
             req[h].pc \notin {"idle", "found"},
             p \in {"off", "dropOff", "dropGone", "remove", "role"} => Lessening(req[h])
      PROVE  Founded'
  <2> DEFINE n == [req[h] EXCEPT !.pc = p]
  <2>1. n.pc = p /\ n.user = req[h].user /\ req' = [req EXCEPT ![h] = n]
    BY <1>5, Moved DEF Goes, Typed
  <2> HIDE DEF n
  <2> QED
    BY <1>2, <1>5, <2>1 DEF Lessening
<1>6. CASE SetPassword(h)
  <2> DEFINE p == IF req[h].on = NoItem THEN "keep" ELSE "used"
             e == [req[h] EXCEPT !.pc = p, !.era = era[req[h].user] + 1]
  <2>1. req[h].pc = "password" /\ UNCHANGED tables /\ p \in Places \ {"found", "root"}
        /\ p \in {"keep", "used"}
    BY <1>6 DEF SetPassword, At, Places
  <2>2. CASE Goes(h, p)
    BY <1>5, <2>1, <2>2 DEF tables
  <2>3. CASE req' = [req EXCEPT ![h].pc = p, ![h].era = era[req[h].user] + 1]
    <3>1. req[h] \in Job
      BY DEF Typed, Jobs
    <3>2. req' = [req EXCEPT ![h] = e] /\ e.pc = p /\ e.user = req[h].user
      BY <2>3, <3>1 DEF Typed, Jobs, Job
    <3> HIDE DEF e
    <3> QED
      BY <1>2, <2>1, <3>2 DEF tables, Lessening
  <2> QED
    BY <1>6, <2>2, <2>3 DEF SetPassword
<1>7. CASE UseLink(h) \/ Drop(h, "drop", "grant") \/ ClearLinks(h) \/ Joined(h)
  <2>1. PICK p \in {"drop", "grant", "link", "method"} : Goes(h, p)
    BY <1>7 DEF UseLink, Drop, ClearLinks, Joined
  <2> QED
    BY <1>5, <1>7, <2>1 DEF UseLink, Drop, ClearLinks, Joined, At, Places
<1>8. CASE TakeSeat(h)
  <2>1. \A i \in Invites : invites'[i].here = invites[i].here
    BY <1>8 DEF TakeSeat, Typed, Tables, Invite
  <2> QED
    BY <1>5, <1>8, <2>1 DEF TakeSeat, At, Places
<1>9. CASE Drop(h, "dropGone", "remove")
  BY <1>5, <1>9 DEF Drop, At, Places, Lessening
<1>10. CASE DropOff(h)
  <2>1. Ends(h) \/ Goes(h, "dropGone")
    BY <1>10 DEF DropOff, Proceeds, AfterOff
  <2>2. Lessening(req[h])
    BY <1>10 DEF DropOff, At, Lessening
  <2> QED
    BY <1>3, <1>5, <1>10, <2>1, <2>2 DEF DropOff, At, Places
<1> QED
  BY <1>4, <1>6, <1>7, <1>8, <1>9, <1>10

(* The steps that change accounts.                                         *)
LEMMA FoundedInserts ==
  ASSUME Typed, Founded, NEW h \in Handlers, Join(h) \/ (Found(h) /\ Here = {})
  PROVE  Founded'
<1>1. PICK u \in Ids, role \in Roles, pc \in {"seat", "root"} :
        /\ IsNextId(u) /\ users' = [users EXCEPT ![u] = NewUser(role)]
        /\ req' = [req EXCEPT ![h].pc = pc, ![h].user = u, ![h].era = era[u]]
        /\ UNCHANGED <<founder, invites>>
        /\ \/ Join(h) /\ req[h].pc = "join" /\ pc = "seat"
           \/ Found(h) /\ req[h].pc = "found" /\ pc = "root" /\ role = "admin"
  <2>1. CASE Join(h)
    <3>1. invites[req[h].on].role \in Roles
      BY <2>1 DEF Join, At, Typed, Jobs, Made, Tables, Invite
    <3> QED
      BY <2>1, <3>1 DEF Join, Inserts, At
  <2>2. CASE Found(h)
    BY <2>2 DEF Found, Inserts, At, Roles
  <2> QED
    BY <2>1, <2>2
<1> DEFINE n == [req[h] EXCEPT !.pc = pc, !.user = u, !.era = era[u]]
<1>2. req' = [req EXCEPT ![h] = n] /\ n.pc = pc /\ n.user = u
  <2>1. req[h] \in Job
    BY DEF Typed, Jobs
  <2> QED
    BY <1>1, <2>1 DEF Job, Typed, Jobs
<1> HIDE DEF n
<1>3. Here' = Here \cup {u} /\ \A v \in Here : v < u
  BY <1>1 DEF Here, IsNextId, NewUser, Typed, Tables
<1>4. ~Lessening(n)
  BY <1>1, <1>2 DEF Lessening
<1>5. CASE Join(h)
  <2>1. Here # {} /\ pc = "seat"
    BY <1>1, <1>5 DEF Found, Join, At, Founded, Empty
  <2>2. UNCHANGED Roots
    BY <1>1, <1>3, <2>1, RootStays
  <2>3. Roots \subseteq Standing'
    <3> SUFFICES ASSUME NEW v \in Ids, IsRoot(v) PROVE Stands(v)'
      BY DEF Roots, Standing, Ids
    <3>1. Stands(v) /\ v # u
      BY <1>3 DEF Founded, Rooted, Stands, Here, Ids
    <3> QED
      BY <1>1, <1>3, <3>1 DEF Stands, Typed, Tables
  <2>4. n.pc = "seat" /\ n.user \in Ids /\ Here' # {}
    BY <1>2, <1>3, <2>1
  <2> QED
    BY <1>1, <1>2, <1>4, <2>1, <2>2, <2>3, <2>4, FoundedUsers
<1>6. CASE Found(h) /\ Here = {}
  <2>1. Here = {} /\ pc = "root" /\ role = "admin"
    BY <1>1, <1>6 DEF Found, Join, At
  <2>2. founder' = 0
    BY <1>1, <2>1 DEF Founded, Rooted, IsRoot, Stands, Typed, Tables
  <2>3. \A v \in Ids : IsRoot(v)' <=> v = u
    BY <1>3, <2>1, <2>2 DEF IsRoot, Ids
  <2>4. Stands(u)'
    BY <1>1, <1>3, <2>1 DEF Stands, NewUser, Typed, Tables
  <2>5. \A g \in Handlers : req'[g] = IF g = h THEN n ELSE req[g]
    BY <1>2 DEF Typed, Jobs
  <2>6. \A g \in Handlers \ {h} : req[g].pc \in {"idle", "found"}
    BY <2>1 DEF Founded, Empty
  <2>7. Rooted' /\ Empty'
    BY <1>3, <2>3, <2>4 DEF Rooted, Empty
  <2>8. SettingUp' /\ Looked'
    BY <1>2, <1>4, <2>1, <2>3, <2>5, <2>6 DEF SettingUp, Looked, Lessening
  <2> QED
    BY <2>7, <2>8 DEF Founded
<1> QED
  BY <1>5, <1>6

LEMMA FoundedChange ==
  ASSUME Typed, Founded, NEW h \in Handlers,
         Method(h) \/ SetRole(h) \/ SetOff(h) \/ Remove(h)
  PROVE  Founded'
<1> DEFINE u == req[h].user
           w == req[h].want
<1>1. Here # {} /\ u \in Ids /\ req[h].pc \in {"method", "role", "off", "remove"}
  BY DEF Method, SetRole, SetOff, Remove, At, Founded, Empty, Typed, Jobs, Made
<1>2. UNCHANGED <<founder, invites>>
  BY DEF Method, SetRole, SetOff, Remove
<1>3. \A v \in Ids : IsRoot(v) => Stands(v)
  BY DEF Founded, Rooted
<1>4. Lessening(req[h]) => ~IsRoot(u)
  BY DEF Founded, Looked
<1>5. /\ (Here' = Here \/ (Here' = Here \ {u} /\ u \notin Roots))
      /\ \A v \in Ids : IsRoot(v) => Stands(v)'
  <2>1. CASE Method(h)
    <3>1. users' = users \/ users' = [users EXCEPT ![u].via = req[h].on]
      BY <2>1 DEF Method
    <3>2. \A v \in Ids : users'[v].here = users[v].here /\ users'[v].role = users[v].role
                        /\ users'[v].off = users[v].off
      BY <1>1, <3>1 DEF Typed, Tables, UserRow
    <3>3. Here' = Here
      BY <3>2 DEF Here
    <3>4. ASSUME NEW v \in Ids, IsRoot(v) PROVE Stands(v)'
      BY <1>3, <3>2, <3>3, <3>4 DEF Stands
    <3> QED
      BY <3>3, <3>4
  <2>2. CASE SetRole(h)
    <3>1. w.role \in Roles /\ (w.role = "user" => ~IsRoot(u))
      BY <1>4, <2>2 DEF SetRole, At, Lessening, Lessens, Typed, Jobs, Made
    <3>2. users' = users \/ users' = [users EXCEPT ![u].role = w.role]
      BY <2>2 DEF SetRole
    <3>3. \A v \in Ids : /\ users'[v].here = users[v].here /\ users'[v].off = users[v].off
                        /\ \/ users'[v].role = users[v].role
                           \/ v = u /\ users'[v].role = w.role
      BY <1>1, <3>2 DEF Typed, Tables, UserRow
    <3>4. Here' = Here
      BY <3>3 DEF Here
    <3>5. ASSUME NEW v \in Ids, IsRoot(v) PROVE Stands(v)'
      <4>1. Stands(v) /\ (v = u => w.role = "admin")
        BY <1>3, <3>1, <3>5 DEF Roles
      <4> QED
        BY <3>3, <3>4, <4>1 DEF Stands
    <3> QED
      BY <3>4, <3>5
  <2>3. CASE SetOff(h)
    <3>1. w.off = "yes" => ~IsRoot(u)
      BY <1>4, <2>3 DEF SetOff, At, Lessening, Lessens
    <3>2. users' = users \/ users' = [users EXCEPT ![u].off = (w.off = "yes")]
      BY <2>3 DEF SetOff
    <3>3. \A v \in Ids : /\ users'[v].here = users[v].here /\ users'[v].role = users[v].role
                        /\ \/ users'[v].off = users[v].off
                           \/ v = u /\ users'[v].off = (w.off = "yes")
      BY <1>1, <3>2 DEF Typed, Tables, UserRow
    <3>4. Here' = Here
      BY <3>3 DEF Here
    <3>5. ASSUME NEW v \in Ids, IsRoot(v) PROVE Stands(v)'
      <4>1. Stands(v) /\ (v = u => w.off # "yes")
        BY <1>3, <3>1, <3>5
      <4> QED
        BY <3>3, <3>4, <4>1 DEF Stands
    <3> QED
      BY <3>4, <3>5
  <2>4. CASE Remove(h)
    <3>1. ~IsRoot(u)
      BY <1>4, <2>4 DEF Remove, At, Lessening
    <3>2. \A v \in Ids : users'[v] = IF v = u THEN NoUser ELSE users[v]
      BY <1>1, <2>4 DEF Remove, Typed, Tables
    <3>3. Here' = Here \ {u}
      BY <1>1, <3>2 DEF Here, NoUser
    <3>4. ASSUME NEW v \in Ids, IsRoot(v) PROVE Stands(v)'
      <4>1. Stands(v) /\ v # u
        BY <1>3, <3>1, <3>4
      <4> QED
        BY <3>2, <3>3, <4>1 DEF Stands
    <3> QED
      BY <3>1, <3>3, <3>4 DEF Roots
  <2> QED
    BY <2>1, <2>2, <2>3, <2>4
<1>6. UNCHANGED Roots /\ Roots \subseteq Standing'
  <2>1. Roots \subseteq Standing'
    BY <1>5 DEF Roots, Standing, Ids
  <2>2. UNCHANGED Roots
    BY <1>1, <1>2, <1>5, RootStays
  <2> QED
    BY <2>1, <2>2
<1>7. Here' # {}
  BY <1>1, <1>3, <1>5 DEF Founded, Rooted, Stands
<1>8. ASSUME NEW p \in {"grant", "off", "dropOff", "dropGone"}, Goes(h, p),
             p # "grant" => Lessening(req[h]) \/ (p = "off" /\ req[h].pc = "role")
      PROVE  Founded'
  <2> DEFINE n == [req[h] EXCEPT !.pc = p]
  <2>1. n.pc = p /\ n.user = u /\ n.want = w /\ req' = [req EXCEPT ![h] = n]
    BY <1>8, Moved DEF Goes, Typed, Places
  <2> HIDE DEF n
  <2>2. Lessening(n) => n.user \notin Roots
    BY <1>1, <1>4, <1>8, <2>1 DEF Lessening, Roots
  <2>3. n.pc \notin {"found", "root"} /\ n.user \in Ids
    BY <1>1, <1>8, <2>1
  <2> QED
    BY <1>1, <1>2, <1>6, <1>7, <2>1, <2>2, <2>3, FoundedUsers
<1>9. ASSUME Ends(h) PROVE Founded'
  <2>1. req' = [req EXCEPT ![h] = Idle] /\ Idle.pc = "idle"
    BY <1>9 DEF Ends, Idle
  <2>2. Lessening(Idle) => Idle.user \notin Roots
    BY <2>1 DEF Lessening
  <2> QED
    BY <1>1, <1>2, <1>6, <1>7, <2>1, <2>2, FoundedUsers
<1>10. CASE Method(h) \/ Remove(h)
  BY <1>8, <1>9, <1>10 DEF Method, Remove
<1>11. CASE SetRole(h)
  <2>1. req[h].pc = "role" /\ Proceeds(h, AfterRole(w))
    BY <1>11 DEF SetRole, At
  <2>2. \/ Ends(h)
        \/ Goes(h, "off")
        \/ Goes(h, "dropGone") /\ w.delete
    BY <2>1 DEF Proceeds, AfterRole, AfterOff
  <2> QED
    BY <1>8, <1>9, <2>1, <2>2 DEF Lessening, Lessens
<1>12. CASE SetOff(h)
  <2>1. req[h].pc = "off" /\ Proceeds(h, IF w.off = "yes" THEN "dropOff" ELSE AfterOff(w))
    BY <1>12 DEF SetOff, At
  <2>2. \/ Ends(h)
        \/ Goes(h, "dropOff") /\ w.off = "yes"
        \/ Goes(h, "dropGone") /\ w.delete
    BY <2>1 DEF Proceeds, AfterOff
  <2> QED
    BY <1>8, <1>9, <2>1, <2>2 DEF Lessening, Lessens
<1> QED
  BY <1>10, <1>11, <1>12

LEMMA FoundedSetRoot ==
  ASSUME Typed, Founded, NEW h \in Handlers, SetRoot(h) PROVE Founded'
<1> DEFINE u == req[h].user
           n == [req[h] EXCEPT !.pc = "grant"]
<1>1. req[h].pc = "root" /\ founder' = u /\ UNCHANGED <<users, invites>> /\ Here' = Here
  BY DEF SetRoot, At, Here
<1>2. u \in Ids /\ u # 0 /\ IsRoot(u)
  BY <1>1 DEF Typed, Jobs, Made, Ids, Founded, SettingUp
<1>3. n.pc = "grant" /\ n.user = u /\ req' = [req EXCEPT ![h] = n]
  BY Moved DEF SetRoot, Goes, Typed, Places
<1>4. Roots = {u}
  BY <1>2 DEF Roots, IsRoot, Ids
<1>5. Roots' = {u}
  BY <1>1, <1>2 DEF Roots, IsRoot, Ids
<1>6. Stands(u) /\ Here # {}
  BY <1>2 DEF Founded, Rooted, Stands
<1>7. Roots \subseteq Standing'
  BY <1>1, <1>2, <1>4, <1>6 DEF Standing, Stands, Ids
<1> HIDE DEF n
<1>8. UNCHANGED Roots /\ Here' # {} /\ UNCHANGED invites
  BY <1>1, <1>4, <1>5, <1>6
<1>9. Lessening(n) => n.user \notin Roots
  BY <1>3 DEF Lessening
<1> QED
  BY <1>2, <1>3, <1>6, <1>7, <1>8, <1>9, FoundedUsers

(* The steps that take no request further.                                 *)
LEMMA FoundedStill ==
  ASSUME Typed, Founded, UNCHANGED <<req, users, founder>>,
         \A i \in Invites : invites'[i].here => Here # {}
  PROVE  Founded'
<1>1. Here' = Here /\ \A u : (IsRoot(u)' <=> IsRoot(u)) /\ (Stands(u)' <=> Stands(u))
  BY DEF Here, IsRoot, Stands
<1>2. Rooted' /\ Empty'
  BY <1>1 DEF Founded, Rooted, Empty
<1>3. SettingUp' /\ Looked'
  BY <1>1 DEF Founded, SettingUp, Looked, Lessening
<1> QED
  BY <1>2, <1>3 DEF Founded

LEMMA FoundedCreate ==
  ASSUME Typed, Founded, NEW s \in Sids, NEW role \in Roles, Create(s, role) PROVE Founded'
<1>1. PICK x \in Ids : IsNextId(x) /\ users' = [users EXCEPT ![x] = NewUser(role)]
  BY DEF Create
<1>2. Here' = Here \cup {x} /\ \A v \in Here : v < x
  BY <1>1 DEF Here, IsNextId, NewUser, Typed, Tables
<1>3. Here # {} /\ UNCHANGED <<req, founder, invites>>
  BY DEF Create, Admin, Signed
<1>4. UNCHANGED Roots
  BY <1>2, <1>3, RootStays
<1>5. \A u \in Ids : IsRoot(u)' <=> IsRoot(u)
  BY <1>4 DEF Roots, Ids
<1>6. ASSUME NEW u \in Ids, IsRoot(u) PROVE Stands(u)'
  <2>1. Stands(u) /\ u # x
    BY <1>2, <1>6 DEF Founded, Rooted, Stands, Here, Ids
  <2> QED
    BY <1>1, <1>2, <2>1 DEF Stands, Typed, Tables
<1>7. Rooted' /\ Empty'
  <2>1. \A u \in Ids : IsRoot(u)' => Stands(u)'
    BY <1>5, <1>6
  <2>2. \E u \in Ids : IsRoot(u)'
    BY <1>3, <1>5 DEF Founded, Rooted
  <2> QED
    BY <1>2, <2>1, <2>2 DEF Rooted, Empty
<1>8. \A h \in Handlers : req[h].pc = "root" \/ Lessening(req[h]) => req[h].user \in Ids
  BY DEF Typed, Jobs, Made, Lessening
<1>9. SettingUp'
  BY <1>3, <1>5, <1>8 DEF Founded, SettingUp
<1>10. Looked'
  BY <1>3, <1>5, <1>8 DEF Founded, Looked, Lessening
<1> QED
  BY <1>7, <1>9, <1>10 DEF Founded

LEMMA FoundedStep == Typed /\ Founded /\ [Next]_vars => raced' \/ Founded'
<1> SUFFICES ASSUME Typed, Founded, [Next]_vars PROVE raced' \/ Founded'
  OBVIOUS
<1>1. Empty
  BY DEF Founded
<1>2. CASE UNCHANGED vars
  BY <1>1, <1>2, FoundedStill DEF vars, tables, Empty
<1>3. ASSUME NEW h \in Handlers,
             Join(h) \/ Found(h) \/ Method(h) \/ SetRole(h) \/ SetOff(h) \/ Remove(h)
             \/ SetRoot(h)
      PROVE  raced' \/ Founded'
  <2>1. Found(h) /\ Here # {} => raced'
    BY DEF Found
  <2> QED
    BY <1>3, <2>1, FoundedInserts, FoundedChange, FoundedSetRoot
<1>4. ASSUME NEW s \in Sids, NEW i \in Invites,
             Revoke(s, i) \/ \E r \in Roles : Mint(s, i, r)
      PROVE  Founded'
  <2>1. Here # {} /\ UNCHANGED <<req, users, founder>>
    BY <1>4 DEF Revoke, Mint, Admin, Signed
  <2> QED
    BY <2>1, FoundedStill
<1>5. ASSUME NEW s \in Sids, SignOut(s) \/ RevokeOthers(s) PROVE Founded'
  BY <1>1, <1>5, FoundedStill DEF SignOut, RevokeOthers, Empty
<1>6. CASE Repair
  BY <1>1, <1>6, FoundedStill DEF Repair, Empty
<1> QED
  BY <1>2, <1>3, <1>4, <1>5, <1>6, Steps, FoundedBegin, FoundedMove, FoundedCreate

(* Two setups that overlapped stay so.                                     *)
LEMMA RacedStays == raced /\ [Next]_vars => raced'
<1> SUFFICES ASSUME raced, Next PROVE raced'
  BY DEF vars, ghosts
<1>1. ASSUME NEW h \in Handlers,
             \/ \E u \in Ids : AskLogin(h, u)
             \/ AskSetup(h)
             \/ \E s \in Sids : AskPassword(h, s)
             \/ \E l \in Links : AskComplete(h, l)
             \/ \E s \in Sids, u \in Ids : AskReset(h, s, u)
             \/ \E i \in Invites : AskRedeem(h, i)
             \/ \E s \in Sids, u \in Ids, w \in Changes : AskUpdate(h, s, u, w)
      PROVE  raced'
  BY <1>1 DEF AskLogin, AskSetup, AskPassword, AskComplete, AskReset, AskRedeem, AskUpdate, Begin,
              ghosts
<1>2. ASSUME NEW h \in Handlers,
             \/ Grant(h) \/ Found(h) \/ SetRoot(h)
             \/ SetPassword(h) \/ UseLink(h) \/ Drop(h, "drop", "grant") \/ DropOthers(h)
             \/ ClearLinks(h) \/ MakeLink(h)
             \/ Join(h) \/ TakeSeat(h) \/ Joined(h) \/ Method(h)
             \/ SetRole(h) \/ SetOff(h) \/ DropOff(h)
             \/ Drop(h, "dropGone", "remove") \/ Remove(h) \/ Dies(h)
      PROVE  raced'
  BY <1>2 DEF Grant, Found, SetRoot, SetPassword, UseLink, Drop, DropOthers, ClearLinks, MakeLink,
              Join, TakeSeat, Joined, Method, SetRole, SetOff, DropOff, Remove, Dies, ghosts
<1>3. ASSUME NEW s \in Sids, NEW i \in Invites, Revoke(s, i) \/ \E r \in Roles : Mint(s, i, r)
      PROVE  raced'
  BY <1>3 DEF Revoke, Mint, ghosts
<1>4. ASSUME NEW s \in Sids, SignOut(s) \/ RevokeOthers(s) \/ \E r \in Roles : Create(s, r)
      PROVE  raced'
  BY <1>4 DEF SignOut, RevokeOthers, Create, ghosts
<1>5. CASE Repair
  BY <1>5 DEF Repair, ghosts
<1> QED
  BY <1>1, <1>2, <1>3, <1>4, <1>5, Steps

(* "It can never be demoted, disabled or removed": the account root_id()   *)
(* names is there, an admin and enabled (auth.py, root_id() and its uses   *)
(* in server.py), unless two setups overlapped.                            *)
THEOREM FounderIsSafe == Spec => []FounderStands
<1> DEFINE Safe == raced \/ Founded
<1>1. Typed /\ Safe => FounderStands
  BY FounderFollows DEF Founded, FounderStands
<1>2. Init => Safe
  BY FoundedInit
<1>3. Typed /\ Safe /\ [Next]_vars => Safe'
  BY FoundedStep, RacedStays
<1> QED
  BY <1>1, <1>2, <1>3, AlwaysTyped, PTL DEF Spec

-----------------------------------------------------------------------------
(* Sessions that end.                                                      *)

Held(s) == sess[s] # NoSession =>
  /\ sess[s].user \in Ids
  /\ sess[s].era = era[sess[s].user] \/ sess[s].late \/ Ending(sess[s].user)

(* Whose account is about to be deleted has only sessions that came late.  *)
Leaving(h) == req[h].pc = "remove" =>
  \A s \in Sids : sess[s] # NoSession /\ sess[s].user = req[h].user => sess[s].late

SessionsHeld == (\A s \in Sids : Held(s)) /\ (\A h \in Handlers : Leaving(h))

LEMMA HeldMove ==
  ASSUME Typed, SessionsHeld, NEW h \in Handlers, NEW n, req' = [req EXCEPT ![h] = n],
         UNCHANGED <<sess, era>>, halfway \subseteq halfway', n.pc # "remove",
         EndsSessions(req[h]) => \/ EndsSessions(n) /\ n.user = req[h].user
                                 \/ req[h].user \in halfway'
  PROVE  SessionsHeld'
<1>1. \A g \in Handlers : req'[g] = IF g = h THEN n ELSE req[g]
  BY DEF Typed, Jobs
<1>2. ASSUME NEW u, Ending(u) PROVE Ending(u)'
  <2>1. CASE u \in halfway
    BY <2>1 DEF Ending
  <2>2. CASE \E g \in Handlers : EndsSessions(req[g]) /\ req[g].user = u
    <3>1. PICK g \in Handlers : EndsSessions(req[g]) /\ req[g].user = u
      BY <2>2
    <3>2. u \in halfway' \/ (EndsSessions(req'[g]) /\ req'[g].user = u)
      BY <1>1, <3>1
    <3> QED
      BY <3>2 DEF Ending, EndsSessions
  <2> QED
    BY <1>2, <2>1, <2>2 DEF Ending
<1>3. \A s \in Sids : Held(s)'
  BY <1>2 DEF SessionsHeld, Held
<1>4. \A g \in Handlers : Leaving(g)'
  BY <1>1 DEF SessionsHeld, Leaving
<1> QED
  BY <1>3, <1>4 DEF SessionsHeld

(* The sessions of u go, and those that stay are brought up to date.       *)
LEMMA HeldDrop ==
  ASSUME Typed, SessionsHeld, NEW h \in Handlers, NEW n, req' = [req EXCEPT ![h] = n],
         NEW u \in Ids, u = req[h].user, UNCHANGED era, halfway' = halfway \ {u},
         Leaving(h)',
         \A s \in Sids : \/ sess'[s] = NoSession
                         \/ sess'[s] = sess[s] /\ sess[s].user # u
                         \/ /\ sess[s].user = u /\ sess'[s].user = u
                            /\ sess'[s].era = era[u] /\ sess'[s].late = sess[s].late
  PROVE  SessionsHeld'
<1>1. \A g \in Handlers : req'[g] = IF g = h THEN n ELSE req[g]
  BY DEF Typed, Jobs
<1>2. ASSUME NEW v \in Ids, v # u, Ending(v) PROVE Ending(v)'
  <2>1. CASE v \in halfway
    BY <1>2, <2>1 DEF Ending
  <2>2. CASE \E g \in Handlers : EndsSessions(req[g]) /\ req[g].user = v
    <3>1. PICK g \in Handlers : EndsSessions(req[g]) /\ req[g].user = v
      BY <2>2
    <3>2. EndsSessions(req'[g]) /\ req'[g].user = v
      BY <1>1, <1>2, <3>1
    <3> QED
      BY <3>2 DEF Ending, EndsSessions
  <2> QED
    BY <1>2, <2>1, <2>2 DEF Ending
<1>3. u # 0 /\ NoSession.user = 0
  BY DEF Ids, NoSession
<1>4. ASSUME NEW s \in Sids, sess'[s] # NoSession PROVE Held(s)'
  <2>1. CASE sess'[s] = sess[s] /\ sess[s].user # u
    <3>1. sess[s].user \in Ids
          /\ (sess[s].era = era[sess[s].user] \/ sess[s].late \/ Ending(sess[s].user))
      BY <1>4, <2>1 DEF SessionsHeld, Held
    <3>2. Ending(sess[s].user) => Ending(sess[s].user)'
      BY <1>2, <2>1, <3>1
    <3> QED
      BY <2>1, <3>1, <3>2 DEF Held, Ending
  <2>2. CASE sess'[s].user = u /\ sess'[s].era = era[u]
    BY <2>2 DEF Held
  <2> QED
    BY <1>4, <2>1, <2>2
<1>5. ASSUME NEW g \in Handlers, NEW s \in Sids, req'[g].pc = "remove",
             sess'[s] # NoSession, sess'[s].user = req'[g].user
      PROVE  sess'[s].late
  <2>1. CASE g = h
    BY <1>5, <2>1 DEF Leaving
  <2>2. CASE g # h
    <3>1. req[g].pc = "remove" /\ req'[g] = req[g]
      BY <1>1, <1>5, <2>2
    <3>2. sess[s] # NoSession /\ sess[s].user = req[g].user /\ sess'[s].late = sess[s].late
      BY <1>3, <1>5, <3>1
    <3> QED
      BY <3>1, <3>2 DEF SessionsHeld, Leaving
  <2> QED
    BY <2>1, <2>2
<1>6. \A g \in Handlers : Leaving(g)'
  BY <1>5 DEF Leaving
<1>7. \A s \in Sids : Held(s)'
  BY <1>4 DEF Held
<1> QED
  BY <1>6, <1>7 DEF SessionsHeld

(* What ends the sessions of u: those there are may stay while it is under *)
(* way, or came late.                                                      *)
LEMMA HeldAge ==
  ASSUME Typed, SessionsHeld, NEW h \in Handlers, NEW n, req' = [req EXCEPT ![h] = n],
         NEW u \in Ids, u = req[h].user, era' = [era EXCEPT ![u] = @ + 1],
         UNCHANGED <<sess, halfway>>, ~EndsSessions(req[h]), n.pc # "remove",
         \/ EndsSessions(n) /\ n.user = u
         \/ req[h].pc = "remove"
  PROVE  SessionsHeld'
<1>1. \A g \in Handlers : req'[g] = IF g = h THEN n ELSE req[g]
  BY DEF Typed, Jobs
<1>2. ASSUME NEW v, Ending(v) PROVE Ending(v)'
  <2>1. CASE v \in halfway
    BY <2>1 DEF Ending
  <2>2. CASE \E g \in Handlers : EndsSessions(req[g]) /\ req[g].user = v
    <3>1. PICK g \in Handlers : EndsSessions(req[g]) /\ req[g].user = v
      BY <2>2
    <3>2. EndsSessions(req'[g]) /\ req'[g].user = v
      BY <1>1, <3>1
    <3> QED
      BY <3>2 DEF Ending, EndsSessions
  <2> QED
    BY <1>2, <2>1, <2>2 DEF Ending
<1>3. \A v \in Ids : v # u => era'[v] = era[v]
  BY DEF Typed, Tables
<1>4. ASSUME NEW s \in Sids, sess[s] # NoSession PROVE Held(s)'
  <2>1. sess[s].user \in Ids
        /\ (sess[s].era = era[sess[s].user] \/ sess[s].late \/ Ending(sess[s].user))
    BY <1>4 DEF SessionsHeld, Held
  <2>2. CASE sess[s].user # u
    BY <1>2, <1>3, <2>1, <2>2 DEF Held
  <2>3. CASE sess[s].user = u /\ EndsSessions(n) /\ n.user = u
    <3>1. req'[h] = n
      BY <1>1
    <3>2. EndsSessions(req'[h]) /\ req'[h].user = u
      BY <2>3, <3>1
    <3>3. Ending(u)'
      BY <3>2 DEF Ending, EndsSessions
    <3> QED
      BY <2>1, <2>3, <3>3 DEF Held
  <2>4. CASE sess[s].user = u /\ req[h].pc = "remove"
    <3>1. sess[s].late
      BY <1>4, <2>4 DEF SessionsHeld, Leaving
    <3> QED
      BY <2>1, <3>1 DEF Held
  <2> QED
    BY <2>2, <2>3, <2>4
<1>5. \A s \in Sids : Held(s)'
  BY <1>4 DEF Held
<1>6. \A g \in Handlers : Leaving(g)'
  BY <1>1 DEF SessionsHeld, Leaving
<1> QED
  BY <1>5, <1>6 DEF SessionsHeld

LEMMA HeldBegin ==
  ASSUME Typed, SessionsHeld, NEW h \in Handlers,
         \/ \E u \in Ids : AskLogin(h, u)
         \/ AskSetup(h)
         \/ \E s \in Sids : AskPassword(h, s)
         \/ \E l \in Links : AskComplete(h, l)
         \/ \E s \in Sids, u \in Ids : AskReset(h, s, u)
         \/ \E i \in Invites : AskRedeem(h, i)
         \/ \E s \in Sids, u \in Ids, w \in Changes : AskUpdate(h, s, u, w)
  PROVE  SessionsHeld'
<1>1. ASSUME NEW r, Begin(h, r), r.pc # "remove" PROVE SessionsHeld'
  <2>1. ~EndsSessions(req[h]) /\ req' = [req EXCEPT ![h] = r] /\ UNCHANGED <<sess, era, halfway>>
    BY <1>1 DEF Begin, Idle, EndsSessions, tables, ghosts
  <2> QED
    BY <1>1, <2>1, HeldMove
<1>2. CASE AskSetup(h)
  <2> DEFINE r == [Idle EXCEPT !.pc = "found"]
  <2>1. Begin(h, r) /\ r.pc = "found"
    BY <1>2 DEF AskSetup, Idle
  <2> HIDE DEF r
  <2> QED
    BY <1>1, <2>1
<1>3. ASSUME NEW s \in Sids, NEW u \in Ids, NEW w \in Changes, AskUpdate(h, s, u, w)
      PROVE  SessionsHeld'
  <2> DEFINE r == [Idle EXCEPT !.pc = Starts(w), !.user = u, !.want = w]
  <2>1. Begin(h, r) /\ r.pc = Starts(w)
    BY <1>3 DEF AskUpdate, Idle
  <2>2. Starts(w) # "remove"
    BY DEF Starts, AfterRole, AfterOff
  <2> HIDE DEF r
  <2> QED
    BY <1>1, <2>1, <2>2
<1>4. ASSUME NEW r, Begin(h, r) /\ r.pc \in {"grant", "password", "clear", "join"}
      PROVE  SessionsHeld'
  BY <1>1, <1>4
<1> QED
  BY <1>2, <1>3, <1>4, Asks, Redeems

LEMMA HeldGoes ==
  ASSUME Typed, SessionsHeld, NEW h \in Handlers,
         UNCHANGED <<sess, era, halfway>>,
         \/ Ends(h) /\ ~EndsSessions(req[h])
         \/ \E p \in Places \ {"remove"} :
              Goes(h, p) /\ (EndsSessions(req[h]) => p \in {"used", "drop", "keep", "dropOff"})
  PROVE  SessionsHeld'
<1>1. CASE Ends(h) /\ ~EndsSessions(req[h])
  <2>1. req' = [req EXCEPT ![h] = Idle] /\ Idle.pc # "remove"
    BY <1>1 DEF Ends, Idle
  <2> QED
    BY <1>1, <2>1, HeldMove
<1>2. ASSUME NEW p \in Places \ {"remove"},
             Goes(h, p) /\ (EndsSessions(req[h]) => p \in {"used", "drop", "keep", "dropOff"})
      PROVE  SessionsHeld'
  <2> DEFINE n == [req[h] EXCEPT !.pc = p]
  <2>1. n.pc = p /\ n.user = req[h].user /\ req' = [req EXCEPT ![h] = n]
    BY <1>2, Moved DEF Goes, Typed
  <2> HIDE DEF n
  <2>2. EndsSessions(req[h]) => EndsSessions(n) /\ n.user = req[h].user
    BY <1>2, <2>1 DEF EndsSessions
  <2> QED
    BY <1>2, <2>1, <2>2, HeldMove
<1> QED
  BY <1>1, <1>2

LEMMA HeldThen ==
  ASSUME Typed, SessionsHeld, NEW h \in Handlers,
         \/ Found(h) \/ SetRoot(h) \/ UseLink(h) \/ ClearLinks(h) \/ MakeLink(h)
         \/ Join(h) \/ TakeSeat(h) \/ Joined(h) \/ Method(h) \/ SetRole(h) \/ Dies(h)
  PROVE  SessionsHeld'
<1>1. CASE Found(h) \/ Join(h)
  <2>1. PICK u \in Ids, pc \in {"seat", "root"} :
          req' = [req EXCEPT ![h].pc = pc, ![h].user = u, ![h].era = era[u]]
    BY <1>1 DEF Found, Join, Inserts
  <2> DEFINE n == [req[h] EXCEPT !.pc = pc, !.user = u, !.era = era[u]]
  <2>2. req' = [req EXCEPT ![h] = n] /\ n.pc = pc
    <3>1. req[h] \in Job
      BY DEF Typed, Jobs
    <3> QED
      BY <2>1, <3>1 DEF Job, Typed, Jobs
  <2> HIDE DEF n
  <2>3. ~EndsSessions(req[h]) /\ UNCHANGED <<sess, era, halfway>>
    BY <1>1 DEF Found, Join, At, Inserts, EndsSessions, ghosts
  <2> QED
    BY <2>2, <2>3, HeldMove
<1>2. CASE SetRoot(h) \/ UseLink(h) \/ ClearLinks(h) \/ TakeSeat(h) \/ Joined(h) \/ Method(h)
  <2>1. PICK p \in {"grant", "drop", "link", "joined", "method"} :
          Goes(h, p) /\ (EndsSessions(req[h]) => p = "drop")
    BY <1>2 DEF SetRoot, UseLink, ClearLinks, TakeSeat, Joined, Method, At, EndsSessions
  <2>2. UNCHANGED <<sess, era, halfway>>
    BY <1>2 DEF SetRoot, UseLink, ClearLinks, TakeSeat, Joined, Method, ghosts
  <2> QED
    BY <2>1, <2>2, HeldGoes DEF Places
<1>3. CASE MakeLink(h) \/ SetRole(h)
  <2>1. Ends(h) \/ Goes(h, "off") \/ Goes(h, "dropGone")
    BY <1>3 DEF MakeLink, SetRole, Proceeds, AfterRole, AfterOff
  <2>2. ~EndsSessions(req[h]) /\ UNCHANGED <<sess, era, halfway>>
    BY <1>3 DEF MakeLink, SetRole, At, EndsSessions, ghosts
  <2> QED
    BY <2>1, <2>2, HeldGoes DEF Places
<1>4. CASE Dies(h)
  <2>1. req' = [req EXCEPT ![h] = Idle] /\ Idle.pc # "remove" /\ UNCHANGED <<sess, era>>
    BY <1>4 DEF Dies, Ends, Idle, tables
  <2>2. halfway \subseteq halfway' /\ (EndsSessions(req[h]) => req[h].user \in halfway')
    BY <1>4 DEF Dies
  <2> QED
    BY <2>1, <2>2, HeldMove
<1> QED
  BY <1>1, <1>2, <1>3, <1>4

LEMMA HeldGrant == ASSUME Typed, SessionsHeld, NEW h \in Handlers, Grant(h) PROVE SessionsHeld'
<1> DEFINE u == req[h].user
<1>1. PICK s \in Sids, b \in BOOLEAN :
        /\ b = (req[h].era # era[u] \/ BeingDeleted(u))
        /\ BeingDeleted(u) => b
        /\ sess' = [sess EXCEPT ![s] = [user |-> u, era |-> req[h].era, late |-> b]]
  BY DEF Grant, BeingDeleted
<1>2. req[h].pc = "grant" /\ u \in Ids /\ UNCHANGED <<era, halfway>>
  BY DEF Grant, At, Typed, Jobs, Made, ghosts
<1>3. \A g \in Handlers : req'[g] = IF g = h THEN Idle ELSE req[g]
  BY DEF Grant, Ends, Typed, Jobs
<1>4. \A t \in Sids : sess'[t] = IF t = s THEN [user |-> u, era |-> req[h].era, late |-> b]
                                 ELSE sess[t]
  BY <1>1 DEF Typed, Tables
<1>5. ASSUME NEW v, Ending(v) PROVE Ending(v)'
  <2>1. CASE v \in halfway
    BY <1>2, <2>1 DEF Ending
  <2>2. CASE \E g \in Handlers : EndsSessions(req[g]) /\ req[g].user = v
    <3>1. PICK g \in Handlers : EndsSessions(req[g]) /\ req[g].user = v
      BY <2>2
    <3>2. EndsSessions(req'[g]) /\ req'[g].user = v
      BY <1>2, <1>3, <3>1 DEF EndsSessions
    <3> QED
      BY <3>2 DEF Ending, EndsSessions
  <2> QED
    BY <1>5, <2>1, <2>2 DEF Ending
<1>6. ASSUME NEW t \in Sids PROVE Held(t)'
  <2>1. CASE t = s
    <3>1. sess'[t].user = u /\ sess'[t].era = req[h].era /\ sess'[t].late = b
      BY <1>4, <2>1
    <3>2. sess'[t].era = era'[u] \/ sess'[t].late
      BY <1>1, <1>2, <3>1
    <3> QED
      BY <1>2, <3>1, <3>2 DEF Held
  <2>2. CASE t # s
    <3>1. sess'[t] = sess[t]
      BY <1>4, <2>2
    <3> QED
      BY <1>2, <1>5, <3>1 DEF Held, SessionsHeld
  <2> QED
    BY <2>1, <2>2
<1>7. ASSUME NEW g \in Handlers, NEW t \in Sids, req'[g].pc = "remove",
             sess'[t] # NoSession, sess'[t].user = req'[g].user
      PROVE  sess'[t].late
  <2>1. req'[g] = req[g]
    BY <1>3, <1>7 DEF Idle
  <2>2. CASE t = s
    <3>1. BeingDeleted(u)
      BY <1>4, <1>7, <2>1, <2>2 DEF BeingDeleted
    <3>2. b
      BY <1>1, <3>1
    <3>3. sess'[t].late = b
      BY <1>4, <2>2
    <3> QED
      BY <3>2, <3>3
  <2>3. CASE t # s
    BY <1>4, <1>7, <2>1, <2>3 DEF SessionsHeld, Leaving
  <2> QED
    BY <2>2, <2>3
<1> QED
  BY <1>6, <1>7 DEF SessionsHeld, Leaving

LEMMA HeldEnds ==
  ASSUME Typed, SessionsHeld, NEW h \in Handlers,
         \/ Drop(h, "drop", "grant") \/ Drop(h, "dropGone", "remove")
         \/ DropOthers(h) \/ DropOff(h)
  PROVE  SessionsHeld'
<1>1. PICK u \in Ids : /\ u = req[h].user /\ u # 0 /\ NoSession.user = 0
                       /\ UNCHANGED era /\ halfway' = halfway \ {u}
  BY DEF Drop, DropOthers, DropOff, At, Typed, Jobs, Made, Ids, NoSession
<1>2. CASE Drop(h, "drop", "grant") \/ Drop(h, "dropGone", "remove") \/ DropOff(h)
  <2>1. \A s \in Sids : sess'[s] = IF s # NoSid /\ sess[s].user = u THEN NoSession ELSE sess[s]
    BY <1>1, <1>2 DEF Drop, DropOff, Without
  <2>2. \A s \in Sids : sess'[s] = NoSession \/ (sess'[s] = sess[s] /\ sess[s].user # u)
    BY <2>1
  <2>3. \A s \in Sids : sess'[s].user # u
    BY <1>1, <2>2
  <2>4. Ends(h) \/ \E p \in {"grant", "remove", "dropGone"} : Goes(h, p)
    BY <1>2 DEF Drop, DropOff, Proceeds, AfterOff
  <2>5. PICK n : req' = [req EXCEPT ![h] = n] /\ (n.pc = "remove" => n.user = u)
    <3>1. CASE Ends(h)
      <4>1. req' = [req EXCEPT ![h] = Idle] /\ Idle.pc # "remove"
        BY <3>1 DEF Ends, Idle
      <4> QED
        BY <4>1
    <3>2. ASSUME NEW p \in {"grant", "remove", "dropGone"}, Goes(h, p)
          PROVE  \E n : req' = [req EXCEPT ![h] = n] /\ (n.pc = "remove" => n.user = u)
      <4> DEFINE m == [req[h] EXCEPT !.pc = p]
      <4>1. m.user = u /\ req' = [req EXCEPT ![h] = m]
        BY <1>1, <3>2, Moved DEF Goes, Typed, Places
      <4> HIDE DEF m
      <4> QED
        BY <4>1
    <3> QED
      BY <2>4, <3>1, <3>2
  <2>6. \A s \in Sids : \/ sess'[s] = NoSession
                        \/ sess'[s] = sess[s] /\ sess[s].user # u
                        \/ /\ sess[s].user = u /\ sess'[s].user = u
                           /\ sess'[s].era = era[u] /\ sess'[s].late = sess[s].late
    BY <2>2
  <2>7. Leaving(h)'
    BY <1>1, <2>3, <2>5 DEF Leaving, Typed, Jobs
  <2> QED
    BY <1>1, <2>5, <2>6, <2>7, HeldDrop
<1>3. CASE DropOthers(h)
  <2> DEFINE x == req[h].sid
  <2>1. \A s \in Sids : sess'[s] = IF s = x /\ sess[s].user = u
                                   THEN [sess[s] EXCEPT !.era = era[u]]
                                   ELSE IF s # x /\ sess[s].user = u THEN NoSession ELSE sess[s]
    BY <1>1, <1>3 DEF DropOthers, Without
  <2>2. ASSUME NEW s \in Sids
        PROVE  \/ sess'[s] = NoSession
               \/ sess'[s] = sess[s] /\ sess[s].user # u
               \/ /\ sess[s].user = u /\ sess'[s].user = u
                  /\ sess'[s].era = era[u] /\ sess'[s].late = sess[s].late
    <3>1. sess[s] \in Session
      BY DEF Typed, Tables
    <3>2. CASE s = x /\ sess[s].user = u
      BY <2>1, <3>1, <3>2 DEF Session
    <3>3. CASE ~(s = x /\ sess[s].user = u)
      BY <2>1, <3>3
    <3> QED
      BY <3>2, <3>3
  <2>3. req' = [req EXCEPT ![h] = Idle] /\ Idle.pc # "remove"
    BY <1>3 DEF DropOthers, Ends, Idle
  <2>4. Leaving(h)'
    BY <2>3 DEF Leaving, Typed, Jobs
  <2> QED
    BY <1>1, <2>2, <2>3, <2>4, HeldDrop
<1> QED
  BY <1>2, <1>3

LEMMA HeldOlder ==
  ASSUME Typed, SessionsHeld, NEW h \in Handlers,
         SetPassword(h) \/ SetOff(h) \/ Remove(h)
  PROVE  SessionsHeld'
<1> DEFINE u == req[h].user
           w == req[h].want
<1>1. /\ u \in Ids /\ UNCHANGED <<sess, halfway>>
      /\ req[h].pc \in {"password", "off", "remove"} /\ ~EndsSessions(req[h])
  BY DEF SetPassword, SetOff, Remove, At, Typed, Jobs, Made, tables, EndsSessions
<1>2. CASE Remove(h)
  <2>1. req' = [req EXCEPT ![h] = Idle] /\ Idle.pc # "remove" /\ req[h].pc = "remove"
        /\ era' = [era EXCEPT ![u] = @ + 1]
    BY <1>2 DEF Remove, Ends, Idle, At
  <2> QED
    BY <1>1, <2>1, HeldAge
<1>3. ASSUME NEW n, req' = [req EXCEPT ![h] = n], n.user = u, n.pc # "remove",
             \/ UNCHANGED era
             \/ era' = [era EXCEPT ![u] = @ + 1] /\ EndsSessions(n)
      PROVE  SessionsHeld'
  <2>1. CASE UNCHANGED era
    BY <1>1, <1>3, <2>1, HeldMove
  <2>2. CASE era' = [era EXCEPT ![u] = @ + 1] /\ EndsSessions(n)
    BY <1>1, <1>3, <2>2, HeldAge
  <2> QED
    BY <1>3, <2>1, <2>2
<1>4. CASE SetPassword(h)
  <2> DEFINE p == IF req[h].on = NoItem THEN "keep" ELSE "used"
             e == [req[h] EXCEPT !.pc = p, !.era = era[u] + 1]
             g == [req[h] EXCEPT !.pc = p]
  <2>1. req[h] \in Job
    BY DEF Typed, Jobs
  <2>2. e.pc = p /\ e.user = u /\ g.pc = p /\ g.user = u /\ p \in {"keep", "used"}
    BY <2>1 DEF Job
  <2>3. \/ req' = [req EXCEPT ![h] = e] /\ era' = [era EXCEPT ![u] = @ + 1]
        \/ req' = [req EXCEPT ![h] = g] /\ UNCHANGED era
    BY <1>4 DEF SetPassword, Goes, Typed, Jobs
  <2> HIDE DEF e, g
  <2>4. EndsSessions(e)
    BY <2>2 DEF EndsSessions
  <2> QED
    BY <1>3, <2>2, <2>3, <2>4
<1>5. CASE SetOff(h)
  <2>1. \/ UNCHANGED era
        \/ era' = [era EXCEPT ![u] = @ + 1] /\ w.off = "yes"
    BY <1>5 DEF SetOff
  <2>2. \/ Ends(h) /\ w.off # "yes"
        \/ Goes(h, "dropGone") /\ w.off # "yes"
        \/ Goes(h, "dropOff")
    BY <1>5 DEF SetOff, Proceeds, AfterOff
  <2>3. CASE w.off # "yes"
    BY <1>1, <2>1, <2>2, <2>3, HeldGoes DEF Places
  <2>4. CASE w.off = "yes"
    <3> DEFINE n == [req[h] EXCEPT !.pc = "dropOff"]
    <3>1. n.pc = "dropOff" /\ n.user = u /\ req' = [req EXCEPT ![h] = n]
      BY <2>2, <2>4, Moved DEF Goes, Typed, Places
    <3> HIDE DEF n
    <3>2. EndsSessions(n)
      BY <3>1 DEF EndsSessions
    <3> QED
      BY <1>3, <2>1, <3>1, <3>2
  <2> QED
    BY <2>3, <2>4
<1> QED
  BY <1>2, <1>4, <1>5

(* Sessions that only go, and nothing else.                                *)
LEMMA HeldFewer ==
  ASSUME Typed, SessionsHeld, UNCHANGED <<req, era, halfway>>,
         \A s \in Sids : sess'[s] = sess[s] \/ sess'[s] = NoSession
  PROVE  SessionsHeld'
<1>1. \A v : Ending(v) => Ending(v)'
  BY DEF Ending, EndsSessions
<1>2. \A s \in Sids : Held(s)'
  BY <1>1 DEF SessionsHeld, Held
<1>3. \A h \in Handlers : Leaving(h)'
  BY DEF SessionsHeld, Leaving
<1> QED
  BY <1>2, <1>3 DEF SessionsHeld

LEMMA HeldStep == Typed /\ SessionsHeld /\ [Next]_vars => SessionsHeld'
<1> SUFFICES ASSUME Typed, SessionsHeld, [Next]_vars PROVE SessionsHeld'
  OBVIOUS
<1>1. CASE UNCHANGED <<req, era, halfway, sess>>
  BY <1>1, HeldFewer
<1>2. ASSUME NEW s \in Sids, SignOut(s) \/ RevokeOthers(s) PROVE SessionsHeld'
  <2>1. UNCHANGED <<req, era, halfway>>
    BY <1>2 DEF SignOut, RevokeOthers, ghosts
  <2>2. \A t \in Sids : sess'[t] = sess[t] \/ sess'[t] = NoSession
    BY <1>2 DEF SignOut, RevokeOthers, Without, Typed, Tables
  <2> QED
    BY <2>1, <2>2, HeldFewer
<1>3. ASSUME NEW s \in Sids, NEW r \in Roles, Create(s, r) PROVE SessionsHeld'
  BY <1>1, <1>3 DEF Create, ghosts
<1>4. ASSUME NEW s \in Sids, NEW i \in Invites, Revoke(s, i) \/ \E r \in Roles : Mint(s, i, r)
      PROVE  SessionsHeld'
  BY <1>1, <1>4 DEF Revoke, Mint, ghosts
<1>5. CASE UNCHANGED vars \/ Repair
  BY <1>1, <1>5 DEF vars, tables, ghosts, Repair
<1> QED
  BY <1>2, <1>3, <1>4, <1>5, Steps, HeldBegin, HeldThen, HeldGrant, HeldEnds, HeldOlder

(* "Whoever held the old password holds nothing now": no session outlives  *)
(* a new password or the end of its account, but the one that asked and    *)
(* those of a sign-in that came after (drop_user_sessions() in auth.py and *)
(* its uses in server.py).                                                 *)
THEOREM OldSessionsEnd == Spec => []EndedStaysEnded
<1>1. Init => SessionsHeld
  BY DEF Init, SessionsHeld, Held, Leaving, Idle
<1>2. SessionsHeld => EndedStaysEnded
  BY DEF SessionsHeld, Held, EndedStaysEnded
<1> QED
  BY <1>1, <1>2, HeldStep, AlwaysTyped, PTL DEF Spec

-----------------------------------------------------------------------------
(* Links and invites.                                                      *)

(* The other requests never come to a place that makes a link or takes a   *)
(* seat.                                                                   *)
Busy == {"link", "join", "seat", "joined", "method"}

LEMMA Aside ==
  ASSUME Typed, NEW h \in Handlers,
         \/ \E u \in Ids : AskLogin(h, u)
         \/ AskSetup(h)
         \/ \E s \in Sids : AskPassword(h, s)
         \/ \E l \in Links : AskComplete(h, l)
         \/ \E s \in Sids, u \in Ids : AskReset(h, s, u)
         \/ \E s \in Sids, u \in Ids, w \in Changes : AskUpdate(h, s, u, w)
         \/ Grant(h) \/ Found(h) \/ SetRoot(h)
         \/ SetPassword(h) \/ UseLink(h) \/ Drop(h, "drop", "grant") \/ DropOthers(h)
         \/ MakeLink(h) \/ Method(h)
         \/ SetRole(h) \/ SetOff(h) \/ DropOff(h)
         \/ Drop(h, "dropGone", "remove") \/ Remove(h) \/ Dies(h)
  PROVE  \E n : req' = [req EXCEPT ![h] = n] /\ n.pc \notin Busy
<1> DEFINE Fits(n) == req' = [req EXCEPT ![h] = n] /\ n.pc \notin Busy
<1> HIDE DEF Fits
<1> SUFFICES \E n : Fits(n)
  BY DEF Fits
<1>1. ASSUME NEW r, Begin(h, r), r.pc \notin Busy PROVE \E n : Fits(n)
  BY <1>1 DEF Begin, Fits
<1>2. CASE Ends(h)
  <2>1. Fits(Idle)
    BY <1>2 DEF Ends, Idle, Busy, Fits
  <2> QED
    BY <2>1
<1>3. ASSUME NEW p \in Places \ Busy, Goes(h, p) PROVE \E n : Fits(n)
  <2> DEFINE n == [req[h] EXCEPT !.pc = p]
  <2>1. Fits(n)
    BY <1>3, Moved DEF Goes, Typed, Fits
  <2> QED
    BY <2>1
<1>4. CASE \/ \E u \in Ids : AskLogin(h, u)
           \/ \E s \in Sids : AskPassword(h, s)
           \/ \E l \in Links : AskComplete(h, l)
           \/ \E s \in Sids, u \in Ids : AskReset(h, s, u)
  <2>1. PICK r : Begin(h, r) /\ r.pc \in {"grant", "password", "clear"}
    BY <1>4, Asks
  <2> QED
    BY <1>1, <2>1 DEF Busy
<1>5. CASE AskSetup(h)
  <2> DEFINE r == [Idle EXCEPT !.pc = "found"]
  <2>1. Begin(h, r) /\ r.pc = "found"
    BY <1>5 DEF AskSetup, Idle
  <2> HIDE DEF r
  <2> QED
    BY <1>1, <2>1 DEF Busy
<1>6. ASSUME NEW s \in Sids, NEW u \in Ids, NEW w \in Changes, AskUpdate(h, s, u, w)
      PROVE  \E n : Fits(n)
  <2> DEFINE r == [Idle EXCEPT !.pc = Starts(w), !.user = u, !.want = w]
  <2>1. Begin(h, r) /\ r.pc = Starts(w)
    BY <1>6 DEF AskUpdate, Idle
  <2>2. Starts(w) \notin Busy
    BY DEF Starts, AfterRole, AfterOff, Busy
  <2> HIDE DEF r
  <2> QED
    BY <1>1, <2>1, <2>2
<1>7. CASE Found(h)
  <2>1. PICK u \in Ids :
          req' = [req EXCEPT ![h].pc = "root", ![h].user = u, ![h].era = era[u]]
    BY <1>7 DEF Found, Inserts
  <2> DEFINE n == [req[h] EXCEPT !.pc = "root", !.user = u, !.era = era[u]]
  <2>2. req[h] \in Job
    BY DEF Typed, Jobs
  <2>3. Fits(n)
    BY <2>1, <2>2 DEF Job, Typed, Jobs, Busy, Fits
  <2> QED
    BY <2>3
<1>8. CASE SetPassword(h)
  <2> DEFINE p == IF req[h].on = NoItem THEN "keep" ELSE "used"
             e == [req[h] EXCEPT !.pc = p, !.era = era[req[h].user] + 1]
  <2>1. CASE Goes(h, p)
    BY <1>3, <2>1 DEF Places, Busy
  <2>2. CASE req' = [req EXCEPT ![h].pc = p, ![h].era = era[req[h].user] + 1]
    <3>1. req[h] \in Job
      BY DEF Typed, Jobs
    <3>2. Fits(e)
      BY <2>2, <3>1 DEF Job, Typed, Jobs, Busy, Fits
    <3> QED
      BY <3>2
  <2> QED
    BY <1>8, <2>1, <2>2 DEF SetPassword
<1>9. CASE Grant(h) \/ DropOthers(h) \/ MakeLink(h) \/ Remove(h) \/ Dies(h)
  BY <1>2, <1>9 DEF Grant, DropOthers, MakeLink, Remove, Dies
<1>10. CASE SetRoot(h) \/ UseLink(h) \/ Method(h)
            \/ Drop(h, "drop", "grant") \/ Drop(h, "dropGone", "remove")
  <2>1. PICK p \in {"grant", "drop", "remove"} : Goes(h, p)
    BY <1>10 DEF SetRoot, UseLink, Method, Drop
  <2> QED
    BY <1>3, <2>1 DEF Places, Busy
<1>11. CASE SetRole(h) \/ SetOff(h) \/ DropOff(h)
  <2>1. Ends(h) \/ \E p \in {"off", "dropOff", "dropGone"} : Goes(h, p)
    BY <1>11 DEF SetRole, SetOff, DropOff, Proceeds, AfterRole, AfterOff
  <2> QED
    BY <1>2, <1>3, <2>1 DEF Places, Busy
<1>12. CASE \E s \in Sids, u \in Ids, w \in Changes : AskUpdate(h, s, u, w)
  BY <1>6, <1>12
<1> QED
  BY <1>4, <1>5, <1>7, <1>8, <1>9, <1>10, <1>11, <1>12

(* Who is making a link for u.                                             *)
Linking(u) == {h \in Handlers : req[h].pc = "link" /\ req[h].user = u}

LinksCounted ==
  \A u \in Ids : Cardinality(LiveLinks(u)) + Cardinality(Linking(u)) <= Cardinality(Handlers)

LEMMA LinkSets ==
  ASSUME NEW u \in Ids
  PROVE  /\ IsFiniteSet(LiveLinks(u)) /\ Cardinality(LiveLinks(u)) \in Nat
         /\ IsFiniteSet(Linking(u)) /\ Cardinality(Linking(u)) \in Nat
         /\ Cardinality(Handlers) \in Nat /\ Cardinality(Linking(u)) <= Cardinality(Handlers)
<1>1. LiveLinks(u) \subseteq Links /\ Linking(u) \subseteq Handlers
  BY DEF LiveLinks, Linking
<1>2. IsFiniteSet(Links) /\ IsFiniteSet(Handlers)
  BY DEF AccountsAssumption
<1> QED
  BY <1>1, <1>2, FS_Subset, FS_CardinalityType

(* No new link, and nobody new who makes one.                              *)
LEMMA LinksFewer ==
  ASSUME LinksCounted,
         \A l \in Links, u \in Ids :
           links'[l] = [st |-> "live", user |-> u] => links[l] = [st |-> "live", user |-> u],
         \A h \in Handlers : req'[h].pc = "link" => req'[h] = req[h]
  PROVE  LinksCounted'
<1> SUFFICES ASSUME NEW u \in Ids
             PROVE  (Cardinality(LiveLinks(u)) + Cardinality(Linking(u)) <= Cardinality(Handlers))'
  BY DEF LinksCounted, Ids
<1>1. LiveLinks(u)' \subseteq LiveLinks(u) /\ Linking(u)' \subseteq Linking(u)
  BY DEF LiveLinks, Linking
<1>2. /\ Cardinality(LiveLinks(u)') <= Cardinality(LiveLinks(u))
      /\ Cardinality(LiveLinks(u)') \in Nat
      /\ Cardinality(Linking(u)') <= Cardinality(Linking(u)) /\ Cardinality(Linking(u)') \in Nat
  BY <1>1, LinkSets, FS_Subset, FS_CardinalityType
<1>3. Cardinality(LiveLinks(u)) + Cardinality(Linking(u)) <= Cardinality(Handlers)
  BY DEF LinksCounted
<1> QED
  BY <1>2, <1>3, LinkSets

LEMMA Elsewhere ==
  ASSUME Typed, NEW h \in Handlers, NEW n, req' = [req EXCEPT ![h] = n], n.pc # "link"
  PROVE  \A g \in Handlers : req'[g].pc = "link" => req'[g] = req[g]
BY DEF Typed, Jobs

LEMMA LinksClear ==
  ASSUME Typed, LinksCounted, NEW h \in Handlers, ClearLinks(h) PROVE LinksCounted'
<1> DEFINE n == [req[h] EXCEPT !.pc = "link"]
<1>1. n.pc = "link" /\ n.user = req[h].user /\ req' = [req EXCEPT ![h] = n]
  BY Moved DEF ClearLinks, Goes, Typed, Places
<1>2. \A g \in Handlers : req'[g] = IF g = h THEN n ELSE req[g]
  BY <1>1 DEF Typed, Jobs
<1>3. \A l \in Links : links'[l] = IF links[l] = [st |-> "live", user |-> req[h].user]
                                   THEN NoLink ELSE links[l]
  BY DEF ClearLinks
<1> HIDE DEF n
<1> SUFFICES ASSUME NEW u \in Ids
             PROVE  (Cardinality(LiveLinks(u)) + Cardinality(Linking(u)) <= Cardinality(Handlers))'
  BY DEF LinksCounted, Ids
<1>4. CASE u = req[h].user
  <2>1. LiveLinks(u)' = {}
    BY <1>3, <1>4 DEF LiveLinks, NoLink
  <2>2. Linking(u)' \subseteq Handlers
    BY DEF Linking
  <2>3. /\ Cardinality(Linking(u)') <= Cardinality(Handlers) /\ Cardinality(Linking(u)') \in Nat
        /\ Cardinality(Handlers) \in Nat
    BY <2>2, FS_Subset, FS_CardinalityType DEF AccountsAssumption
  <2> QED
    BY <2>1, <2>3, FS_EmptySet
<1>5. CASE u # req[h].user
  <2>1. Linking(u)' \subseteq Linking(u)
    BY <1>1, <1>2, <1>5 DEF Linking
  <2>2. LiveLinks(u)' \subseteq LiveLinks(u)
    BY <1>3, <1>5 DEF LiveLinks, NoLink
  <2>3. /\ Cardinality(LiveLinks(u)') <= Cardinality(LiveLinks(u))
        /\ Cardinality(LiveLinks(u)') \in Nat
        /\ Cardinality(Linking(u)') <= Cardinality(Linking(u)) /\ Cardinality(Linking(u)') \in Nat
    BY <2>1, <2>2, LinkSets, FS_Subset, FS_CardinalityType
  <2>4. Cardinality(LiveLinks(u)) + Cardinality(Linking(u)) <= Cardinality(Handlers)
    BY DEF LinksCounted
  <2> QED
    BY <2>3, <2>4, LinkSets
<1> QED
  BY <1>4, <1>5

LEMMA LinksMake ==
  ASSUME Typed, LinksCounted, NEW h \in Handlers, MakeLink(h) PROVE LinksCounted'
<1>1. PICK l \in Links : /\ links[l].st = "none"
                         /\ links' = [links EXCEPT ![l] = [st |-> "live", user |-> req[h].user]]
  BY DEF MakeLink
<1>2. \A k \in Links : links'[k] = IF k = l THEN [st |-> "live", user |-> req[h].user]
                                   ELSE links[k]
  BY <1>1 DEF Typed, Tables
<1>3. req[h].pc = "link" /\ \A g \in Handlers : req'[g] = IF g = h THEN Idle ELSE req[g]
  BY DEF MakeLink, At, Ends, Typed, Jobs
<1>4. Idle.pc = "idle"
  BY DEF Idle
<1> SUFFICES ASSUME NEW u \in Ids
             PROVE  (Cardinality(LiveLinks(u)) + Cardinality(Linking(u)) <= Cardinality(Handlers))'
  BY DEF LinksCounted, Ids
<1>5. Cardinality(LiveLinks(u)) + Cardinality(Linking(u)) <= Cardinality(Handlers)
  BY DEF LinksCounted
<1>6. CASE u = req[h].user
  <2>1. LiveLinks(u)' = LiveLinks(u) \cup {l} /\ l \notin LiveLinks(u)
    BY <1>1, <1>2, <1>6 DEF LiveLinks
  <2>2. Linking(u)' = Linking(u) \ {h} /\ h \in Linking(u)
    BY <1>3, <1>4, <1>6 DEF Linking
  <2>3. Cardinality(LiveLinks(u)') = Cardinality(LiveLinks(u)) + 1
    BY <2>1, LinkSets, FS_AddElement
  <2>4. Cardinality(Linking(u)') = Cardinality(Linking(u)) - 1
    <3>1. IsFiniteSet(Linking(u))
      BY LinkSets
    <3>2. Cardinality(Linking(u) \ {h}) = Cardinality(Linking(u)) - 1
      BY <3>1, <2>2, FS_RemoveElement
    <3> QED
      BY <3>2, <2>2
  <2> QED
    BY <1>5, <2>3, <2>4, LinkSets
<1>7. CASE u # req[h].user
  <2>1. LiveLinks(u)' = LiveLinks(u)
    BY <1>1, <1>2, <1>7 DEF LiveLinks
  <2>2. Linking(u)' = Linking(u)
    BY <1>3, <1>4, <1>7 DEF Linking
  <2> QED
    BY <1>5, <2>1, <2>2
<1> QED
  BY <1>6, <1>7

(* What a request that has to do with an invite comes to.                  *)
LEMMA SeatSteps ==
  ASSUME Typed, NEW h \in Handlers,
         (\E i \in Invites : AskRedeem(h, i)) \/ Join(h) \/ TakeSeat(h) \/ Joined(h)
  PROVE  \E n : req' = [req EXCEPT ![h] = n] /\ n.pc # "link" /\ (n.pc = "method" => Joined(h))
<1>1. ASSUME NEW i \in Invites, AskRedeem(h, i)
      PROVE  \E n : req' = [req EXCEPT ![h] = n] /\ n.pc # "link" /\ (n.pc = "method" => Joined(h))
  <2>1. PICK r : Begin(h, r) /\ r.pc = "join" /\ r.on = i
    BY <1>1, Redeems
  <2> QED
    BY <2>1 DEF Begin
<1>2. CASE Join(h)
  <2>1. PICK u \in Ids :
          req' = [req EXCEPT ![h].pc = "seat", ![h].user = u, ![h].era = era[u]]
    BY <1>2 DEF Join, Inserts
  <2> DEFINE n == [req[h] EXCEPT !.pc = "seat", !.user = u, !.era = era[u]]
  <2>2. req[h] \in Job
    BY DEF Typed, Jobs
  <2>3. req' = [req EXCEPT ![h] = n] /\ n.pc = "seat"
    BY <2>1, <2>2 DEF Job, Typed, Jobs
  <2> QED
    BY <2>3
<1>3. CASE TakeSeat(h) \/ Joined(h)
  <2>1. PICK p \in {"joined", "method"} : Goes(h, p) /\ (p = "method" => Joined(h))
    BY <1>3 DEF TakeSeat, Joined
  <2> DEFINE n == [req[h] EXCEPT !.pc = p]
  <2>2. req' = [req EXCEPT ![h] = n] /\ n.pc = p
    BY <2>1, Moved DEF Goes, Typed, Places
  <2> QED
    BY <2>1, <2>2
<1> QED
  BY <1>1, <1>2, <1>3

LEMMA LinksStep == Typed /\ LinksCounted /\ [Next]_vars => LinksCounted'
<1> SUFFICES ASSUME Typed, LinksCounted, [Next]_vars PROVE LinksCounted'
  OBVIOUS
<1>1. CASE UNCHANGED <<req, links>>
  <2>1. \A h \in Handlers : req'[h].pc = "link" => req'[h] = req[h]
    BY <1>1
  <2> QED
    BY <1>1, <2>1, LinksFewer
<1>2. ASSUME NEW h \in Handlers, NEW n, req' = [req EXCEPT ![h] = n], n.pc # "link",
             UNCHANGED links
      PROVE  LinksCounted'
  BY <1>2, Elsewhere, LinksFewer
<1>3. ASSUME NEW h \in Handlers, UseLink(h) PROVE LinksCounted'
  <2>1. PICK n : req' = [req EXCEPT ![h] = n] /\ n.pc # "link"
    BY <1>3, Aside DEF Busy
  <2>2. \A l \in Links, u \in Ids :
          links'[l] = [st |-> "live", user |-> u] => links[l] = [st |-> "live", user |-> u]
    BY <1>3 DEF UseLink, Typed, Tables, Link
  <2> QED
    BY <2>1, <2>2, Elsewhere, LinksFewer
<1>4. ASSUME NEW h \in Handlers,
             (\E i \in Invites : AskRedeem(h, i)) \/ Join(h) \/ TakeSeat(h) \/ Joined(h)
      PROVE  LinksCounted'
  <2>1. UNCHANGED links
    BY <1>4 DEF AskRedeem, Begin, tables, Join, Inserts, TakeSeat, Joined
  <2> QED
    BY <1>2, <1>4, <2>1, SeatSteps
<1>5. ASSUME NEW h \in Handlers, NEW r, Begin(h, r) PROVE UNCHANGED links
  BY <1>5 DEF Begin, tables
<1>6. ASSUME NEW h \in Handlers,
         \/ \E u \in Ids : AskLogin(h, u)
         \/ AskSetup(h)
         \/ \E s \in Sids : AskPassword(h, s)
         \/ \E l \in Links : AskComplete(h, l)
         \/ \E s \in Sids, u \in Ids : AskReset(h, s, u)
         \/ \E s \in Sids, u \in Ids, w \in Changes : AskUpdate(h, s, u, w)
         \/ Grant(h) \/ Found(h) \/ SetRoot(h)
         \/ SetPassword(h) \/ Drop(h, "drop", "grant") \/ DropOthers(h)
         \/ Method(h) \/ SetRole(h) \/ SetOff(h) \/ DropOff(h)
         \/ Drop(h, "dropGone", "remove") \/ Remove(h) \/ Dies(h)
      PROVE  LinksCounted'
  <2>1. UNCHANGED links
    BY <1>5, <1>6 DEF AskLogin, AskSetup, AskPassword, AskComplete, AskReset, AskUpdate,
       Grant, Found, SetRoot, Inserts, SetPassword, Drop, DropOthers, Method, SetRole, SetOff,
       DropOff, Remove, Dies, tables
  <2>2. PICK n : req' = [req EXCEPT ![h] = n] /\ n.pc \notin Busy
    BY <1>6, Aside
  <2> QED
    BY <1>2, <2>1, <2>2 DEF Busy
<1>7. CASE \/ UNCHANGED vars \/ Repair
           \/ \E s \in Sids : SignOut(s) \/ RevokeOthers(s) \/ \E r \in Roles : Create(s, r)
           \/ \E s \in Sids, i \in Invites : Revoke(s, i) \/ \E r \in Roles : Mint(s, i, r)
  BY <1>1, <1>7 DEF vars, tables, Repair, SignOut, RevokeOthers, Create, Revoke, Mint
<1> QED
  BY <1>3, <1>4, <1>6, <1>7, Steps, LinksClear, LinksMake

(* "There is only ever one live way in": no account has more live reset    *)
(* links than requests that make them at the same time (create_reset() in  *)
(* auth.py).                                                               *)
THEOREM ResetLinksAreFew == Spec => []LinksAreBounded
<1>1. Init => LinksCounted
  <2> SUFFICES ASSUME Init, NEW u \in Ids
               PROVE  Cardinality(LiveLinks(u)) + Cardinality(Linking(u)) <= Cardinality(Handlers)
    BY DEF LinksCounted
  <2>1. LiveLinks(u) = {} /\ Linking(u) = {}
    BY DEF Init, LiveLinks, NoLink, Linking, Idle
  <2> QED
    BY <2>1, LinkSets, FS_EmptySet
<1>2. LinksCounted => LinksAreBounded
  BY LinkSets DEF LinksCounted, LinksAreBounded
<1> QED
  BY <1>1, <1>2, LinksStep, AlwaysTyped, PTL DEF Spec

(* Who took a seat of i, recorded or about to be, and who is about to take *)
(* one.                                                                    *)
Seated(i) == {u \in Ids : \/ <<i, u>> \in joins \/ u = invites[i].first
                          \/ \E h \in Handlers : /\ req[h].pc = "joined" /\ req[h].on = i
                                                 /\ req[h].user = u}
Pending(i) == {h \in Handlers : req[h].pc \in {"join", "seat"} /\ req[h].on = i}

Redeeming == {"join", "seat", "joined", "method"}

SeatFor(i) ==
  /\ Cardinality(Seated(i)) <= invites[i].uses
  /\ invites[i].uses + Cardinality(Pending(i)) < Seats + Cardinality(Handlers)
  /\ ~invites[i].here => invites[i].uses = 0

SeatsCounted ==
  /\ \A i \in Invites : SeatFor(i)
  /\ \A h \in Handlers : req[h].pc \in Redeeming => invites[req[h].on].here

LEMMA SeatSets ==
  ASSUME NEW i
  PROVE  /\ IsFiniteSet(Seated(i)) /\ Cardinality(Seated(i)) \in Nat
         /\ IsFiniteSet(Pending(i)) /\ Cardinality(Pending(i)) \in Nat
         /\ Cardinality(Handlers) \in Nat /\ Cardinality(Pending(i)) <= Cardinality(Handlers)
<1>1. Seated(i) \subseteq 1..MaxUser /\ Pending(i) \subseteq Handlers
  BY DEF Seated, Pending, Ids
<1>2. IsFiniteSet(1..MaxUser) /\ IsFiniteSet(Handlers)
  BY FS_Interval DEF AccountsAssumption
<1> QED
  BY <1>1, <1>2, FS_Subset, FS_CardinalityType

(* No seat more, and nobody new who took one or is about to.               *)
LEMMA SeatsFewer ==
  ASSUME Typed, NEW i \in Invites, SeatFor(i), Seated(i)' \subseteq Seated(i),
         Pending(i)' \subseteq Pending(i), invites'[i].uses = invites[i].uses,
         ~invites'[i].here => ~invites[i].here
  PROVE  SeatFor(i)'
<1>1. /\ Cardinality(Seated(i)') <= Cardinality(Seated(i)) /\ Cardinality(Seated(i)') \in Nat
      /\ Cardinality(Pending(i)') <= Cardinality(Pending(i)) /\ Cardinality(Pending(i)') \in Nat
  BY SeatSets, FS_Subset, FS_CardinalityType
<1>2. invites[i].uses \in Nat /\ Seats \in Nat
  BY DEF Typed, Tables, Invite, AccountsAssumption
<1> QED
  BY <1>1, <1>2, SeatSets DEF SeatFor

LEMMA SeatsStay ==
  ASSUME Typed, SeatsCounted, UNCHANGED joins,
         \A i \in Invites : /\ invites'[i].uses = invites[i].uses
                            /\ invites'[i].first = invites[i].first
                            /\ invites'[i].here = invites[i].here,
         \A h \in Handlers : req'[h].pc \in Redeeming => req'[h] = req[h]
  PROVE  SeatsCounted'
<1>1. ASSUME NEW i \in Invites PROVE SeatFor(i)'
  <2>1. Seated(i)' \subseteq Seated(i)
    BY DEF Seated, Redeeming
  <2>2. Pending(i)' \subseteq Pending(i)
    BY DEF Pending, Redeeming
  <2>3. SeatFor(i)
    BY DEF SeatsCounted
  <2> QED
    BY <2>1, <2>2, <2>3, SeatsFewer
<1>2. ASSUME NEW h \in Handlers, req'[h].pc \in Redeeming PROVE invites'[req'[h].on].here
  <2>1. req'[h] = req[h] /\ req[h].on \in Invites
    BY <1>2 DEF Typed, Jobs, Made, Redeeming
  <2> QED
    BY <1>2, <2>1 DEF SeatsCounted
<1> QED
  BY <1>1, <1>2 DEF SeatsCounted, Redeeming

LEMMA SeatsAsk ==
  ASSUME Typed, SeatsCounted, NEW h \in Handlers, NEW j \in Invites, AskRedeem(h, j)
  PROVE  SeatsCounted'
<1>1. PICK r : Begin(h, r) /\ r.pc = "join" /\ r.on = j
  BY Redeems
<1>2. \A g \in Handlers : req'[g] = IF g = h THEN r ELSE req[g]
  BY <1>1 DEF Begin, Typed, Jobs
<1>3. UNCHANGED <<invites, joins>> /\ invites[j].here /\ invites[j].uses < Seats
  BY <1>1 DEF AskRedeem, InviteOk, Begin, tables
<1>4. ASSUME NEW i \in Invites PROVE SeatFor(i)'
  <2>1. Seated(i)' \subseteq Seated(i)
    BY <1>1, <1>2, <1>3 DEF Seated
  <2>2. SeatFor(i)
    BY DEF SeatsCounted
  <2>3. CASE i # j
    <3>1. Pending(i)' \subseteq Pending(i)
      BY <1>1, <1>2, <2>3 DEF Pending
    <3> QED
      BY <1>3, <2>1, <2>2, <3>1, SeatsFewer
  <2>4. CASE i = j
    <3>1. Pending(i)' \subseteq Handlers
      BY DEF Pending
    <3>2. /\ Cardinality(Pending(i)') <= Cardinality(Handlers)
          /\ Cardinality(Pending(i)') \in Nat
          /\ Cardinality(Seated(i)') <= Cardinality(Seated(i))
          /\ Cardinality(Seated(i)') \in Nat
      BY <2>1, <3>1, SeatSets, FS_Subset, FS_CardinalityType DEF AccountsAssumption
    <3>3. invites[i].uses \in Nat /\ Seats \in Nat
      BY DEF Typed, Tables, Invite, AccountsAssumption
    <3> QED
      BY <1>3, <2>2, <2>4, <3>2, <3>3, SeatSets DEF SeatFor
  <2> QED
    BY <2>3, <2>4
<1>5. \A g \in Handlers : req'[g].pc \in Redeeming => invites'[req'[g].on].here
  BY <1>1, <1>2, <1>3 DEF SeatsCounted
<1> QED
  BY <1>4, <1>5 DEF SeatsCounted, Redeeming

LEMMA SeatsJoin ==
  ASSUME Typed, SeatsCounted, NEW h \in Handlers, Join(h) PROVE SeatsCounted'
<1>1. PICK u \in Ids :
        req' = [req EXCEPT ![h].pc = "seat", ![h].user = u, ![h].era = era[u]]
  BY DEF Join, Inserts
<1> DEFINE n == [req[h] EXCEPT !.pc = "seat", !.user = u, !.era = era[u]]
<1>2. req' = [req EXCEPT ![h] = n] /\ n.pc = "seat" /\ n.on = req[h].on
  <2>1. req[h] \in Job
    BY DEF Typed, Jobs
  <2> QED
    BY <1>1, <2>1 DEF Job, Typed, Jobs
<1>3. \A g \in Handlers : req'[g] = IF g = h THEN n ELSE req[g]
  BY <1>2 DEF Typed, Jobs
<1> HIDE DEF n
<1>4. UNCHANGED <<invites, joins>> /\ req[h].pc = "join"
  BY DEF Join, Inserts, At
<1>5. ASSUME NEW i \in Invites PROVE SeatFor(i)'
  <2>1. Seated(i)' \subseteq Seated(i)
    BY <1>2, <1>3, <1>4 DEF Seated
  <2>2. Pending(i)' \subseteq Pending(i)
    BY <1>2, <1>3, <1>4 DEF Pending
  <2>3. SeatFor(i)
    BY DEF SeatsCounted
  <2> QED
    BY <1>4, <2>1, <2>2, <2>3, SeatsFewer
<1>6. \A g \in Handlers : req'[g].pc \in Redeeming => invites'[req'[g].on].here
  BY <1>2, <1>3, <1>4 DEF SeatsCounted, Redeeming
<1> QED
  BY <1>5, <1>6 DEF SeatsCounted, Redeeming

LEMMA SeatsTake ==
  ASSUME Typed, SeatsCounted, NEW h \in Handlers, TakeSeat(h) PROVE SeatsCounted'
<1> DEFINE n == [req[h] EXCEPT !.pc = "joined"]
           j == req[h].on
           u == req[h].user
<1>1. n.pc = "joined" /\ n.on = j /\ n.user = u /\ req' = [req EXCEPT ![h] = n]
  BY Moved DEF TakeSeat, Goes, Typed, Places
<1>2. \A g \in Handlers : req'[g] = IF g = h THEN n ELSE req[g]
  BY <1>1 DEF Typed, Jobs
<1> HIDE DEF n
<1>3. req[h].pc = "seat" /\ j \in Invites /\ u \in Ids /\ UNCHANGED joins
  BY DEF TakeSeat, At, Typed, Jobs, Made
<1>4. PICK f \in {u, invites[j].first} :
        invites' = [invites EXCEPT ![j].uses = @ + 1, ![j].first = f]
  BY DEF TakeSeat
<1>5. /\ invites'[j].uses = invites[j].uses + 1 /\ invites'[j].first = f
      /\ invites'[j].here = invites[j].here
      /\ \A i \in Invites \ {j} : invites'[i] = invites[i]
  BY <1>3, <1>4 DEF Typed, Tables, Invite
<1>6. ASSUME NEW i \in Invites PROVE SeatFor(i)'
  <2>1. SeatFor(i)
    BY DEF SeatsCounted
  <2>2. CASE i # j
    <3>1. Seated(i)' \subseteq Seated(i)
      BY <1>1, <1>2, <1>3, <1>5, <2>2 DEF Seated
    <3>2. Pending(i)' \subseteq Pending(i)
      BY <1>1, <1>2, <2>2 DEF Pending
    <3> QED
      BY <1>5, <2>1, <2>2, <3>1, <3>2, SeatsFewer
  <2>3. CASE i = j
    <3>1. Seated(i)' \subseteq Seated(i) \cup {u}
      BY <1>1, <1>2, <1>3, <1>5, <2>3 DEF Seated
    <3>2. Pending(i)' = Pending(i) \ {h} /\ h \in Pending(i)
      BY <1>1, <1>2, <1>3, <2>3 DEF Pending
    <3>3. Cardinality(Pending(i)') = Cardinality(Pending(i)) - 1
      <4>1. IsFiniteSet(Pending(i))
        BY SeatSets
      <4>2. Cardinality(Pending(i) \ {h}) = Cardinality(Pending(i)) - 1
        BY <4>1, <3>2, FS_RemoveElement
      <4> QED
        BY <4>2, <3>2
    <3>4. /\ IsFiniteSet(Seated(i) \cup {u})
          /\ Cardinality(Seated(i) \cup {u}) <= Cardinality(Seated(i)) + 1
          /\ Cardinality(Seated(i) \cup {u}) \in Nat
      <4>1. IsFiniteSet(Seated(i)) /\ Cardinality(Seated(i)) \in Nat
        BY SeatSets
      <4>2. /\ IsFiniteSet(Seated(i) \cup {u})
            /\ \/ Cardinality(Seated(i) \cup {u}) = Cardinality(Seated(i))
               \/ Cardinality(Seated(i) \cup {u}) = Cardinality(Seated(i)) + 1
        BY <4>1, FS_AddElement
      <4> QED
        BY <4>1, <4>2
    <3>5. Cardinality(Seated(i)') <= Cardinality(Seated(i) \cup {u})
          /\ Cardinality(Seated(i)') \in Nat
      BY <3>1, <3>4, FS_Subset, FS_CardinalityType
    <3>6. invites[i].here /\ invites'[i].here
      BY <1>3, <1>5, <2>3 DEF SeatsCounted, Redeeming
    <3>7. invites[i].uses \in Nat /\ Seats \in Nat
      BY DEF Typed, Tables, Invite, AccountsAssumption
    <3> QED
      BY <1>5, <2>1, <2>3, <3>3, <3>4, <3>5, <3>6, <3>7, SeatSets DEF SeatFor
  <2> QED
    BY <2>2, <2>3
<1>7. \A i \in Invites : invites'[i].here = invites[i].here
  BY <1>5
<1>8. ASSUME NEW g \in Handlers, req'[g].pc \in Redeeming PROVE invites'[req'[g].on].here
  <2>1. req'[g].on = req[g].on /\ req[g].pc \in Redeeming
    BY <1>1, <1>2, <1>3, <1>8 DEF Redeeming
  <2>2. req[g].on \in Invites /\ invites[req[g].on].here
    BY <2>1 DEF SeatsCounted, Typed, Jobs, Made, Redeeming
  <2> QED
    BY <1>7, <2>1, <2>2
<1> QED
  BY <1>6, <1>8 DEF SeatsCounted, Redeeming

LEMMA SeatsJoined ==
  ASSUME Typed, SeatsCounted, NEW h \in Handlers, Joined(h) PROVE SeatsCounted'
<1> DEFINE n == [req[h] EXCEPT !.pc = "method"]
<1>1. n.pc = "method" /\ n.on = req[h].on /\ req' = [req EXCEPT ![h] = n]
  BY Moved DEF Joined, Goes, Typed, Places
<1>2. \A g \in Handlers : req'[g] = IF g = h THEN n ELSE req[g]
  BY <1>1 DEF Typed, Jobs
<1> HIDE DEF n
<1>3. /\ req[h].pc = "joined" /\ UNCHANGED invites
      /\ joins' = joins \cup {<<req[h].on, req[h].user>>}
  BY DEF Joined, At
<1>4. ASSUME NEW i \in Invites PROVE SeatFor(i)'
  <2>1. Seated(i)' \subseteq Seated(i)
    BY <1>1, <1>2, <1>3 DEF Seated
  <2>2. Pending(i)' \subseteq Pending(i)
    BY <1>1, <1>2, <1>3 DEF Pending
  <2>3. SeatFor(i)
    BY DEF SeatsCounted
  <2> QED
    BY <1>3, <2>1, <2>2, <2>3, SeatsFewer
<1>5. \A g \in Handlers : req'[g].pc \in Redeeming => invites'[req'[g].on].here
  BY <1>1, <1>2, <1>3 DEF SeatsCounted, Redeeming
<1> QED
  BY <1>4, <1>5 DEF SeatsCounted, Redeeming

LEMMA SeatsRepair == ASSUME Typed, SeatsCounted, Repair PROVE SeatsCounted'
<1>1. /\ UNCHANGED <<invites, req>>
      /\ \A i \in Invites, u \in Ids : <<i, u>> \in joins' => <<i, u>> \in joins \/ u = invites[i].first
  BY DEF Repair
<1>2. ASSUME NEW i \in Invites PROVE SeatFor(i)'
  <2>1. Seated(i)' \subseteq Seated(i)
    BY <1>1 DEF Seated
  <2>2. Pending(i)' \subseteq Pending(i)
    BY <1>1 DEF Pending
  <2>3. SeatFor(i)
    BY DEF SeatsCounted
  <2> QED
    BY <1>1, <2>1, <2>2, <2>3, SeatsFewer
<1> QED
  BY <1>1, <1>2 DEF SeatsCounted

LEMMA SeatsMint ==
  ASSUME Typed, SeatsCounted, NEW s \in Sids, NEW j \in Invites, NEW role \in Roles,
         Mint(s, j, role)
  PROVE  SeatsCounted'
<1>1. /\ UNCHANGED <<joins, req>> /\ ~invites[j].here
      /\ invites'[j].uses = 0 /\ invites'[j].first = 0 /\ invites'[j].here
      /\ \A i \in Invites \ {j} : invites'[i] = invites[i]
  BY DEF Mint, NoInvite, Typed, Tables
<1>2. ASSUME NEW i \in Invites PROVE SeatFor(i)'
  <2>1. SeatFor(i)
    BY DEF SeatsCounted
  <2>2. Pending(i)' = Pending(i)
    BY <1>1 DEF Pending
  <2>3. 0 \notin Ids
    BY DEF Ids
  <2>4. CASE i # j
    <3>1. Seated(i)' \subseteq Seated(i)
      BY <1>1, <2>4 DEF Seated
    <3> QED
      BY <1>1, <2>1, <2>2, <2>4, <3>1, SeatsFewer
  <2>5. CASE i = j
    <3>1. invites[i].uses = 0
      BY <1>1, <2>1, <2>5 DEF SeatFor
    <3>2. Seated(i)' \subseteq Seated(i)
      BY <1>1, <2>3, <2>5 DEF Seated
    <3>3. Cardinality(Seated(i)') <= Cardinality(Seated(i)) /\ Cardinality(Seated(i)') \in Nat
      BY <3>2, SeatSets, FS_Subset, FS_CardinalityType
    <3> QED
      BY <1>1, <2>1, <2>2, <2>5, <3>1, <3>3, SeatSets DEF SeatFor
  <2> QED
    BY <2>4, <2>5
<1>3. \A g \in Handlers : req'[g].pc \in Redeeming => invites'[req'[g].on].here
  BY <1>1 DEF SeatsCounted, Typed, Jobs, Made, Redeeming
<1> QED
  BY <1>2, <1>3 DEF SeatsCounted, Redeeming

LEMMA SeatsStep == Typed /\ SeatsCounted /\ [Next]_vars => SeatsCounted'
<1> SUFFICES ASSUME Typed, SeatsCounted, [Next]_vars PROVE SeatsCounted'
  OBVIOUS
<1>1. CASE UNCHANGED <<req, joins, invites>>
  BY <1>1, SeatsStay
<1>2. ASSUME NEW s \in Sids, NEW j \in Invites, Revoke(s, j) PROVE SeatsCounted'
  <2>1. \A i \in Invites : /\ invites'[i].uses = invites[i].uses
                           /\ invites'[i].first = invites[i].first
                           /\ invites'[i].here = invites[i].here
    BY <1>2 DEF Revoke, Typed, Tables, Invite
  <2>2. UNCHANGED <<req, joins>>
    BY <1>2 DEF Revoke
  <2> QED
    BY <2>1, <2>2, SeatsStay
<1>3. ASSUME NEW h \in Handlers, NEW r, Begin(h, r) PROVE UNCHANGED <<invites, joins>>
  BY <1>3 DEF Begin, tables
<1>4. ASSUME NEW h \in Handlers, NEW n, req' = [req EXCEPT ![h] = n], n.pc \notin Redeeming,
             UNCHANGED <<invites, joins>>
      PROVE  SeatsCounted'
  <2>1. \A g \in Handlers : req'[g].pc \in Redeeming => req'[g] = req[g]
    BY <1>4 DEF Typed, Jobs
  <2> QED
    BY <1>4, <2>1, SeatsStay
<1>5. ASSUME NEW h \in Handlers,
         \/ \E u \in Ids : AskLogin(h, u)
         \/ AskSetup(h)
         \/ \E s \in Sids : AskPassword(h, s)
         \/ \E l \in Links : AskComplete(h, l)
         \/ \E s \in Sids, u \in Ids : AskReset(h, s, u)
         \/ \E s \in Sids, u \in Ids, w \in Changes : AskUpdate(h, s, u, w)
         \/ Grant(h) \/ Found(h) \/ SetRoot(h)
         \/ SetPassword(h) \/ UseLink(h) \/ Drop(h, "drop", "grant") \/ DropOthers(h)
         \/ MakeLink(h) \/ Method(h) \/ SetRole(h) \/ SetOff(h) \/ DropOff(h)
         \/ Drop(h, "dropGone", "remove") \/ Remove(h) \/ Dies(h)
      PROVE  SeatsCounted'
  <2>1. UNCHANGED <<invites, joins>>
    BY <1>3, <1>5 DEF AskLogin, AskSetup, AskPassword, AskComplete, AskReset, AskUpdate,
       Grant, Found, SetRoot, Inserts, SetPassword, UseLink, Drop, DropOthers, MakeLink,
       Method, SetRole, SetOff, DropOff, Remove, Dies, tables
  <2>2. PICK n : req' = [req EXCEPT ![h] = n] /\ n.pc \notin Busy
    BY <1>5, Aside
  <2> QED
    BY <1>4, <2>1, <2>2 DEF Busy, Redeeming
<1>6. ASSUME NEW h \in Handlers, ClearLinks(h) PROVE SeatsCounted'
  <2> DEFINE n == [req[h] EXCEPT !.pc = "link"]
  <2>1. n.pc = "link" /\ req' = [req EXCEPT ![h] = n]
    BY <1>6, Moved DEF ClearLinks, Goes, Typed, Places
  <2> HIDE DEF n
  <2> QED
    BY <1>4, <1>6, <2>1 DEF ClearLinks, Redeeming
<1>7. CASE \/ UNCHANGED vars
           \/ \E s \in Sids : SignOut(s) \/ RevokeOthers(s) \/ \E r \in Roles : Create(s, r)
  BY <1>1, <1>7 DEF vars, tables, SignOut, RevokeOthers, Create
<1> QED
  BY <1>2, <1>5, <1>6, <1>7, Steps, SeatsAsk, SeatsJoin, SeatsTake, SeatsJoined, SeatsRepair,
     SeatsMint

(* Who joined on a link is recorded before its account says so.            *)
Recorded ==
  /\ \A h \in Handlers : req[h].pc = "method" => <<req[h].on, req[h].user>> \in joins
  /\ \A u \in Ids : users[u].via # NoItem => <<users[u].via, u>> \in joins

LEMMA RecordedStays ==
  ASSUME Typed, Recorded, joins \subseteq joins',
         \A u \in Ids : \/ users'[u].via \in {users[u].via, NoItem}
                        \/ <<users'[u].via, u>> \in joins,
         \A h \in Handlers : \/ req'[h].pc # "method" \/ req'[h] = req[h]
                             \/ <<req'[h].on, req'[h].user>> \in joins'
  PROVE  Recorded'
<1>1. \A h \in Handlers : req'[h].pc = "method" => <<req'[h].on, req'[h].user>> \in joins'
  BY DEF Recorded
<1>2. \A u \in Ids : users'[u].via # NoItem => <<users'[u].via, u>> \in joins'
  BY DEF Recorded
<1> QED
  BY <1>1, <1>2 DEF Recorded

LEMMA RecordedVia ==
  ASSUME Typed, Recorded, [Next]_vars
  PROVE  \A u \in Ids : \/ users'[u].via \in {users[u].via, NoItem}
                        \/ <<users'[u].via, u>> \in joins
<1> DEFINE Fits == \A u \in Ids : \/ users'[u].via \in {users[u].via, NoItem}
                                  \/ <<users'[u].via, u>> \in joins
<1>1. CASE UNCHANGED users
  BY <1>1
<1>2. ASSUME NEW x \in Ids, NEW row, row.via = NoItem, users' = [users EXCEPT ![x] = row]
      PROVE  Fits
  BY <1>2 DEF Typed, Tables
<1>3. \A role : NewUser(role).via = NoItem
  BY DEF NewUser
<1>4. ASSUME NEW h \in Handlers, Found(h) \/ Join(h) PROVE Fits
  BY <1>2, <1>3, <1>4 DEF Found, Join, Inserts
<1>5. ASSUME NEW s \in Sids, NEW r \in Roles, Create(s, r) PROVE Fits
  BY <1>2, <1>3, <1>5 DEF Create
<1>6. ASSUME NEW h \in Handlers, Remove(h) PROVE Fits
  <2>1. req[h].user \in Ids /\ NoUser.via = NoItem
    BY <1>6 DEF Remove, At, Typed, Jobs, Made, NoUser
  <2> QED
    BY <1>2, <1>6, <2>1 DEF Remove
<1>7. ASSUME NEW h \in Handlers, SetRole(h) PROVE Fits
  <2>1. \/ users' = users
        \/ users' = [users EXCEPT ![req[h].user].role = req[h].want.role]
    BY <1>7 DEF SetRole
  <2> QED
    BY <2>1 DEF Typed, Tables, UserRow
<1>8. ASSUME NEW h \in Handlers, SetOff(h) PROVE Fits
  <2>1. \/ users' = users
        \/ users' = [users EXCEPT ![req[h].user].off = (req[h].want.off = "yes")]
    BY <1>8 DEF SetOff
  <2> QED
    BY <2>1 DEF Typed, Tables, UserRow
<1>9. ASSUME NEW h \in Handlers, Method(h) PROVE Fits
  <2>1. <<req[h].on, req[h].user>> \in joins
    BY <1>9 DEF Method, At, Recorded
  <2>2. \/ users' = users
        \/ users' = [users EXCEPT ![req[h].user].via = req[h].on]
    BY <1>9 DEF Method
  <2>3. users \in [Ids -> UserRow]
    BY DEF Typed, Tables
  <2>4. \A u \in Ids : users'[u].via = users[u].via
                        \/ (u = req[h].user /\ users'[u].via = req[h].on)
    BY <2>2, <2>3, SMTT(30) DEF UserRow
  <2>5. \A u \in Ids : (u = req[h].user /\ users'[u].via = req[h].on) =>
                          <<users'[u].via, u>> \in joins
    BY <2>1
  <2> QED
    BY <2>4, <2>5
<1>10. ASSUME NEW h \in Handlers, NEW r, Begin(h, r) PROVE UNCHANGED users
  BY <1>10 DEF Begin, tables
<1>11. ASSUME NEW h \in Handlers,
         \/ \E u \in Ids : AskLogin(h, u)
         \/ AskSetup(h)
         \/ \E s \in Sids : AskPassword(h, s)
         \/ \E l \in Links : AskComplete(h, l)
         \/ \E s \in Sids, u \in Ids : AskReset(h, s, u)
         \/ \E i \in Invites : AskRedeem(h, i)
         \/ \E s \in Sids, u \in Ids, w \in Changes : AskUpdate(h, s, u, w)
      PROVE  Fits
  BY <1>1, <1>10, <1>11 DEF AskLogin, AskSetup, AskPassword, AskComplete, AskReset, AskRedeem,
     AskUpdate
<1>12. ASSUME NEW h \in Handlers,
         \/ Grant(h) \/ SetRoot(h)
         \/ SetPassword(h) \/ UseLink(h) \/ Drop(h, "drop", "grant") \/ DropOthers(h)
         \/ ClearLinks(h) \/ MakeLink(h) \/ TakeSeat(h) \/ Joined(h) \/ DropOff(h)
         \/ Drop(h, "dropGone", "remove") \/ Dies(h)
      PROVE  Fits
  BY <1>1, <1>12 DEF Grant, SetRoot, SetPassword, UseLink, Drop, DropOthers, ClearLinks,
     MakeLink, TakeSeat, Joined, DropOff, Dies, tables
<1>13. ASSUME \/ UNCHANGED vars \/ Repair
              \/ \E s \in Sids : SignOut(s) \/ RevokeOthers(s)
              \/ \E s \in Sids, i \in Invites : Revoke(s, i) \/ \E r \in Roles : Mint(s, i, r)
       PROVE  Fits
  BY <1>1, <1>13 DEF vars, tables, Repair, SignOut, RevokeOthers, Revoke, Mint
<1> HIDE DEF Fits
<1>14. Fits
  BY <1>4, <1>5, <1>6, <1>7, <1>8, <1>9, <1>11, <1>12, <1>13, Steps
<1> QED
  BY <1>14 DEF Fits

LEMMA RecordedStep == Typed /\ Recorded /\ [Next]_vars => Recorded'
<1> SUFFICES ASSUME Typed, Recorded, [Next]_vars PROVE Recorded'
  OBVIOUS
<1>1. CASE UNCHANGED <<req, joins>>
  <2>1. \A h \in Handlers : req'[h] = req[h]
    BY <1>1
  <2> QED
    BY <1>1, <2>1, RecordedStays, RecordedVia
<1>2. ASSUME NEW h \in Handlers, NEW n, req' = [req EXCEPT ![h] = n],
             joins \subseteq joins', n.pc = "method" => <<n.on, n.user>> \in joins'
      PROVE  Recorded'
  <2>1. \A g \in Handlers : \/ req'[g].pc # "method" \/ req'[g] = req[g]
                            \/ <<req'[g].on, req'[g].user>> \in joins'
    BY <1>2 DEF Typed, Jobs
  <2> QED
    BY <1>2, <2>1, RecordedStays, RecordedVia
<1>3. ASSUME NEW h \in Handlers, Joined(h) PROVE Recorded'
  <2> DEFINE n == [req[h] EXCEPT !.pc = "method"]
  <2>1. n.on = req[h].on /\ n.user = req[h].user /\ req' = [req EXCEPT ![h] = n]
    BY <1>3, Moved DEF Joined, Goes, Typed, Places
  <2> HIDE DEF n
  <2>2. joins' = joins \cup {<<req[h].on, req[h].user>>}
    BY <1>3 DEF Joined
  <2> QED
    BY <1>2, <2>1, <2>2
<1>4. ASSUME NEW h \in Handlers,
             (\E i \in Invites : AskRedeem(h, i)) \/ Join(h) \/ TakeSeat(h), ~Joined(h)
      PROVE  Recorded'
  <2>1. PICK n : req' = [req EXCEPT ![h] = n] /\ (n.pc = "method" => Joined(h))
    BY <1>4, SeatSteps
  <2>2. UNCHANGED joins
    BY <1>4 DEF AskRedeem, Begin, Join, Inserts, TakeSeat, tables
  <2> QED
    BY <1>2, <1>4, <2>1, <2>2
<1>5. ASSUME NEW h \in Handlers, NEW r, Begin(h, r) PROVE UNCHANGED joins
  BY <1>5 DEF Begin, tables
<1>6. ASSUME NEW h \in Handlers,
         \/ \E u \in Ids : AskLogin(h, u)
         \/ AskSetup(h)
         \/ \E s \in Sids : AskPassword(h, s)
         \/ \E l \in Links : AskComplete(h, l)
         \/ \E s \in Sids, u \in Ids : AskReset(h, s, u)
         \/ \E s \in Sids, u \in Ids, w \in Changes : AskUpdate(h, s, u, w)
         \/ Grant(h) \/ Found(h) \/ SetRoot(h)
         \/ SetPassword(h) \/ UseLink(h) \/ Drop(h, "drop", "grant") \/ DropOthers(h)
         \/ MakeLink(h) \/ Method(h) \/ SetRole(h) \/ SetOff(h) \/ DropOff(h)
         \/ Drop(h, "dropGone", "remove") \/ Remove(h) \/ Dies(h)
      PROVE  Recorded'
  <2>1. UNCHANGED joins
    BY <1>5, <1>6 DEF AskLogin, AskSetup, AskPassword, AskComplete, AskReset, AskUpdate,
       Grant, Found, SetRoot, Inserts, SetPassword, UseLink, Drop, DropOthers, MakeLink,
       Method, SetRole, SetOff, DropOff, Remove, Dies, tables
  <2>2. PICK n : req' = [req EXCEPT ![h] = n] /\ n.pc \notin Busy
    BY <1>6, Aside
  <2> QED
    BY <1>2, <2>1, <2>2 DEF Busy
<1>7. ASSUME NEW h \in Handlers, ClearLinks(h) PROVE Recorded'
  <2> DEFINE n == [req[h] EXCEPT !.pc = "link"]
  <2>1. n.pc = "link" /\ req' = [req EXCEPT ![h] = n]
    BY <1>7, Moved DEF ClearLinks, Goes, Typed, Places
  <2> HIDE DEF n
  <2> QED
    BY <1>2, <1>7, <2>1 DEF ClearLinks
<1>8. CASE Repair
  <2>1. joins \subseteq joins' /\ \A h \in Handlers : req'[h] = req[h]
    BY <1>8 DEF Repair
  <2> QED
    BY <2>1, RecordedStays, RecordedVia
<1>9. CASE \/ UNCHANGED vars
           \/ \E s \in Sids : SignOut(s) \/ RevokeOthers(s) \/ \E r \in Roles : Create(s, r)
           \/ \E s \in Sids, i \in Invites : Revoke(s, i) \/ \E r \in Roles : Mint(s, i, r)
  BY <1>1, <1>9 DEF vars, tables, SignOut, RevokeOthers, Create, Revoke, Mint
<1> QED
  BY <1>3, <1>4, <1>6, <1>7, <1>8, <1>9, Steps

(* Who joined on a link is recorded as its joiner, and no more join than   *)
(* it has seats, but for requests that saw it open together (redeem() and  *)
(* record_use() in auth.py).                                               *)
THEOREM InvitesAddUp == Spec => []InvitesAreAccountedFor
<1>1. Init => SeatsCounted /\ Recorded
  <2> SUFFICES ASSUME Init PROVE SeatsCounted /\ Recorded
    OBVIOUS
  <2>1. \A h \in Handlers : req[h].pc = "idle"
    BY DEF Init, Idle
  <2>2. \A u \in Ids : users[u].via = NoItem
    BY DEF Init, NoUser, NewUser
  <2>3. Recorded
    BY <2>1, <2>2 DEF Recorded
  <2>4. ASSUME NEW i \in Invites PROVE SeatFor(i)
    <3>1. invites[i].uses = 0 /\ invites[i].first = 0 /\ ~invites[i].here /\ joins = {}
      BY DEF Init, NoInvite
    <3>2. Seated(i) = {} /\ Pending(i) = {}
      BY <2>1, <3>1 DEF Seated, Pending, Ids
    <3>3. Cardinality({}) = 0 /\ Seats \in Nat \ {0}
      BY FS_EmptySet DEF AccountsAssumption
    <3> QED
      BY <3>1, <3>2, <3>3, SeatSets DEF SeatFor
  <2> QED
    BY <2>1, <2>3, <2>4 DEF SeatsCounted, Redeeming
<1>2. Typed /\ SeatsCounted /\ Recorded => InvitesAreAccountedFor
  <2> SUFFICES ASSUME Typed, SeatsCounted, Recorded PROVE InvitesAreAccountedFor
    OBVIOUS
  <2>1. ASSUME NEW i \in Invites
        PROVE  Cardinality(Joiners(i)) <= invites[i].uses
               /\ invites[i].uses < Seats + Cardinality(Handlers)
    <3>1. SeatFor(i) /\ invites[i].uses \in Nat /\ Seats \in Nat
      BY DEF SeatsCounted, Typed, Tables, Invite, AccountsAssumption
    <3>2. Joiners(i) \subseteq Seated(i)
      BY DEF Joiners, Seated
    <3>3. Cardinality(Joiners(i)) <= Cardinality(Seated(i)) /\ Cardinality(Joiners(i)) \in Nat
      BY <3>2, SeatSets, FS_Subset, FS_CardinalityType
    <3> QED
      BY <3>1, <3>3, SeatSets DEF SeatFor
  <2>2. \A u \in Ids : users[u].via # NoItem => u \in Joiners(users[u].via)
    BY DEF Recorded, Joiners
  <2> QED
    BY <2>1, <2>2 DEF InvitesAreAccountedFor
<1> QED
  BY <1>1, <1>2, SeatsStep, RecordedStep, AlwaysTyped, PTL DEF Spec
=============================================================================
