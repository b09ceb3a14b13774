--------------------------- MODULE DeliveryProofs ---------------------------
(***************************************************************************)
(* Proofs about Delivery: its state keeps its type, the outbox and the     *)
(* live process implement OutboxPromise, and what is said is said in a     *)
(* channel that was joined, for any number of networks, users, channels,   *)
(* lines and faults.                                                       *)
(***************************************************************************)
EXTENDS Delivery, FiniteSetTheorems, TLAPS

USE SendersAssumption, DeliveryAssumption

-----------------------------------------------------------------------------
(* The Senders.                                                            *)

(* What a JOIN leaves of a record: the sets of channels may have grown.    *)
LEMMA AskShape ==
  ASSUME NEW s \in SenderRec, NEW c \in Chans, NEW t \in AsksToJoin(s, c)
  PROVE  /\ t \in SenderRec /\ t.key = s.key /\ t.holder = s.holder
         /\ t.warm = s.warm /\ t.wish = s.wish
<1>1. PICK i \in {s.inside \cup {c}, s.inside} :
        t = [s EXCEPT !.asked = @ \cup {c}, !.inside = i]
  BY DEF AsksToJoin
<1>2. i \in SUBSET Chans
  BY DEF SenderRec
<1> QED
  BY <1>1, <1>2 DEF SenderRec

LEMMA NoteShape ==
  ASSUME NEW s \in SenderRec, NEW c \in Chans
  PROVE  /\ Noted(s, c) \in SenderRec /\ Noted(s, c).key = s.key
         /\ Noted(s, c).holder = s.holder
         /\ Noted(s, c).warm = s.warm /\ Noted(s, c).wish = s.wish
  BY DEF Noted, SenderRec

LEMMA JoinShape ==
  ASSUME NEW s \in SenderRec, NEW c \in Chans, NEW t \in AfterJoin(s, c)
  PROVE  /\ t \in SenderRec
         /\ t.key = s.key /\ t.holder = s.holder /\ t.warm = s.warm /\ t.wish = s.wish
<1>1. CASE c \in s.joined
  BY <1>1 DEF AfterJoin
<1>2. CASE c \notin s.joined
  <2>1. PICK u \in AsksToJoin(s, c) : t = Noted(u, c)
    BY <1>2 DEF AfterJoin
  <2>2. /\ u \in SenderRec /\ u.key = s.key /\ u.holder = s.holder
        /\ u.warm = s.warm /\ u.wish = s.wish
    BY AskShape
  <2> QED
    BY <2>1, <2>2, NoteShape
<1> QED
  BY <1>1, <1>2

(* The other pieces of say(), ensure() and close() keep a Sender's type    *)
(* and never change whose Sender it is.                                    *)
LEMMA SenderShapes ==
  ASSUME NEW s \in SenderRec, NEW k \in Key, NEW who \in {"main", "warm"}
  PROVE  /\ Unused \in SenderRec /\ Unused.warm = "none" /\ Unused.holder = "none"
         /\ New(k) \in SenderRec /\ New(k).key = k
         /\ New(k).warm = "none" /\ New(k).holder = "none"
         /\ Locked(s, who) \in SenderRec /\ Locked(s, who).key = s.key
         /\ Released(s) \in SenderRec /\ Released(s).key = s.key
         /\ Closed(s) \in SenderRec /\ Closed(s).key = s.key
<1>1. Unused \in SenderRec /\ Unused.warm = "none" /\ Unused.holder = "none"
  BY DEF Unused, SenderRec
<1>2. /\ New(k) \in SenderRec /\ New(k).key = k
      /\ New(k).warm = "none" /\ New(k).holder = "none"
  BY <1>1 DEF New, SenderRec
<1>3. Locked(s, who) \in SenderRec /\ Locked(s, who).key = s.key
  BY DEF Locked, SenderRec
<1>4. Released(s) \in SenderRec /\ Released(s).key = s.key
  BY DEF Released, SenderRec
<1>5. Closed(s) \in SenderRec /\ Closed(s).key = s.key
  BY DEF Closed, SenderRec
<1> QED
  BY <1>1, <1>2, <1>3, <1>4, <1>5

(* Replacing one Sender by one of the same key keeps the invariants of the *)
(* table.                                                                  *)
LEMMA ReplaceSender ==
  ASSUME SendersTypeOK, SendersInv, NEW o \in Objs, NEW t \in SenderRec,
         t.key = sender[o].key,
         t.warm # "none" => t.wish \in Chans,
         t.holder = "warm" => t.warm = "inside",
         senders' = senders, sender' = [sender EXCEPT ![o] = t]
  PROVE  SendersTypeOK' /\ SendersInv'
  BY DEF SendersTypeOK, SendersInv, TableMatches, WarmHasWish

(* connect() and the pre-open thread keep the table and the Senders typed. *)
LEMMA WarmKeepsType ==
  ASSUME SendersTypeOK, SendersInv, NEW o \in Objs,
         WarmStep(o) \/ Dial(o) \/ Register(o)
  PROVE  SendersTypeOK' /\ SendersInv'
<1>1. sender[o] \in SenderRec
  BY DEF SendersTypeOK
<1>2. /\ sender[o].warm # "none" => sender[o].wish \in Chans
      /\ sender[o].holder = "warm" => sender[o].warm = "inside"
  BY DEF SendersInv, WarmHasWish
<1>3. ASSUME NEW s \in SenderRec, s.key = sender[o].key, WarmEnds(o, s)
      PROVE  SendersTypeOK' /\ SendersInv'
  <2> DEFINE t == [Released(s) EXCEPT !.warm = "none", !.wish = NoChan]
  <2>1. t \in SenderRec /\ t.key = sender[o].key /\ t.warm = "none" /\ t.holder = "none"
    BY <1>3 DEF Released, SenderRec
  <2> HIDE DEF t
  <2>2. sender' = [sender EXCEPT ![o] = IF InTable(o) THEN t ELSE Unused]
        /\ senders' = senders
    BY <1>3 DEF WarmEnds, t
  <2>3. CASE InTable(o)
    BY <2>1, <2>2, <2>3, ReplaceSender
  <2>4. CASE ~InTable(o)
    <3>1. Unused \in SenderRec /\ Unused.warm = "none" /\ Unused.holder = "none"
      BY DEF Unused, SenderRec
    <3> QED
      BY <2>2, <2>4, <3>1
         DEF SendersTypeOK, SendersInv, TableMatches, WarmHasWish, InTable
  <2> QED
    BY <2>3, <2>4
<1>4. CASE WarmLock(o)
  <2> DEFINE t == [Locked(sender[o], "warm") EXCEPT !.warm = "inside"]
  <2>1. /\ t \in SenderRec /\ t.key = sender[o].key
        /\ t.warm = "inside" /\ t.wish = sender[o].wish
    BY <1>1 DEF Locked, SenderRec
  <2>2. sender' = [sender EXCEPT ![o] = t] /\ senders' = senders
    BY <1>4 DEF WarmLock
  <2>3. t.wish \in Chans
    BY <1>2, <1>4, <2>1 DEF WarmLock
  <2> HIDE DEF t
  <2> QED
    BY <2>1, <2>2, <2>3, ReplaceSender
<1>5. CASE WarmJoins(o)
  <2>1. CASE sender[o].wish \in sender[o].joined
    BY <1>1, <1>3, <1>5, <2>1 DEF WarmJoins
  <2>2. CASE sender[o].wish \notin sender[o].joined
    <3>1. sender[o].wish \in Chans
      BY <1>2, <1>5 DEF WarmJoins
    <3>2. PICK s \in AsksToJoin(sender[o], sender[o].wish) :
            sender' = [sender EXCEPT ![o] = [s EXCEPT !.step = "note"]]
      BY <1>5, <2>2 DEF WarmJoins
    <3>3. /\ s \in SenderRec /\ s.key = sender[o].key /\ s.holder = sender[o].holder
          /\ s.warm = sender[o].warm /\ s.wish = sender[o].wish
      BY <1>1, <3>1, AskShape
    <3> DEFINE t == [s EXCEPT !.step = "note"]
    <3>4. /\ t \in SenderRec /\ t.key = s.key /\ t.holder = s.holder
          /\ t.warm = s.warm /\ t.wish = s.wish
      BY <3>3 DEF SenderRec
    <3>5. sender' = [sender EXCEPT ![o] = t] /\ senders' = senders
      BY <1>5, <2>2, <3>2 DEF WarmJoins
    <3> HIDE DEF t
    <3> QED
      BY <1>2, <3>3, <3>4, <3>5, ReplaceSender
  <2> QED
    BY <2>1, <2>2
<1>9. CASE WarmNotes(o)
  <2>1. sender[o].wish \in Chans
    BY <1>2, <1>9 DEF WarmNotes
  <2>2. /\ Noted(sender[o], sender[o].wish) \in SenderRec
        /\ Noted(sender[o], sender[o].wish).key = sender[o].key
    BY <1>1, <2>1, NoteShape
  <2> QED
    BY <1>3, <1>9, <2>2 DEF WarmNotes
<1>6. CASE WarmFails(o)
  BY <1>1, <1>3, <1>6 DEF WarmFails
<1>7. CASE Dial(o)
  <2> DEFINE t == [sender[o] EXCEPT !.sock = "open", !.step = "register",
                                    !.asked = {}, !.inside = {}]
  <2>1. /\ t \in SenderRec /\ t.key = sender[o].key /\ t.wish = sender[o].wish
        /\ t.warm = sender[o].warm /\ t.holder = sender[o].holder
    BY <1>1 DEF SenderRec
  <2>2. sender' = [sender EXCEPT ![o] = t] /\ senders' = senders
    BY <1>1, <1>7 DEF Dial, SendersTypeOK, SenderRec
  <2> HIDE DEF t
  <2> QED
    BY <1>2, <2>1, <2>2, ReplaceSender
<1>8. CASE Register(o)
  <2> DEFINE t == [sender[o] EXCEPT !.ready = TRUE, !.step = "talk"]
  <2>1. /\ t \in SenderRec /\ t.key = sender[o].key /\ t.wish = sender[o].wish
        /\ t.warm = sender[o].warm /\ t.holder = sender[o].holder
    BY <1>1 DEF SenderRec
  <2>2. sender' = [sender EXCEPT ![o] = t] /\ senders' = senders
    BY <1>1, <1>8 DEF Register, SendersTypeOK, SenderRec
  <2> HIDE DEF t
  <2> QED
    BY <1>2, <2>1, <2>2, ReplaceSender
<1> QED
  BY <1>4, <1>5, <1>6, <1>7, <1>8, <1>9 DEF WarmStep

(* The network can only end a connection or take a client out of a room.   *)
LEMMA NetworkKeepsType ==
  ASSUME SendersTypeOK, SendersInv, NetworkStep
  PROVE  SendersTypeOK' /\ SendersInv'
<1>1. ASSUME NEW o \in Objs, Drop(o) PROVE SendersTypeOK' /\ SendersInv'
  <2> DEFINE t == [sender[o] EXCEPT !.sock = "dead", !.inside = {}]
  <2>1. sender[o] \in SenderRec
    BY DEF SendersTypeOK
  <2>2. /\ t \in SenderRec /\ t.key = sender[o].key /\ t.wish = sender[o].wish
        /\ t.warm = sender[o].warm /\ t.holder = sender[o].holder
    BY <2>1 DEF SenderRec
  <2>3. sender' = [sender EXCEPT ![o] = t] /\ senders' = senders
    BY <1>1 DEF Drop, SendersTypeOK, SenderRec
  <2> HIDE DEF t
  <2> QED
    BY <2>2, <2>3, ReplaceSender DEF SendersInv, WarmHasWish
<1>2. ASSUME NEW o \in Objs, NEW c \in Chans, Kick(o, c)
      PROVE SendersTypeOK' /\ SendersInv'
  <2> DEFINE t == [sender[o] EXCEPT !.inside = @ \ {c}]
  <2>1. sender[o] \in SenderRec
    BY DEF SendersTypeOK
  <2>2. /\ t \in SenderRec /\ t.key = sender[o].key /\ t.wish = sender[o].wish
        /\ t.warm = sender[o].warm /\ t.holder = sender[o].holder
    BY <2>1 DEF SenderRec
  <2>3. sender' = [sender EXCEPT ![o] = t] /\ senders' = senders
    BY <1>2 DEF Kick, SendersTypeOK, SenderRec
  <2> HIDE DEF t
  <2> QED
    BY <2>2, <2>3, ReplaceSender DEF SendersInv, WarmHasWish
<1> QED
  BY <1>1, <1>2 DEF NetworkStep

-----------------------------------------------------------------------------
(* The main thread.                                                        *)

(* The first row of the batch can be addressed, and the Sender in hand is  *)
(* one of the objects in the table.                                        *)
LEMMA InHand ==
  ASSUME IInv, Saying
  PROVE  /\ cur \in Row /\ cur \in batch /\ outbox[cur].state # "none"
         /\ pc \in {"say", "mark"} => Pending(cur)
         /\ outbox[cur].chan \in Chans /\ outbox[cur].nick \in Nicks
         /\ using \in Objs /\ sender[using] \in SenderRec
         /\ sender[using].key \in Key /\ senders[sender[using].key] = using
<1>1. cur \in batch /\ using \in Objs
  BY DEF IInv, RowInHand
<1>2. /\ cur \in Row /\ outbox[cur].state # "none"
      /\ pc \in {"say", "mark"} => Pending(cur)
  BY <1>1 DEF IInv, TypeOK, HandIsOpen, Saying, Pending
<1> QED
  BY <1>1, <1>2 DEF IInv, TypeOK, SendersTypeOK, RowInHand, LinesAreAddressed

(* Between rows none is in hand, so the next one is unanswered.            *)
LEMMA NextIsPending ==
  ASSUME IInv, pc = "row", NEW r \in Row, NextRow(r)
  PROVE  /\ Pending(r) /\ r \in batch /\ (\A q \in batch : r <= q)
         /\ outbox[r].chan \in Chans /\ outbox[r].nick \in Nicks
<1>1. cur = NoRow /\ r # NoRow
  BY DEF IInv, RowInHand, Saying, NoRow, Row
<1>2. r \in batch /\ \A q \in batch : r <= q
  BY DEF NextRow
<1>3. Pending(r)
  BY <1>1, <1>2 DEF IInv, BatchIsOldest
<1> QED
  BY <1>2, <1>3 DEF IInv, LinesAreAddressed, Pending

(* Every step of the main thread keeps the table and the Senders typed.    *)
LEMMA BeginSayKeepsSenders ==
  ASSUME IInv, NEW r \in Row, NEW n \in Nets, NEW o \in Objs, BeginSay(r, n, o)
  PROVE  /\ SendersTypeOK' /\ SendersInv'
         /\ sender'[o].key = <<n, outbox[r].nick>>
<1> DEFINE k == <<n, outbox[r].nick>>
<1>1. k \in Key
  BY NextIsPending DEF BeginSay, Key
<1>2. SendersTypeOK /\ SendersInv
  BY DEF IInv, TypeOK
<1>3. sender[o] \in SenderRec
  BY <1>2 DEF SendersTypeOK
<1> HIDE DEF k
<1>4. CASE senders[k] = o
  <2>1. /\ senders' = [senders EXCEPT ![k] = o]
        /\ \/ sender' = [sender EXCEPT ![o] = Locked(@, "main")]
           \/ senders[k] = NoObj
    BY DEF BeginSay, k
  <2>2. senders' = senders /\ sender' = [sender EXCEPT ![o] = Locked(sender[o], "main")]
    BY <1>1, <1>2, <1>4, <2>1 DEF SendersTypeOK
  <2>3. /\ Locked(sender[o], "main") \in SenderRec
        /\ Locked(sender[o], "main").key = sender[o].key
        /\ Locked(sender[o], "main").warm = sender[o].warm
        /\ Locked(sender[o], "main").wish = sender[o].wish
        /\ Locked(sender[o], "main").holder = "main"
    BY <1>3 DEF Locked, SenderRec
  <2>4. sender[o].key = k
    BY <1>1, <1>2, <1>4 DEF SendersInv, TableMatches
  <2>5. SendersTypeOK' /\ SendersInv'
    BY <1>2, <2>2, <2>3, ReplaceSender DEF SendersInv, WarmHasWish
  <2> QED
    BY <1>2, <2>2, <2>3, <2>4, <2>5 DEF k, SendersTypeOK
<1>5. CASE senders[k] # o
  <2>1. /\ senders[k] = NoObj /\ sender[o] = Unused
        /\ sender' = [sender EXCEPT ![o] = Locked(New(k), "main")]
        /\ senders' = [senders EXCEPT ![k] = o]
    BY <1>5 DEF BeginSay, k
  <2> DEFINE t == Locked(New(k), "main")
  <2>2. /\ t \in SenderRec /\ t.key = k /\ t.warm = "none" /\ t.holder = "main"
    <3>1. /\ New(k) \in SenderRec /\ New(k).key = k /\ New(k).warm = "none"
      BY <1>1, <1>3, SenderShapes
    <3> QED
      BY <3>1 DEF Locked, SenderRec
  <2>3. sender[o].key = NoKey
    BY <2>1 DEF Unused
  <2> HIDE DEF t
  <2>4. sender' = [sender EXCEPT ![o] = t]
    BY <2>1 DEF t
  <2>5. SendersTypeOK'
    BY <1>1, <1>2, <2>1, <2>2, <2>4 DEF SendersTypeOK
  <2>6. TableMatches'
    BY <1>1, <1>2, <2>1, <2>2, <2>3, <2>4
       DEF SendersTypeOK, SendersInv, TableMatches, Key
  <2>7. WarmHasWish'
    BY <1>2, <2>2, <2>4 DEF SendersTypeOK, SendersInv, WarmHasWish
  <2> QED
    BY <1>2, <2>2, <2>4, <2>5, <2>6, <2>7 DEF SendersInv, SendersTypeOK, k
<1> QED
  BY <1>4, <1>5

LEMMA SayKeepsSenders ==
  ASSUME IInv, SayConnects \/ SayWrites \/ SayRaises
  PROVE  SendersTypeOK' /\ SendersInv'
<1>1. SendersTypeOK /\ SendersInv
  BY DEF IInv, TypeOK
<1>2. Saying
  BY DEF SayConnects, SayWrites, SayRaises, Saying
<1>3. using \in Objs /\ sender[using] \in SenderRec /\ outbox[cur].chan \in Chans
  BY <1>2, InHand
<1>4. CASE SayConnects
  BY <1>1, <1>3, <1>4, WarmKeepsType DEF SayConnects
<1>5. ASSUME SayWrites \/ SayRaises
      PROVE  \E s \in {sender[using], Noted(sender[using], outbox[cur].chan)}
                        \cup AfterJoin(sender[using], outbox[cur].chan) :
               sender' = [sender EXCEPT ![using] = Released(s)] /\ senders' = senders
  <2>1. CASE SayWrites
    BY <2>1 DEF SayWrites
  <2>2. CASE SayRaises
    BY <2>2 DEF SayRaises
  <2> QED
    BY <1>5, <2>1, <2>2
<1>6. CASE SayWrites \/ SayRaises
  <2>1. PICK s \in {sender[using], Noted(sender[using], outbox[cur].chan)}
                    \cup AfterJoin(sender[using], outbox[cur].chan) :
               sender' = [sender EXCEPT ![using] = Released(s)] /\ senders' = senders
    BY <1>5, <1>6
  <2>2. /\ s \in SenderRec /\ s.key = sender[using].key
        /\ s.warm = sender[using].warm /\ s.wish = sender[using].wish
    BY <1>3, JoinShape, NoteShape
  <2>3. /\ Released(s) \in SenderRec /\ Released(s).key = s.key
        /\ Released(s).warm = s.warm /\ Released(s).wish = s.wish
        /\ Released(s).holder = "none"
    BY <2>2 DEF Released, SenderRec
  <2> QED
    BY <1>1, <1>3, <2>1, <2>2, <2>3, ReplaceSender DEF SendersInv, WarmHasWish
<1> QED
  BY <1>4, <1>6

LEMMA MarkFailedKeepsSenders ==
  ASSUME IInv, MarkFailed
  PROVE  SendersTypeOK' /\ SendersInv'
<1>1. SendersTypeOK /\ SendersInv
  BY DEF IInv, TypeOK
<1>2. /\ using \in Objs /\ sender[using] \in SenderRec
      /\ sender[using].key \in Key /\ senders[sender[using].key] = using
  BY InHand DEF MarkFailed, Saying
<1>3. Unused \in SenderRec /\ Unused.warm = "none" /\ Unused.holder = "none"
  BY DEF Unused, SenderRec
<1>4. /\ senders' = [senders EXCEPT ![sender[using].key] = NoObj]
      /\ \/ sender' = sender
         \/ sender' = [sender EXCEPT ![using] = Unused]
  BY <1>1, <1>2 DEF MarkFailed, SendersTypeOK
<1>5. SendersTypeOK'
  BY <1>1, <1>2, <1>3, <1>4 DEF SendersTypeOK
<1>6. TableMatches'
  BY <1>1, <1>2, <1>4 DEF SendersTypeOK, SendersInv, TableMatches
<1>7. WarmHasWish'
  BY <1>1, <1>2, <1>3, <1>4 DEF SendersTypeOK, SendersInv, WarmHasWish
<1> QED
  BY <1>5, <1>6, <1>7 DEF SendersInv

(* What Prewarm makes: a Sender for each of the keys ks, with its thread.  *)
Made(ks, f) ==
  /\ \A k, l \in ks : k # l => f[k] # f[l]
  /\ senders' = [k \in Key |-> IF k \in ks THEN f[k] ELSE senders[k]]
  /\ sender' = [o \in Objs |->
       IF \E k \in ks : f[k] = o
       THEN LET k == CHOOSE l \in ks : f[l] = o
            IN  [New(k) EXCEPT !.warm = "waiting", !.wish = preopen[k]]
       ELSE sender[o]]

Asked == {k \in Key : /\ preopen[k] # NoChan
                      /\ k[1] \in enabled
                      /\ senders[k] = NoObj}

LEMMA PrewarmMakes ==
  ASSUME Prewarm
  PROVE  \E ks \in SUBSET Asked : \E f \in [ks -> {o \in Objs : sender[o] = Unused}] : Made(ks, f)
BY DEF Prewarm, Made, Asked

LEMMA PrewarmKeepsSenders ==
  ASSUME IInv, Prewarm
  PROVE  SendersTypeOK' /\ SendersInv'
<1>1. SendersTypeOK /\ SendersInv
  BY DEF IInv, TypeOK
<1>10. PICK ks \in SUBSET Asked :
         \E f \in [ks -> {o \in Objs : sender[o] = Unused}] : Made(ks, f)
  BY PrewarmMakes
<1>11. PICK f \in [ks -> {o \in Objs : sender[o] = Unused}] : Made(ks, f)
  BY <1>10
<1>2. Made(ks, f)
  BY <1>11
<1> DEFINE Warmed(k) == [New(k) EXCEPT !.warm = "waiting", !.wish = preopen[k]]
<1>3. ASSUME NEW k \in ks
      PROVE  /\ k \in Key /\ f[k] \in Objs /\ sender[f[k]] = Unused
             /\ Warmed(k) \in SenderRec /\ Warmed(k).key = k
             /\ Warmed(k).warm = "waiting" /\ Warmed(k).holder = "none"
             /\ Warmed(k).wish \in Chans
  <2>1. k \in Key /\ f[k] \in Objs /\ sender[f[k]] = Unused
    BY DEF Asked
  <2>2. preopen[k] \in Chans
    BY DEF IInv, TypeOK, Asked
  <2>3. New(k) \in SenderRec /\ New(k).key = k /\ New(k).holder = "none"
    <3>1. sender[f[k]] \in SenderRec
      BY <1>1, <2>1 DEF SendersTypeOK
    <3> QED
      BY <2>1, <3>1, SenderShapes
  <2> QED
    BY <2>1, <2>2, <2>3 DEF SenderRec
<1> HIDE DEF Warmed
<1>4. ASSUME NEW o \in Objs, NEW k \in ks, f[k] = o
      PROVE  sender'[o] = Warmed(k)
  <2>1. (CHOOSE l \in ks : f[l] = o) = k
    BY <1>2, <1>4 DEF Made
  <2> QED
    BY <1>2, <1>4, <2>1 DEF Warmed, Made
<1>5. ASSUME NEW o \in Objs, \A k \in ks : f[k] # o
      PROVE  sender'[o] = sender[o]
  BY <1>2, <1>5 DEF Made
<1>6. ASSUME NEW o \in Objs PROVE sender'[o] \in SenderRec
  BY <1>1, <1>3, <1>4, <1>5 DEF SendersTypeOK
<1>7. SendersTypeOK'
  <2>1. sender' \in [Objs -> SenderRec]
    <3>1. sender' = [o \in Objs |-> sender'[o]]
      BY <1>2 DEF Made
    <3> QED
      BY <1>6, <3>1
  <2>2. senders' \in [Key -> Objs \cup {NoObj}]
    BY <1>1, <1>2, <1>3 DEF SendersTypeOK, Made
  <2> QED
    BY <2>1, <2>2 DEF SendersTypeOK
<1>8. TableMatches'
  <2> SUFFICES ASSUME NEW k \in Key, senders'[k] # NoObj
               PROVE  sender'[senders'[k]].key = k
    BY DEF TableMatches
  <2>1. CASE k \in ks
    <3>1. senders'[k] = f[k] /\ f[k] \in Objs
      BY <1>2, <1>3, <2>1 DEF Made
    <3> QED
      BY <1>3, <1>4, <2>1, <3>1
  <2>2. CASE k \notin ks
    <3>1. senders'[k] = senders[k] /\ senders[k] \in Objs /\ sender[senders[k]].key = k
      BY <1>1, <1>2, <2>2 DEF SendersTypeOK, SendersInv, TableMatches, Made
    <3>2. \A l \in ks : f[l] # senders[k]
      BY <1>3, <3>1 DEF Unused, Key
    <3> QED
      BY <1>5, <3>1, <3>2
  <2> QED
    BY <2>1, <2>2
<1>9. WarmHasWish'
  BY <1>1, <1>3, <1>4, <1>5 DEF SendersInv, WarmHasWish
<1> QED
  BY <1>7, <1>8, <1>9 DEF SendersInv

LEMMA ReapKeepsSenders ==
  ASSUME IInv, Reap
  PROVE  SendersTypeOK' /\ SendersInv'
<1>1. SendersTypeOK /\ SendersInv
  BY DEF IInv, TypeOK
<1>2. PICK idle \in SUBSET Objs :
        /\ senders' = [k \in Key |-> IF senders[k] \in idle THEN NoObj ELSE senders[k]]
        /\ sender' = [o \in Objs |-> IF o \in idle THEN Forgotten(sender[o]) ELSE sender[o]]
  BY DEF Reap
<1>3. ASSUME NEW s \in SenderRec
      PROVE  /\ Forgotten(s) \in SenderRec
             /\ Forgotten(s).warm # "none" => Forgotten(s).wish = s.wish /\ s.warm # "none"
             /\ Forgotten(s).holder = "warm" => s.holder = "warm" /\ Forgotten(s).warm = s.warm
  BY DEF Forgotten, Closed, Unused, SenderRec
<1>4. SendersTypeOK'
  BY <1>1, <1>2, <1>3 DEF SendersTypeOK
<1>5. TableMatches'
  BY <1>1, <1>2 DEF SendersTypeOK, SendersInv, TableMatches
<1>6. WarmHasWish'
  BY <1>1, <1>2, <1>3 DEF SendersTypeOK, SendersInv, WarmHasWish
<1> QED
  BY <1>4, <1>5, <1>6 DEF SendersInv

LEMMA StopKeepsSenders ==
  ASSUME IInv, Stop
  PROVE  SendersTypeOK' /\ SendersInv'
<1>1. SendersTypeOK /\ SendersInv
  BY DEF IInv, TypeOK
<1>2. ASSUME NEW o \in Objs
      PROVE  /\ sender'[o] \in SenderRec /\ sender'[o].key = sender[o].key
             /\ sender'[o].warm = sender[o].warm /\ sender'[o].wish = sender[o].wish
             /\ sender'[o].holder = sender[o].holder
  <2>1. sender'[o] \in {sender[o], Closed(sender[o])} /\ sender[o] \in SenderRec
    BY <1>1 DEF Stop, SendersTypeOK
  <2>2. ASSUME NEW s \in SenderRec
        PROVE  /\ Closed(s) \in SenderRec /\ Closed(s).key = s.key
               /\ Closed(s).warm = s.warm /\ Closed(s).wish = s.wish
               /\ Closed(s).holder = s.holder
    BY DEF Closed, SenderRec
  <2> QED
    BY <2>1, <2>2
<1>3. senders' = senders /\ sender' = [o \in Objs |-> sender'[o]]
  BY DEF Stop
<1>4. SendersTypeOK'
  BY <1>1, <1>2, <1>3 DEF SendersTypeOK
<1>5. TableMatches' /\ WarmHasWish'
  BY <1>1, <1>2, <1>3 DEF SendersTypeOK, SendersInv, TableMatches, WarmHasWish
<1> QED
  BY <1>4, <1>5 DEF SendersInv

(* stop() that raises releases the lock of say(), at most.                 *)
LEMMA CutKeepsSenders ==
  ASSUME IInv, StopRaisesInRow
  PROVE  SendersTypeOK' /\ SendersInv'
<1> DEFINE s == sender[using]
           c == outbox[cur].chan
<1>1. SendersTypeOK /\ SendersInv
  BY DEF IInv, TypeOK
<1>2. using \in Objs /\ s \in SenderRec /\ c \in Chans
  BY InHand DEF StopRaisesInRow, Saying
<1>3. PICK t \in {s} \cup AsksToJoin(s, c) \cup AfterJoin(s, c) :
        /\ senders' = senders
        /\ sender' = sender \/ sender' = [sender EXCEPT ![using] = Released(t)]
  BY DEF StopRaisesInRow
<1>4. t \in SenderRec /\ t.key = s.key /\ t.warm = s.warm /\ t.wish = s.wish
  BY <1>2, <1>3, JoinShape, AskShape
<1>5. /\ Released(t) \in SenderRec /\ Released(t).key = t.key
      /\ Released(t).warm = t.warm /\ Released(t).wish = t.wish
      /\ Released(t).holder = "none"
  BY <1>4 DEF Released, SenderRec
<1>6. CASE sender' = sender
  BY <1>1, <1>3, <1>6 DEF SendersTypeOK, SendersInv, TableMatches, WarmHasWish
<1>7. CASE sender' = [sender EXCEPT ![using] = Released(t)]
  BY <1>1, <1>2, <1>3, <1>4, <1>5, <1>7, ReplaceSender DEF SendersInv, WarmHasWish
<1> QED
  BY <1>3, <1>6, <1>7

LEMMA RestartKeepsSenders ==
  ASSUME Restarted
  PROVE  SendersTypeOK' /\ SendersInv'
<1>1. Unused \in SenderRec /\ Unused.warm = "none" /\ Unused.holder = "none"
  BY DEF Unused, SenderRec
<1> QED
  BY <1>1 DEF Restarted, SendersTypeOK, SendersInv, TableMatches, WarmHasWish
(* No step of any process or thread breaks the table or a Sender's type.   *)
LEMMA SendersKept ==
  ASSUME IInv, [Next]_vars
  PROVE  SendersTypeOK' /\ SendersInv'
<1>1. SendersTypeOK /\ SendersInv
  BY DEF IInv, TypeOK
<1>2. ASSUME UNCHANGED <<senders, sender>> PROVE SendersTypeOK' /\ SendersInv'
  BY <1>1, <1>2 DEF SendersTypeOK, SendersInv, TableMatches, WarmHasWish
<1>3. CASE \/ ReadNets \/ ReadRows \/ PumpReturns \/ MarkSent \/ LeaveTry \/ MarkRaises
           \/ PumpRaises \/ StopRaisesOutside \/ ServeStep \/ UNCHANGED vars
           \/ \E r \in Row : \/ SkipRow(r)
                             \/ \E n \in Nets, o \in Objs : StopRaisesWaiting(r, n, o)
  BY <1>2, <1>3 DEF ReadNets, ReadRows, PumpReturns, MarkSent, LeaveTry, MarkRaises,
       PumpRaises, StopRaisesOutside, StopRaisesWaiting, ServeStep, SendQueue, SendRoute, AskPreopen, Toggle,
       ServeCrash, SkipRow, vars
<1>4. ASSUME NEW r \in Row, NEW n \in Nets, NEW o \in Objs, BeginSay(r, n, o)
      PROVE  SendersTypeOK' /\ SendersInv'
  BY <1>4, BeginSayKeepsSenders
<1>5. CASE SayConnects \/ SayWrites \/ SayRaises
  BY <1>5, SayKeepsSenders
<1>6. CASE MarkFailed
  BY <1>6, MarkFailedKeepsSenders
<1>7. CASE Prewarm
  BY <1>7, PrewarmKeepsSenders
<1>8. CASE Reap
  BY <1>8, ReapKeepsSenders
<1>9. CASE Stop
  BY <1>9, StopKeepsSenders
<1>10. CASE Exit \/ Crash
  BY <1>10, RestartKeepsSenders DEF Exit, Crash
<1>11. ASSUME NEW o \in Objs, WarmThread(o) PROVE SendersTypeOK' /\ SendersInv'
  BY <1>1, <1>11, WarmKeepsType DEF WarmThread
<1>12. CASE NetworkStep
  BY <1>1, <1>12, NetworkKeepsType
<1>13. CASE StopRaisesInRow
  BY <1>13, CutKeepsSenders
<1> QED
  BY <1>3, <1>4, <1>5, <1>6, <1>7, <1>8, <1>9, <1>10, <1>11, <1>12, <1>13
     DEF Next, MainStep, Pump, StopRaises, FaultStep

(* Routing or answering a line changes nothing else of it, and no other.   *)
LEMMA RouteAndAnswer ==
  ASSUME IInv, NEW r \in Row, NEW n \in Nets, NEW a \in {"sent", "failed"},
         \/ outbox' = [outbox EXCEPT ![r].net = n]
         \/ outbox' = [outbox EXCEPT ![r].state = a]
  PROVE  /\ outbox' \in [Row -> LineRec]
         /\ \A q \in Row : /\ outbox'[q].chan = outbox[q].chan
                           /\ outbox'[q].nick = outbox[q].nick
                           /\ q # r => outbox'[q] = outbox[q]
         /\ outbox'[r].state \in {a, outbox[r].state}
         /\ outbox' = [outbox EXCEPT ![r].state = a] => outbox'[r].state = a
         /\ outbox' = [outbox EXCEPT ![r].net = n] => outbox'[r].state = outbox[r].state
<1>1. outbox \in [Row -> LineRec]
  BY DEF IInv, TypeOK
<1> DEFINE t == [outbox[r] EXCEPT !.net = n]
           u == [outbox[r] EXCEPT !.state = a]
<1>2. /\ t \in LineRec /\ t.state = outbox[r].state
      /\ t.chan = outbox[r].chan /\ t.nick = outbox[r].nick
      /\ u \in LineRec /\ u.state = a
      /\ u.chan = outbox[r].chan /\ u.nick = outbox[r].nick
  <2>1. outbox[r] \in LineRec
    BY <1>1
  <2> QED
    BY <2>1 DEF LineRec
<1>3. /\ [outbox EXCEPT ![r].net = n] = [outbox EXCEPT ![r] = t]
      /\ [outbox EXCEPT ![r].state = a] = [outbox EXCEPT ![r] = u]
  OBVIOUS
<1> HIDE DEF t, u
<1> QED
  BY <1>1, <1>2, <1>3

(* The other variables keep their types.                                   *)
LEMMA TypeKept ==
  ASSUME IInv, [Next]_vars
  PROVE  TypeOK'
<1>1. SendersTypeOK'
  BY SendersKept
<1>2. TypeOK
  BY DEF IInv
<1>3. CASE UNCHANGED <<db, main, history>>
  BY <1>1, <1>2, <1>3 DEF TypeOK, db, main, history
<1>4. CASE ServeStep
  <2>1. ASSUME NEW r \in Row, NEW c \in Chans, NEW k \in Nicks, SendQueue(r, c, k)
        PROVE  TypeOK'
    BY <1>1, <1>2, <2>1 DEF SendQueue, TypeOK, LineRec, main, history
  <2>2. ASSUME NEW r \in Row, SendRoute(r) PROVE TypeOK'
    <3>1. outbox[r].chan \in Chans
      BY <2>2 DEF IInv, LinesAreAddressed, SendRoute
    <3>2. ChanNet[outbox[r].chan] \in Nets
      BY <3>1
    <3> QED
      BY <1>1, <1>2, <2>2, <3>2, RouteAndAnswer DEF SendRoute, TypeOK, main, history
  <2>3. ASSUME NEW c \in Focused, NEW k \in Nicks, AskPreopen(c, k) PROVE TypeOK'
    BY <1>1, <1>2, <2>3 DEF AskPreopen, TypeOK, main, history
  <2>4. ASSUME NEW n \in Toggled, Toggle(n) PROVE TypeOK'
    BY <1>1, <1>2, <2>4 DEF Toggle, TypeOK, main, history
  <2>5. ASSUME ServeCrash PROVE TypeOK'
    BY <1>1, <1>2, <2>5 DEF ServeCrash, TypeOK, main, history
  <2> QED
    BY <1>4, <2>1, <2>2, <2>3, <2>4, <2>5 DEF ServeStep
<1>5. CASE \/ ReadNets \/ ReadRows \/ PumpReturns \/ Prewarm \/ Reap \/ Exit
           \/ Stop \/ PumpRaises \/ Crash
  <2>1. CASE ReadNets \/ PumpReturns
    BY <1>1, <1>2, <2>1 DEF ReadNets, PumpReturns, TypeOK, db, history
  <2>6. CASE ReadRows
    <3>1. /\ batch' \subseteq Row /\ seen' = [r \in Row |-> IF r \in batch' THEN outbox[r].net ELSE NoNet]
          /\ pc' = "row"
          /\ UNCHANGED <<senders, sender, db, nets, cur, using, stopping, history>>
      BY <2>6 DEF ReadRows
    <3>2. \A r \in Row : outbox[r].net \in Nets \cup {NoNet}
      BY <1>2 DEF TypeOK, LineRec
    <3>3. seen' \in [Row -> Nets \cup {NoNet}]
      BY <3>1, <3>2
    <3> QED
      BY <1>1, <1>2, <3>1, <3>3 DEF TypeOK, db, history
  <2>2. CASE Prewarm
    BY <1>1, <1>2, <2>2 DEF Prewarm, TypeOK, history
  <2>3. CASE Reap \/ Stop
    BY <1>1, <1>2, <2>3 DEF Reap, Stop, TypeOK, db, history
  <2>4. CASE Exit \/ Crash
    <3>1. Restarted /\ faults' \in 0 .. MaxFaults
      BY <1>2, <2>4 DEF Exit, Crash, TypeOK
    <3>2. seen' \in [Row -> Nets \cup {NoNet}]
      BY <3>1 DEF Restarted
    <3> QED
      BY <1>1, <1>2, <3>1, <3>2 DEF Restarted, TypeOK, db
  <2>5. CASE PumpRaises
    BY <1>1, <1>2, <2>5 DEF PumpRaises, GiveUpPass, TypeOK, db
  <2> QED
    BY <1>5, <2>1, <2>2, <2>3, <2>4, <2>5, <2>6
<1>6. ASSUME NEW r \in Row, SkipRow(r) PROVE TypeOK'
  BY <1>1, <1>2, <1>6 DEF SkipRow, Done, TypeOK, db, main, history
<1>7. ASSUME NEW r \in Row, NEW n \in Nets, NEW o \in Objs, BeginSay(r, n, o)
      PROVE  TypeOK'
  BY <1>1, <1>2, <1>7 DEF BeginSay, TypeOK, db, main, history
<1>8. CASE SayRaises
  BY <1>1, <1>2, <1>8 DEF SayRaises, TypeOK, db, main, history
<1>9. CASE SayWrites
  <2>1. cur \in Row /\ sender[using].key[1] \in Nets
    BY <1>9, InHand DEF SayWrites, Saying, Key
  <2>2. PICK e : /\ wire' = Append(wire, e)
                 /\ \E s \in AfterJoin(sender[using], outbox[cur].chan) :
                      e = [row |-> cur, net |-> sender[using].key[1],
                           asked |-> outbox[cur].chan \in s.asked,
                           heard |-> s.sock = "open" /\ outbox[cur].chan \in s.inside]
    BY <1>9 DEF SayWrites
  <2>3. e \in WireRec
    BY <2>1, <2>2 DEF WireRec
  <2>4. wire' \in Seq(WireRec)
    BY <1>2, <2>2, <2>3 DEF TypeOK
  <2> QED
    BY <1>1, <1>2, <1>9, <2>4 DEF SayWrites, TypeOK, db
<1>10. CASE MarkSent \/ MarkFailed
  <2>1. PICK a \in {"sent", "failed"} : outbox' = [outbox EXCEPT ![cur].state = a]
    BY <1>10 DEF MarkSent, MarkFailed
  <2>2. cur \in Row
    BY <1>10, InHand DEF MarkSent, MarkFailed, Saying
  <2>3. Nets # {}
    BY <1>10, InHand DEF MarkSent, MarkFailed, Saying, Key
  <2>4. outbox' \in [Row -> LineRec]
    BY <2>1, <2>2, <2>3, RouteAndAnswer
  <2> QED
    BY <1>1, <1>2, <1>10, <2>4
       DEF MarkSent, MarkFailed, RowDone, Done, TypeOK, history
<1>11. CASE MarkRaises
  BY <1>1, <1>2, <1>11 DEF MarkRaises, TypeOK, db
<1>13. CASE LeaveTry \/ StopRaisesInRow \/ StopRaisesOutside
  <2>1. CASE LeaveTry
    BY <1>1, <1>2, <2>1 DEF LeaveTry, RowDone, Done, TypeOK, db, history
  <2>2. CASE StopRaisesInRow
    <3>1. cur \in Row
      BY <2>2, InHand DEF StopRaisesInRow, Saying
    <3> QED
      BY <1>1, <1>2, <2>2, <3>1 DEF StopRaisesInRow, RaisesInStop, TypeOK, db
  <2>3. CASE StopRaisesOutside
    BY <1>1, <1>2, <2>3 DEF StopRaisesOutside, RaisesInStop, GiveUpPass, TypeOK, db, history
  <2> QED
    BY <1>13, <2>1, <2>2, <2>3
<1>14. ASSUME NEW r \in Row, NEW n \in Nets, NEW o \in Objs, StopRaisesWaiting(r, n, o)
      PROVE  TypeOK'
  BY <1>1, <1>2, <1>14 DEF StopRaisesWaiting, RaisesInStop, TypeOK, db
<1>12. CASE \/ SayConnects
            \/ NetworkStep /\ UNCHANGED <<db, main, history>>
            \/ UNCHANGED vars
            \/ \E o \in Objs : WarmThread(o)
  BY <1>3, <1>12 DEF SayConnects, WarmThread, vars
<1> QED
  BY <1>4, <1>5, <1>6, <1>7, <1>8, <1>9, <1>10, <1>11, <1>12, <1>13, <1>14
     DEF Next, MainStep, Pump, StopRaises, FaultStep

-----------------------------------------------------------------------------
(* The rows.                                                               *)

(* Which steps touch a row, and how.                                       *)
LEMMA RowSteps ==
  ASSUME IInv, [Next]_vars
  PROVE  \/ outbox' = outbox /\ routing' \subseteq routing
         \/ \E r \in Row, c \in Chans, k \in Nicks : SendQueue(r, c, k)
         \/ \E r \in Row : SendRoute(r)
         \/ MarkSent \/ MarkFailed
<1>1. CASE ServeStep
  BY <1>1 DEF ServeStep, AskPreopen, Toggle, ServeCrash
<1>2. CASE \/ ReadNets \/ ReadRows \/ PumpReturns \/ SayConnects \/ SayWrites
           \/ SayRaises \/ LeaveTry \/ Prewarm \/ Reap \/ Exit \/ Stop \/ StopRaises
           \/ FaultStep
  BY <1>2 DEF ReadNets, ReadRows, PumpReturns, SayConnects, SayWrites, SayRaises, LeaveTry,
       Prewarm, Reap, StopRaises, StopRaisesInRow, StopRaisesWaiting, StopRaisesOutside, Exit, Restarted, Stop, FaultStep, MarkRaises, PumpRaises,
       Crash, db
<1>3. CASE \/ UNCHANGED vars
           \/ \E r \in Row : \/ SkipRow(r)
                             \/ \E n \in Nets, o \in Objs : BeginSay(r, n, o)
           \/ \E o \in Objs : WarmThread(o)
           \/ NetworkStep /\ UNCHANGED <<db, main, history>>
  BY <1>3 DEF SkipRow, BeginSay, WarmThread, db, vars
<1> QED
  BY <1>1, <1>2, <1>3 DEF Next, MainStep, Pump

(* What an answer changes.                                                 *)
LEMMA AnswerShape ==
  ASSUME IInv, MarkSent \/ MarkFailed
  PROVE  /\ cur \in Row /\ outbox[cur].state # "none"
         /\ outbox'[cur].state = (IF MarkSent THEN "sent" ELSE "failed")
         /\ \A q \in Row : /\ outbox'[q].chan = outbox[q].chan
                           /\ outbox'[q].nick = outbox[q].nick
                           /\ q # cur => outbox'[q] = outbox[q]
         /\ outbox' \in [Row -> LineRec]
<1>1. PICK a \in {"sent", "failed"} : /\ outbox' = [outbox EXCEPT ![cur].state = a]
                                      /\ a = (IF MarkSent THEN "sent" ELSE "failed")
  <2>1. CASE MarkSent
    BY <2>1 DEF MarkSent
  <2>2. CASE ~MarkSent
    BY <2>2 DEF MarkFailed
  <2> QED
    BY <2>1, <2>2
<1>2. Saying
  BY DEF MarkSent, MarkFailed, Saying
<1>3. cur \in Row /\ outbox[cur].state # "none" /\ Nets # {}
  BY <1>2, InHand DEF Key
<1>4. PICK n \in Nets : TRUE
  BY <1>3
<1>5. /\ outbox' \in [Row -> LineRec] /\ outbox'[cur].state = a
      /\ \A q \in Row : /\ outbox'[q].chan = outbox[q].chan
                        /\ outbox'[q].nick = outbox[q].nick
                        /\ q # cur => outbox'[q] = outbox[q]
  <2>1. outbox' = [outbox EXCEPT ![cur].state = a]
    BY <1>1
  <2> QED
    BY <1>3, <1>4, <2>1, RouteAndAnswer
<1> QED
  BY <1>1, <1>3, <1>5

(* Rows are queued in order, and addressed, whatever happens to them.      *)
LEMMA OrderKept ==
  ASSUME IInv, [Next]_vars
  PROVE  QueuedInOrder' /\ LinesAreAddressed'
<1>1. QueuedInOrder /\ LinesAreAddressed /\ TypeOK
  BY DEF IInv
<1>2. CASE outbox' = outbox /\ routing' \subseteq routing
  BY <1>1, <1>2 DEF QueuedInOrder, LinesAreAddressed
<1>3. ASSUME NEW r \in Row, NEW c \in Chans, NEW k \in Nicks, SendQueue(r, c, k)
      PROVE  QueuedInOrder' /\ LinesAreAddressed'
  <2> DEFINE l == [state |-> "pending", chan |-> c, nick |-> k, net |-> NoNet]
  <2>1. l.state = "pending" /\ l.chan = c /\ l.nick = k
    OBVIOUS
  <2>2. /\ outbox' = [outbox EXCEPT ![r] = l] /\ routing' = routing \cup {r}
        /\ \A q \in Row : q < r => outbox[q].state # "none"
    BY <1>3 DEF SendQueue
  <2> HIDE DEF l
  <2>3. \A q \in Row : outbox'[q] = IF q = r THEN l ELSE outbox[q]
    BY <1>1, <2>2 DEF TypeOK
  <2>4. QueuedInOrder'
    BY <1>1, <1>3, <2>1, <2>2, <2>3 DEF QueuedInOrder, SendQueue, Row
  <2>5. LinesAreAddressed'
    BY <1>1, <2>1, <2>2, <2>3 DEF LinesAreAddressed, TypeOK
  <2> QED
    BY <2>4, <2>5
<1>4. ASSUME NEW r \in Row, SendRoute(r)
      PROVE  QueuedInOrder' /\ LinesAreAddressed'
  <2>1. ChanNet[outbox[r].chan] \in Nets
    BY <1>1, <1>4 DEF LinesAreAddressed, SendRoute
  <2>2. \A q \in Row : /\ outbox'[q].state = outbox[q].state
                       /\ outbox'[q].chan = outbox[q].chan
                       /\ outbox'[q].nick = outbox[q].nick
    BY <1>4, <2>1, RouteAndAnswer DEF SendRoute
  <2>3. routing' \subseteq routing
    BY <1>4 DEF SendRoute
  <2> QED
    BY <1>1, <2>2, <2>3 DEF QueuedInOrder, LinesAreAddressed, TypeOK
<1>5. CASE MarkSent \/ MarkFailed
  <2>1. \A q \in Row : /\ outbox'[q].chan = outbox[q].chan
                       /\ outbox'[q].nick = outbox[q].nick
                       /\ outbox'[q].state # "none" <=> outbox[q].state # "none"
    BY <1>5, AnswerShape
  <2>2. routing' = routing
    BY <1>5 DEF MarkSent, MarkFailed
  <2> QED
    BY <1>1, <2>1, <2>2 DEF QueuedInOrder, LinesAreAddressed, TypeOK
<1> QED
  BY <1>2, <1>3, <1>4, <1>5, RowSteps

(* The row in hand and its Sender stay as they are until it is answered.   *)
LEMMA HandKept ==
  ASSUME IInv, [Next]_vars
  PROVE  RowInHand'
<1>1. RowInHand /\ TypeOK /\ SendersInv' /\ SendersTypeOK'
  BY SendersKept DEF IInv
<1>2. ASSUME ~Saying, ~Saying', cur' = cur PROVE RowInHand'
  BY <1>1, <1>2 DEF RowInHand
<1>3. ASSUME Saying', Saying, UNCHANGED <<senders, cur, using, batch, nets>>
      PROVE  RowInHand'
  <2>1. /\ using \in Objs /\ sender[using].key \in Key
        /\ senders[sender[using].key] = using
    BY <1>1, <1>3 DEF RowInHand
  <2>2. sender'[using].key = sender[using].key
    BY <1>1, <1>3, <2>1 DEF SendersInv, TableMatches
  <2> QED
    BY <1>1, <1>3, <2>1, <2>2 DEF RowInHand
<1>4. ASSUME UNCHANGED <<senders, main>> PROVE RowInHand'
  BY <1>1, <1>2, <1>3, <1>4 DEF main, Saying
<1>5. CASE \/ ReadNets \/ ReadRows \/ PumpReturns \/ Prewarm \/ Reap
           \/ \E r \in Row : SkipRow(r)
  BY <1>2, <1>5 DEF ReadNets, ReadRows, PumpReturns, Prewarm, Reap, SkipRow, Saying
<1>6. CASE SayConnects \/ SayWrites \/ SayRaises \/ MarkSent \/ MarkRaises \/ StopRaisesInRow
  BY <1>3, <1>6 DEF SayConnects, SayWrites, SayRaises, MarkSent, MarkRaises,
       StopRaisesInRow, Dial, Register, Saying, main
<1>7. CASE LeaveTry \/ MarkFailed \/ PumpRaises \/ StopRaisesOutside \/ Exit \/ Crash
  BY <1>7 DEF LeaveTry, MarkFailed, RowDone, PumpRaises, StopRaisesOutside, GiveUpPass,
       Exit, Crash, Restarted, RowInHand, Saying
<1>8. ASSUME NEW r \in Row, NEW n \in Nets, NEW o \in Objs, BeginSay(r, n, o)
      PROVE  RowInHand'
  <2>1. sender'[o].key = <<n, outbox[r].nick>>
    BY <1>8, BeginSayKeepsSenders
  <2>2. outbox[r].nick \in Nicks
    BY <1>8, NextIsPending DEF BeginSay
  <2>3. /\ pc' = "say" /\ cur' = r /\ using' = o /\ batch' = batch /\ nets' = nets
        /\ senders' = [senders EXCEPT ![<<n, outbox[r].nick>>] = o]
        /\ n \in nets /\ r \in batch /\ \A q \in batch : r <= q
    BY <1>8 DEF BeginSay, NextRow, PicksNet
  <2>4. senders'[<<n, outbox[r].nick>>] = o
    BY <1>1, <2>2, <2>3 DEF TypeOK, SendersTypeOK, Key
  <2> QED
    BY <2>1, <2>2, <2>3, <2>4 DEF RowInHand, Saying, Key
<1>9. CASE Stop
  BY <1>1, <1>2, <1>3, <1>9 DEF Stop, Saying
<1>10. CASE \/ UNCHANGED vars \/ ServeStep
            \/ \E o \in Objs : WarmThread(o)
            \/ NetworkStep /\ UNCHANGED <<db, main, history>>
  <2>1. CASE UNCHANGED vars \/ ServeStep
    BY <1>4, <2>1 DEF vars, ServeStep, SendQueue, SendRoute, AskPreopen, Toggle,
         ServeCrash
  <2>2. ASSUME NEW o \in Objs, WarmThread(o) PROVE RowInHand'
    BY <1>4, <2>2 DEF WarmThread, WarmStep, WarmLock, WarmJoins, WarmNotes, WarmFails,
         WarmEnds, Dial, Register
  <2>3. CASE NetworkStep /\ UNCHANGED <<db, main, history>>
    BY <1>4, <2>3 DEF NetworkStep, Drop, Kick
  <2> QED
    BY <1>10, <2>1, <2>2, <2>3
<1>11. ASSUME NEW r \in Row, NEW n \in Nets, NEW o \in Objs, StopRaisesWaiting(r, n, o)
       PROVE  RowInHand'
  <2> DEFINE k == <<n, outbox[r].nick>>
  <2>1. /\ k \in Key /\ r \in batch /\ (\A q \in batch : r <= q) /\ n \in nets
    BY <1>11, NextIsPending DEF StopRaisesWaiting, PicksNet, Key
  <2>2. /\ pc' = "except" /\ cur' = r /\ using' = o
        /\ UNCHANGED <<senders, sender, batch, nets>> /\ senders[k] = o
    BY <1>11 DEF StopRaisesWaiting
  <2> HIDE DEF k
  <2>3. sender[o].key = k
    BY <1>1, <2>1, <2>2 DEF SendersInv, TableMatches, TypeOK, SendersTypeOK
  <2> QED
    BY <2>1, <2>2, <2>3 DEF RowInHand, Saying
<1> QED
  BY <1>5, <1>6, <1>7, <1>8, <1>9, <1>10, <1>11 DEF Next, MainStep, Pump, StopRaises, FaultStep

(* The batch stays a prefix of the unanswered rows: later ones are added   *)
(* behind it, and only its first row is ever answered.                     *)
LEMMA BatchKept ==
  ASSUME IInv, [Next]_vars
  PROVE  BatchIsOldest'
<1>1. BatchIsOldest /\ TypeOK
  BY DEF IInv
<1>2. ASSUME outbox' = outbox, batch' = batch, nets' = nets,
             pc' \in {"loop", "rows", "prewarm", "reap"} => batch = {},
             cur' = cur \/ ~Saying
      PROVE  BatchIsOldest'
  <2>1. cur' = cur \/ \A r \in batch : Pending(r)
    BY <1>1, <1>2 DEF IInv, RowInHand, BatchIsOldest, TypeOK, NoRow, Row
  <2> QED
    BY <1>1, <1>2, <2>1 DEF BatchIsOldest, Pending
<1>3. ASSUME batch' = {} PROVE BatchIsOldest'
  BY <1>3 DEF BatchIsOldest
<1>4. CASE ReadNets \/ Exit \/ Crash \/ PumpRaises \/ StopRaisesOutside \/ PumpReturns
  BY <1>1, <1>3, <1>4 DEF ReadNets, Exit, Crash, Restarted, PumpRaises, StopRaisesOutside,
       GiveUpPass, PumpReturns, BatchIsOldest
<1>5. CASE ReadRows
  <2> DEFINE Older(r) == {q \in Row : q < r /\ Pending(q)}
  <2>1. /\ batch' = {r \in Row : Pending(r) /\ Cardinality(Older(r)) < Limit}
        /\ outbox' = outbox /\ pc' = "row"
    BY <1>5 DEF ReadRows, db
  <2>2. ASSUME NEW r \in Row, NEW q \in Row, q < r
        PROVE  /\ Cardinality(Older(q)) \in Nat /\ Cardinality(Older(r)) \in Nat
               /\ Cardinality(Older(q)) <= Cardinality(Older(r))
    <3>1. IsFiniteSet(Row)
      BY FS_Interval DEF Row
    <3>2. Older(r) \subseteq Row /\ Older(q) \subseteq Older(r)
      BY <2>2 DEF Row
    <3>3. IsFiniteSet(Older(r))
      BY <3>1, <3>2, FS_Subset
    <3> HIDE DEF Older
    <3> QED
      BY <3>2, <3>3, FS_Subset, FS_CardinalityType
  <2> HIDE DEF Older
  <2>3. ASSUME NEW r \in batch', NEW q \in Row, q < r, Pending(q) PROVE q \in batch'
    BY <2>1, <2>2, <2>3
  <2> QED
    BY <2>1, <2>3 DEF BatchIsOldest, Pending
<1>6. ASSUME NEW r \in Row, SkipRow(r) PROVE BatchIsOldest'
  BY <1>1, <1>6 DEF SkipRow, Done, db, BatchIsOldest, Pending
<1>7. CASE \/ \E r \in Row, n \in Nets, o \in Objs : BeginSay(r, n, o)
           \/ \E r \in Row, n \in Nets, o \in Objs : StopRaisesWaiting(r, n, o)
           \/ SayConnects \/ SayWrites \/ SayRaises \/ MarkRaises
           \/ Prewarm \/ Reap \/ Stop \/ StopRaisesInRow
  <2>1. /\ UNCHANGED <<outbox, batch, nets>> /\ (cur' = cur \/ ~Saying)
        /\ pc' \in {"say", "mark", "except"} \/ pc = "prewarm" \/ pc = "reap" \/ pc' = pc
    BY <1>7 DEF BeginSay, SayConnects, SayWrites, SayRaises, MarkRaises, Prewarm, Reap,
         Stop, StopRaisesInRow, StopRaisesWaiting, Saying, db, main
  <2> QED
    BY <1>1, <1>2, <2>1 DEF BatchIsOldest
<1>8. CASE MarkSent \/ MarkFailed
  <2>1. /\ \/ batch' = batch /\ cur' = cur
           \/ batch' = batch \ {cur}
        /\ pc' \in {"sent", "row"} /\ nets' = nets
    BY <1>8 DEF MarkSent, MarkFailed, RowDone, Done
  <2>2. /\ cur \in Row
        /\ \A q \in Row : q # cur => outbox'[q] = outbox[q]
        /\ outbox'[cur].state # "pending"
    BY <1>8, AnswerShape
  <2>3. \A q \in Row : outbox'[q].state = "pending" <=> q # cur /\ Pending(q)
    BY <2>2 DEF Pending
  <2> QED
    BY <1>1, <2>1, <2>3 DEF BatchIsOldest, Pending, TypeOK
<1>11. CASE LeaveTry
  <2>1. /\ batch' = batch \ {cur} /\ pc' = "row" /\ UNCHANGED <<nets, outbox>>
        /\ outbox[cur].state = "sent"
    BY <1>11 DEF LeaveTry, RowDone, Done, db, IInv, HandIsOpen
  <2> QED
    BY <1>1, <2>1 DEF BatchIsOldest, Pending
<1>9. CASE UNCHANGED vars \/ ServeStep
  <2>1. UNCHANGED <<batch, nets, pc, cur>>
    BY <1>9 DEF vars, ServeStep, SendQueue, SendRoute, AskPreopen, Toggle, ServeCrash,
         main
  <2>2. CASE outbox' = outbox
    BY <1>1, <1>2, <2>1, <2>2 DEF BatchIsOldest
  <2>3. ASSUME NEW r \in Row, NEW c \in Chans, NEW k \in Nicks, SendQueue(r, c, k)
        PROVE  BatchIsOldest'
    <3>1. /\ outbox[r].state = "none"
          /\ \A q \in Row : q # r => outbox'[q] = outbox[q]
      BY <1>1, <2>3 DEF SendQueue, TypeOK
    <3>2. \A q \in batch : q < r /\ (q # cur => Pending(q))
      <4> SUFFICES ASSUME NEW q \in batch PROVE q < r /\ (q # cur => Pending(q))
        OBVIOUS
      <4>1. /\ q \in Row /\ (q # cur => Pending(q)) /\ outbox[q].state # "none"
        <5>1. q \in Row /\ (q # cur => Pending(q))
          BY <1>1 DEF BatchIsOldest, TypeOK
        <5>2. q = cur => Saying
          BY <5>1 DEF IInv, RowInHand, NoRow, Row
        <5> QED
          BY <5>1, <5>2, InHand DEF Pending
      <4>2. ~(r < q) /\ r # q
        BY <3>1, <4>1 DEF IInv, QueuedInOrder
      <4> QED
        BY <4>1, <4>2 DEF Row
    <3>3. \A q \in batch, p \in Row : p < q => p # r
      BY <1>1, <3>2 DEF TypeOK, Row
    <3>4. \A q \in batch : q # r /\ q \in Row
      BY <1>1, <3>2 DEF TypeOK, Row
    <3> QED
      BY <1>1, <2>1, <3>1, <3>3, <3>4 DEF BatchIsOldest, Pending
  <2>4. ASSUME NEW r \in Row, SendRoute(r) PROVE BatchIsOldest'
    <3>1. ChanNet[outbox[r].chan] \in Nets
      BY <2>4 DEF SendRoute, IInv, LinesAreAddressed
    <3>2. \A q \in Row : outbox'[q].state = outbox[q].state
      BY <2>4, <3>1, RouteAndAnswer DEF SendRoute
    <3> QED
      BY <1>1, <2>1, <3>2 DEF BatchIsOldest, Pending, TypeOK
  <2> QED
    BY <1>9, <2>2, <2>3, <2>4
       DEF vars, db, ServeStep, AskPreopen, Toggle, ServeCrash
<1>10. CASE \/ \E o \in Objs : WarmThread(o)
            \/ NetworkStep /\ UNCHANGED <<db, main, history>>
  BY <1>1, <1>2, <1>10 DEF WarmThread, db, main, BatchIsOldest
<1> QED
  BY <1>4, <1>5, <1>6, <1>7, <1>8, <1>9, <1>10, <1>11
     DEF Next, MainStep, Pump, StopRaises, FaultStep

-----------------------------------------------------------------------------
(* The wire.                                                               *)

(* Writing a line adds one copy of its row and of no other.                *)
LEMMA CopiesAfterAppend ==
  ASSUME NEW w \in Seq(WireRec), NEW e \in WireRec, NEW r \in Row
  PROVE  /\ CopiesIn(w, r) \in Nat
         /\ CopiesIn(Append(w, e), r) =
              CopiesIn(w, r) + (IF e.row = r THEN 1 ELSE 0)
<1> DEFINE A == {i \in DOMAIN w : w[i].row = r}
           B == {i \in DOMAIN Append(w, e) : Append(w, e)[i].row = r}
<1>1. /\ DOMAIN w = 1 .. Len(w) /\ Len(w) \in Nat
      /\ DOMAIN Append(w, e) = DOMAIN w \cup {Len(w) + 1}
      /\ Append(w, e)[Len(w) + 1] = e
      /\ \A i \in DOMAIN w : Append(w, e)[i] = w[i]
  OBVIOUS
<1>2. IsFiniteSet(A)
  <2>1. IsFiniteSet(1 .. Len(w))
    BY <1>1, FS_Interval
  <2>2. A \subseteq 1 .. Len(w)
    BY <1>1
  <2> QED
    BY <2>1, <2>2, FS_Subset
<1>3. Len(w) + 1 \notin A
  BY <1>1
<1>4. B = IF e.row = r THEN A \cup {Len(w) + 1} ELSE A
  BY <1>1
<1>5. Cardinality(A) \in Nat
  BY <1>2, FS_CardinalityType
<1>6. Cardinality(A \cup {Len(w) + 1}) = Cardinality(A) + 1
  BY <1>2, <1>3, FS_AddElement
<1>7. CopiesIn(w, r) = Cardinality(A) /\ CopiesIn(Append(w, e), r) = Cardinality(B)
  BY DEF CopiesIn
<1> HIDE DEF A, B
<1> QED
  BY <1>4, <1>5, <1>6, <1>7

LEMMA NoCopiesAtFirst ==
  ASSUME NEW r \in Row
  PROVE  CopiesIn(<<>>, r) = 0
<1>1. {i \in DOMAIN <<>> : <<>>[i].row = r} = {}
  OBVIOUS
<1> QED
  BY <1>1, FS_EmptySet DEF CopiesIn

(* What say() adds to the wire: one copy of the row in hand.               *)
LEMMA WriteShape ==
  ASSUME IInv, SayWrites
  PROVE  /\ cur \in Row
         /\ \A r \in Row : Copies(r)' = Copies(r) + (IF r = cur THEN 1 ELSE 0)
         /\ wire' # <<>> /\ wire'[Len(wire')].row = cur
<1>1. PICK e : /\ wire' = Append(wire, e)
               /\ \E s \in AfterJoin(sender[using], outbox[cur].chan) :
                    e = [row |-> cur, net |-> sender[using].key[1],
                         asked |-> outbox[cur].chan \in s.asked,
                         heard |-> s.sock = "open" /\ outbox[cur].chan \in s.inside]
  BY DEF SayWrites
<1>2. cur \in Row /\ sender[using].key[1] \in Nets
  BY InHand DEF SayWrites, Saying, Key
<1>3. e \in WireRec /\ e.row = cur
  BY <1>1, <1>2 DEF WireRec
<1>4. wire \in Seq(WireRec)
  BY DEF IInv, TypeOK
<1>5. \A r \in Row : CopiesIn(wire', r) = CopiesIn(wire, r) + (IF cur = r THEN 1 ELSE 0)
  BY <1>1, <1>3, <1>4, CopiesAfterAppend
<1>6. wire' # <<>> /\ wire'[Len(wire')] = e
  BY <1>1, <1>3, <1>4
<1> QED
  BY <1>2, <1>3, <1>5, <1>6 DEF Copies

LEMMA CopiesType ==
  ASSUME IInv, NEW r \in Row
  PROVE  Copies(r) \in Nat /\ faults \in Nat
<1>1. wire \in Seq(WireRec) /\ faults \in Nat
  BY DEF IInv, TypeOK
<1>2. CopiesIn(wire, r) \in Nat
  <2>1. IsFiniteSet(1 .. Len(wire)) /\ DOMAIN wire = 1 .. Len(wire)
    BY <1>1, FS_Interval
  <2>2. IsFiniteSet({i \in DOMAIN wire : wire[i].row = r})
    BY <2>1, FS_Subset
  <2> QED
    BY <2>2, FS_CardinalityType DEF CopiesIn
<1> QED
  BY <1>1, <1>2 DEF Copies

(* The row in hand is unanswered, or just answered and the last written.   *)
LEMMA OpenKept ==
  ASSUME IInv, [Next]_vars
  PROVE  HandIsOpen'
<1>1. HandIsOpen /\ TypeOK /\ RowInHand
  BY DEF IInv
<1>2. ASSUME ~Saying' PROVE HandIsOpen'
  BY <1>2 DEF HandIsOpen, Saying
<1>3. ASSUME UNCHANGED <<pc, cur, cut, wire>>, outbox' = outbox, stopping' \in {stopping, TRUE}
      PROVE  HandIsOpen'
  BY <1>1, <1>3 DEF HandIsOpen, Saying, Cut, Pending, LastRow, TypeOK
<1>4. CASE \/ ReadNets \/ ReadRows \/ PumpReturns \/ Prewarm \/ Reap \/ LeaveTry
           \/ MarkFailed \/ PumpRaises \/ StopRaisesOutside \/ Exit \/ Crash
           \/ \E r \in Row : SkipRow(r)
  BY <1>2, <1>4 DEF ReadNets, ReadRows, PumpReturns, Prewarm, Reap, LeaveTry, MarkFailed,
       RowDone, PumpRaises, StopRaisesOutside, GiveUpPass, Exit, Crash, Restarted, SkipRow,
       Saying
<1>5. ASSUME NEW r \in Row, NEW n \in Nets, NEW o \in Objs,
             BeginSay(r, n, o) \/ StopRaisesWaiting(r, n, o)
      PROVE  HandIsOpen'
  <2>1. Pending(r)
    BY <1>5, NextIsPending DEF BeginSay, StopRaisesWaiting
  <2> QED
    BY <1>5, <2>1 DEF BeginSay, StopRaisesWaiting, HandIsOpen, Pending, db
<1>6. CASE SayConnects \/ SayRaises \/ MarkRaises
  BY <1>1, <1>6 DEF SayConnects, SayRaises, MarkRaises, HandIsOpen, Saying, Cut, Pending,
       LastRow, db, main, history
<1>7. CASE SayWrites
  BY <1>1, <1>7, WriteShape DEF SayWrites, HandIsOpen, Pending, LastRow, db
<1>8. CASE MarkSent
  <2>1. outbox'[cur].state = "sent"
    BY <1>8, AnswerShape
  <2> QED
    BY <1>1, <1>8, <2>1 DEF MarkSent, HandIsOpen, LastRow, history
<1>9. CASE StopRaisesInRow
  <2>1. /\ UNCHANGED <<cur, outbox, wire>> /\ pc' = "except" /\ stopping' = TRUE
        /\ cut' = cut \cup {cur} /\ pc \in {"say", "mark", "sent"}
    BY <1>9 DEF StopRaisesInRow, RaisesInStop, db
  <2> QED
    BY <1>1, <2>1 DEF HandIsOpen, Saying, Cut, Pending, LastRow
<1>10. CASE \/ Stop \/ UNCHANGED vars
            \/ \E o \in Objs : WarmThread(o)
            \/ NetworkStep /\ UNCHANGED <<db, main, history>>
  BY <1>3, <1>10 DEF Stop, WarmThread, vars, db, main, history
<1>11. CASE ServeStep
  <2>1. UNCHANGED <<pc, cur, cut, wire, stopping>>
    BY <1>11 DEF ServeStep, SendQueue, SendRoute, AskPreopen, Toggle, ServeCrash, main, history
  <2>2. \A q \in Row : outbox[q].state # "none" => outbox'[q].state = outbox[q].state
    <3>1. ASSUME NEW r \in Row, NEW c \in Chans, NEW k \in Nicks, SendQueue(r, c, k)
          PROVE  \A q \in Row : outbox[q].state # "none" => outbox'[q].state = outbox[q].state
      BY <1>1, <3>1 DEF SendQueue, TypeOK
    <3>2. ASSUME NEW r \in Row, SendRoute(r)
          PROVE  \A q \in Row : outbox[q].state # "none" => outbox'[q].state = outbox[q].state
      <4>1. ChanNet[outbox[r].chan] \in Nets
        BY <3>2 DEF SendRoute, IInv, LinesAreAddressed
      <4> QED
        BY <3>2, <4>1, RouteAndAnswer DEF SendRoute
    <3> QED
      BY <1>11, <3>1, <3>2 DEF ServeStep, AskPreopen, Toggle, ServeCrash
  <2>3. CASE Saying
    <3>1. outbox'[cur].state = outbox[cur].state
      BY <2>2, <2>3, InHand
    <3> QED
      BY <1>1, <2>1, <3>1 DEF HandIsOpen, Saying, Cut, Pending, LastRow
  <2>4. CASE ~Saying
    BY <1>2, <2>1, <2>4 DEF Saying
  <2> QED
    BY <2>3, <2>4
<1> QED
  BY <1>4, <1>5, <1>6, <1>7, <1>8, <1>9, <1>10, <1>11
     DEF Next, MainStep, Pump, StopRaises, FaultStep

(* A row without an answer has been written no more often than there were  *)
(* faults, and once more while its answer is being written.                *)
LEMMA CopiesKept ==
  ASSUME IInv, [Next]_vars
  PROVE  CopiesBounded'
<1>1. CopiesBounded /\ TypeOK
  BY DEF IInv
<1>2. \A r \in Row : Copies(r) \in Nat /\ faults \in Nat
  BY CopiesType
<1>3. ASSUME wire' = wire, outbox' = outbox, faults' = faults,
             pc' = pc, cur' = cur, cut' = cut, stopping => stopping'
      PROVE  CopiesBounded'
  BY <1>1, <1>2, <1>3 DEF CopiesBounded, Copies, Pending, Cut
<1>4. ASSUME wire' = wire, outbox' = outbox, faults' = faults,
             pc' # "mark", pc # "mark", ~Cut
      PROVE  CopiesBounded'
  BY <1>1, <1>2, <1>4 DEF CopiesBounded, Copies, Pending
<1>5. CASE \/ ReadNets \/ ReadRows \/ PumpReturns \/ Prewarm \/ Reap
           \/ Exit \/ SayConnects \/ SayRaises \/ LeaveTry \/ StopRaisesOutside
           \/ \E r \in Row : \/ SkipRow(r)
                             \/ \E n \in Nets, o \in Objs :
                                  BeginSay(r, n, o) \/ StopRaisesWaiting(r, n, o)
  <2>1. CASE \/ ReadNets \/ ReadRows \/ PumpReturns \/ Prewarm \/ Reap
             \/ SayRaises \/ \E r \in Row : SkipRow(r)
    BY <1>4, <2>1 DEF ReadNets, ReadRows, PumpReturns, Prewarm, Reap, SayRaises, SkipRow,
         Cut, db, main, history
  <2>2. CASE SayConnects
    BY <1>4, <2>2 DEF SayConnects, Cut, db, main, history
  <2>3. CASE LeaveTry \/ Exit
    BY <1>4, <2>3 DEF LeaveTry, RowDone, Exit, Restarted, Cut, db, history
  <2>4. CASE StopRaisesOutside
    BY <1>4, <2>4 DEF StopRaisesOutside, RaisesInStop, GiveUpPass, Cut, db, history
  <2>5. ASSUME NEW r \in Row, NEW n \in Nets, NEW o \in Objs,
               BeginSay(r, n, o) \/ StopRaisesWaiting(r, n, o)
        PROVE  CopiesBounded'
    BY <1>4, <2>5 DEF BeginSay, StopRaisesWaiting, Cut, db, history
  <2> QED
    BY <1>5, <2>1, <2>2, <2>3, <2>4, <2>5
<1>6. CASE \/ Stop \/ UNCHANGED vars
           \/ \E o \in Objs : WarmThread(o)
           \/ NetworkStep /\ UNCHANGED <<db, main, history>>
  BY <1>3, <1>6 DEF Stop, WarmThread, vars, db, main, history
<1>11. CASE StopRaisesInRow
  <2>1. /\ UNCHANGED <<cur, outbox, wire, faults>> /\ pc' = "except" /\ stopping' = TRUE
        /\ cut' = cut \cup {cur} /\ pc \in {"say", "mark", "sent"}
    BY <1>11 DEF StopRaisesInRow, RaisesInStop, db
  <2> QED
    BY <1>1, <1>2, <2>1 DEF CopiesBounded, Copies, Pending, Cut
<1>7. CASE MarkRaises \/ PumpRaises \/ Crash
  <2>1. /\ wire' = wire /\ outbox' = outbox /\ faults' = faults + 1 /\ pc' # "mark"
    BY <1>7 DEF MarkRaises, PumpRaises, GiveUpPass, Crash, Restarted, db
  <2>2. \A r \in Row : Pending(r) => Copies(r) <= 1 + faults
    BY <1>1, <1>2 DEF CopiesBounded
  <2>3. \A r \in Row : Copies(r)' = Copies(r) /\ (Pending(r)' <=> Pending(r))
    BY <2>1 DEF Copies, Pending
  <2>4. \A r \in Row : (outbox[r].state = "none" => Copies(r) = 0)
    BY <1>1 DEF CopiesBounded
  <2> QED
    BY <1>2, <2>1, <2>2, <2>3, <2>4 DEF CopiesBounded
<1>8. CASE SayWrites
  <2>1. /\ outbox' = outbox /\ faults' = faults /\ pc' = "mark" /\ cur' = cur
        /\ pc = "say"
    BY <1>8 DEF SayWrites, db
  <2>2. cur \in Row /\ Pending(cur)
    BY <2>1, InHand DEF Saying
  <2> QED
    BY <1>1, <1>2, <1>8, <2>1, <2>2, WriteShape DEF CopiesBounded, Pending, Cut
<1>9. CASE MarkSent \/ MarkFailed
  <2>1. wire' = wire /\ faults' = faults /\ pc' \in {"row", "sent"}
    BY <1>9 DEF MarkSent, MarkFailed, RowDone, history
  <2>2. \A q \in Row : q # cur => outbox'[q] = outbox[q]
    BY <1>9, AnswerShape
  <2>3. outbox'[cur].state \in {"sent", "failed"}
    BY <1>9, AnswerShape
  <2> QED
    BY <1>1, <1>2, <2>1, <2>2, <2>3 DEF CopiesBounded, Copies, Pending, Cut
<1>10. CASE ServeStep
  <2>1. UNCHANGED <<wire, faults, pc, cur, cut, stopping>>
    BY <1>10 DEF ServeStep, SendQueue, SendRoute, AskPreopen, Toggle, ServeCrash,
         main, history
  <2>2. ASSUME NEW r \in Row, NEW c \in Chans, NEW k \in Nicks, SendQueue(r, c, k)
        PROVE  CopiesBounded'
    <3>1. /\ outbox[r].state = "none" /\ outbox'[r].state = "pending"
          /\ \A q \in Row : q # r => outbox'[q] = outbox[q]
      BY <1>1, <2>2 DEF SendQueue, TypeOK
    <3>2. Copies(r) = 0
      BY <1>1, <3>1 DEF CopiesBounded
    <3>3. ~(r = cur /\ (pc = "mark" \/ Cut))
      BY <3>1, InHand DEF Saying, Cut
    <3> QED
      BY <1>1, <1>2, <2>1, <3>1, <3>2, <3>3 DEF CopiesBounded, Copies, Pending, Cut
  <2>3. ASSUME NEW r \in Row, SendRoute(r) PROVE CopiesBounded'
    <3>1. ChanNet[outbox[r].chan] \in Nets
      BY <2>3 DEF SendRoute, IInv, LinesAreAddressed
    <3>2. \A q \in Row : outbox'[q].state = outbox[q].state
      BY <2>3, <3>1, RouteAndAnswer DEF SendRoute
    <3> QED
      BY <1>1, <2>1, <3>2 DEF CopiesBounded, Copies, Pending, Cut
  <2>4. CASE outbox' = outbox
    BY <1>3, <2>1, <2>4
  <2> QED
    BY <1>10, <2>2, <2>3, <2>4 DEF ServeStep, AskPreopen, Toggle, ServeCrash
<1> QED
  BY <1>5, <1>6, <1>7, <1>8, <1>9, <1>10, <1>11
     DEF Next, MainStep, Pump, StopRaises, FaultStep

-----------------------------------------------------------------------------
(* The theorems.                                                           *)

LEMMA InitIInv ==
  ASSUME Init
  PROVE  IInv
<1>1. SendersTypeOK /\ SendersInv
  <2>1. Unused \in SenderRec /\ Unused.warm = "none" /\ Unused.holder = "none"
    BY DEF Unused, SenderRec
  <2> QED
    BY <2>1 DEF Init, SendersInit, SendersTypeOK, SendersInv, TableMatches, WarmHasWish
<1>2. NoLine \in LineRec /\ NoLine.state = "none"
  BY DEF NoLine, LineRec
<1>3. TypeOK
  <2>1. outbox \in [Row -> LineRec] /\ preopen \in [Key -> Chans \cup {NoChan}]
    BY <1>2 DEF Init
  <2>2. enabled \subseteq Nets /\ routing \subseteq Row
    BY DEF Init
  <2>3. wire \in Seq(WireRec) /\ faults \in 0 .. MaxFaults
    BY DEF Init
  <2>5. cut \subseteq Row
    BY DEF Init
  <2>4. seen \in [Row -> Nets \cup {NoNet}]
    BY DEF Init, FreshMain
  <2> QED
    BY <1>1, <2>1, <2>2, <2>3, <2>4, <2>5 DEF Init, FreshMain, TypeOK
<1>4. QueuedInOrder /\ LinesAreAddressed
  BY <1>2 DEF Init, QueuedInOrder, LinesAreAddressed
<1>5. RowInHand /\ HandIsOpen /\ BatchIsOldest
  BY DEF Init, FreshMain, RowInHand, HandIsOpen, Saying, BatchIsOldest
<1>6. CopiesBounded
  BY <1>2, NoCopiesAtFirst DEF Init, FreshMain, CopiesBounded, Copies, Pending
<1> QED
  BY <1>1, <1>3, <1>4, <1>5, <1>6 DEF IInv

(* The inductive invariant: types, the Senders' table, and how the batch,  *)
(* the row in hand, the rows and the wire fit together.                    *)
THEOREM InductiveInvariant == Spec => []IInv
<1>1. Init => IInv
  BY InitIInv
<1>2. IInv /\ [Next]_vars => IInv'
  BY SendersKept, TypeKept, OrderKept, HandKept, OpenKept, BatchKept, CopiesKept DEF IInv
<1> QED
  BY <1>1, <1>2, PTL DEF Spec

(* Every variable keeps its type.                                          *)
THEOREM TypeCorrect == Spec => []TypeOK
<1>1. IInv => TypeOK
  BY DEF IInv
<1> QED
  BY <1>1, InductiveInvariant, PTL

(* No unanswered row is older than the row in hand.                        *)
LEMMA HandIsOldest ==
  ASSUME IInv, Saying
  PROVE  \A q \in Row : Pending(q) => cur <= q
<1>1. /\ cur \in batch /\ (\A q \in batch : cur <= q) /\ nets # {}
  BY DEF IInv, RowInHand
<1>2. \A q \in Row : q < cur /\ Pending(q) => q \in batch
  BY <1>1 DEF IInv, BatchIsOldest
<1>3. cur \in Row
  BY InHand
<1> QED
  BY <1>1, <1>2, <1>3 DEF Row

(* Every step is a step of the promise, or none of it.                     *)
LEMMA StepKeepsPromise ==
  ASSUME IInv, IInv', [Next]_vars
  PROVE  [Promise!PNext]_(Promise!pvars)
<1> DEFINE st == [r \in Row |-> outbox[r].state]
           cp == [r \in Row |-> Copies(r)]
           nw == LastRow
<1>1. /\ Promise!Row = Row
      /\ Promise!pvars = <<st, cp, nw, faults, cut>>
  BY DEF Promise!Row, Row, Promise!pvars
<1>2. ASSUME \A r \in Row : outbox'[r].state = outbox[r].state,
             wire' = wire, faults' = faults, cut' = cut
      PROVE  UNCHANGED Promise!pvars
  <2>1. st' = st /\ cp' = cp /\ nw' = nw
    BY <1>2 DEF Copies, LastRow
  <2> QED
    BY <1>2, <2>1 DEF Promise!pvars, Promise!Row, Row
<1>3. CASE MarkRaises \/ PumpRaises \/ Crash
  <2>1. /\ wire' = wire /\ outbox' = outbox /\ faults' = faults + 1
        /\ faults < MaxFaults /\ cut' = cut
    BY <1>3 DEF MarkRaises, PumpRaises, GiveUpPass, Crash, Restarted, db
  <2>2. st' = st /\ cp' = cp /\ nw' = nw
    BY <2>1 DEF Copies, LastRow
  <2> QED
    BY <2>1, <2>2 DEF Promise!PNext, Promise!Fault, Promise!Row, Row
<1>4. CASE SayWrites
  <2>1. /\ outbox' = outbox /\ faults' = faults /\ cut' = cut
    BY <1>4 DEF SayWrites, db
  <2>2. /\ cur \in Row /\ Pending(cur) /\ pc = "say"
        /\ \A q \in Row : Pending(q) => cur <= q
    BY <1>4, InHand, HandIsOldest DEF SayWrites, Saying
  <2>3. Copies(cur) <= faults
    BY <2>2 DEF IInv, CopiesBounded, Cut
  <2>4. /\ st' = st /\ nw' = cur
        /\ cp' = [cp EXCEPT ![cur] = @ + 1]
    <3>1. \A r \in Row : Copies(r)' = Copies(r) + (IF r = cur THEN 1 ELSE 0)
      BY <1>4, WriteShape
    <3>2. \A r \in Row : Copies(r) \in Nat
      BY CopiesType
    <3>3. cp' = [r \in Row |-> Copies(r)']
      OBVIOUS
    <3>4. cp' = [cp EXCEPT ![cur] = @ + 1]
      <4>1. cp \in [Row -> Nat] /\ \A r \in Row : cp[r] = Copies(r)
        BY <3>2
      <4>2. /\ cp' \in [Row -> Int]
            /\ \A r \in Row : cp'[r] = cp[r] + (IF r = cur THEN 1 ELSE 0)
        BY <3>1, <3>2, <3>3
      <4> HIDE DEF cp
      <4> QED
        BY <2>2, <4>1, <4>2
    <3>5. st' = st /\ nw' = cur
      BY <1>4, <2>1, WriteShape DEF LastRow
    <3> QED
      BY <3>4, <3>5
  <2>5. Promise!Write(cur)
    BY <2>1, <2>2, <2>3, <2>4 DEF Promise!Write, Promise!Oldest, Promise!Row, Row, Pending
  <2> QED
    BY <1>1, <2>2, <2>5 DEF Promise!PNext
<1>5. CASE MarkSent \/ MarkFailed
  <2>0. PICK a \in {"sent", "failed"} : a = IF MarkSent THEN "sent" ELSE "failed"
    OBVIOUS
  <2>1. /\ UNCHANGED <<wire, faults, cut>> /\ pc \in {"mark", "except"}
        /\ MarkSent => pc = "mark"
        /\ ~MarkSent => pc = "except"
    BY <1>5 DEF MarkSent, MarkFailed, history
  <2>2. /\ cur \in Row /\ outbox'[cur].state = a
        /\ \A q \in Row : q # cur => outbox'[q] = outbox[q]
    BY <1>5, <2>0, AnswerShape
  <2>3. \A q \in Row : Pending(q) => cur <= q
    BY <2>1, HandIsOldest DEF Saying
  <2>6. st' = [st EXCEPT ![cur] = a] /\ cp' = cp /\ nw' = nw
    BY <2>1, <2>2 DEF Copies, LastRow
  <2>8. CASE Pending(cur)
    <3>4. /\ a = "sent" => Copies(cur) > 0
          /\ a = "failed" => Copies(cur) = 0 \/ faults > 0 \/ cur \in cut
      <4>1. /\ Copies(cur) \in Nat /\ faults \in Nat
        BY <2>2, CopiesType
      <4>2. CASE MarkSent
        BY <2>0, <2>1, <2>2, <4>2 DEF IInv, CopiesBounded
      <4>3. CASE ~MarkSent
        BY <2>0, <2>1, <2>2, <2>8, <4>1, <4>3 DEF IInv, CopiesBounded, Cut
      <4> QED
        BY <4>2, <4>3
    <3>7. Promise!Answer(cur, a)
      BY <2>1, <2>2, <2>3, <2>6, <2>8, <3>4
         DEF Promise!Answer, Promise!Oldest, Promise!Row, Row, Pending
    <3> QED
      BY <1>1, <2>2, <3>7 DEF Promise!PNext
  <2>9. CASE ~Pending(cur)
    <3>1. /\ pc = "except" /\ cur \in cut /\ outbox[cur].state = "sent" /\ LastRow = cur
          /\ a = "failed"
      BY <2>0, <2>1, <2>9 DEF IInv, HandIsOpen, Saying, Cut
    <3>2. PICK r \in Row : r = cur
      BY <2>2
    <3>3. Promise!TakeBack(r)
      BY <2>1, <2>2, <2>6, <3>1, <3>2 DEF Promise!TakeBack, Promise!Row, Row
    <3> QED
      BY <1>1, <3>3 DEF Promise!PNext
  <2> QED
    BY <2>8, <2>9
<1>10. ASSUME NEW r \in Row, UNCHANGED <<outbox, wire, faults>>, cut' = cut \cup {r},
              \/ Pending(r) /\ \A q \in Row : Pending(q) => r <= q
              \/ outbox[r].state = "sent" /\ LastRow = r
       PROVE  Promise!PNext
  <2>1. st' = st /\ cp' = cp /\ nw' = nw
    BY <1>10 DEF Copies, LastRow
  <2>2. Promise!CutShort(r)
    BY <1>10, <2>1 DEF Promise!CutShort, Promise!Oldest, Promise!Row, Row, Pending
  <2> QED
    BY <1>1, <2>2 DEF Promise!PNext
<1>11. CASE StopRaisesInRow
  <2>1. /\ UNCHANGED <<outbox, wire, faults>> /\ cut' = cut \cup {cur}
        /\ pc \in {"say", "mark", "sent"} /\ Saying
    BY <1>11 DEF StopRaisesInRow, Saying, db
  <2>2. /\ cur \in Row /\ \A q \in Row : Pending(q) => cur <= q
    BY <2>1, InHand, HandIsOldest
  <2>3. Pending(cur) \/ (outbox[cur].state = "sent" /\ LastRow = cur)
    BY <2>1 DEF IInv, HandIsOpen, Pending
  <2> QED
    BY <1>10, <2>1, <2>2, <2>3
<1>12. ASSUME NEW r \in Row, NEW n \in Nets, NEW o \in Objs, StopRaisesWaiting(r, n, o)
       PROVE  Promise!PNext
  <2>1. /\ UNCHANGED <<outbox, wire, faults>> /\ cut' = cut \cup {r} /\ nets # {}
    BY <1>12 DEF StopRaisesWaiting, PicksNet, db
  <2>2. Pending(r) /\ r \in batch /\ \A q \in batch : r <= q
    BY <1>12, NextIsPending DEF StopRaisesWaiting
  <2>3. \A q \in Row : Pending(q) => r <= q
    BY <2>1, <2>2 DEF IInv, BatchIsOldest, Row
  <2> QED
    BY <1>10, <2>1, <2>2, <2>3
<1>6. ASSUME NEW r \in Row, NEW c \in Chans, NEW k \in Nicks, SendQueue(r, c, k)
      PROVE  Promise!Queue(r)
  <2>1. /\ UNCHANGED <<wire, faults, cut>> /\ outbox[r].state = "none"
        /\ \A q \in Row : q < r => outbox[q].state # "none"
    BY <1>6 DEF SendQueue, history
  <2>2. /\ outbox'[r].state = "pending"
        /\ \A q \in Row : q # r => outbox'[q] = outbox[q]
    BY <1>6 DEF SendQueue, IInv, TypeOK
  <2>3. st' = [st EXCEPT ![r] = "pending"] /\ cp' = cp /\ nw' = nw
    BY <2>1, <2>2 DEF Copies, LastRow
  <2> QED
    BY <2>1, <2>3 DEF Promise!Queue, Promise!Row, Row
<1>7. ASSUME NEW r \in Row, SendRoute(r) PROVE UNCHANGED Promise!pvars
  <2>1. ChanNet[outbox[r].chan] \in Nets
    BY <1>7 DEF SendRoute, IInv, LinesAreAddressed
  <2>2. \A q \in Row : outbox'[q].state = outbox[q].state
    BY <1>7, <2>1, RouteAndAnswer DEF SendRoute
  <2> QED
    BY <1>2, <1>7, <2>2 DEF SendRoute, history
<1>8. CASE \/ ReadNets \/ ReadRows \/ PumpReturns \/ Prewarm \/ Reap \/ Exit \/ Stop
           \/ SayConnects \/ SayRaises \/ LeaveTry \/ StopRaisesOutside
           \/ \E r \in Row : \/ SkipRow(r)
                             \/ \E n \in Nets, o \in Objs : BeginSay(r, n, o)
           \/ \E o \in Objs : WarmThread(o)
           \/ NetworkStep /\ UNCHANGED <<db, main, history>>
           \/ UNCHANGED vars
  <2>1. UNCHANGED <<outbox, wire, faults, cut>>
    BY <1>8 DEF LeaveTry, StopRaisesOutside, ReadNets, ReadRows, PumpReturns, Prewarm, Reap, Exit, Restarted, Stop,
         SayConnects, SayRaises, SkipRow, BeginSay, WarmThread, db, history, vars
  <2> QED
    BY <1>2, <2>1
<1>9. CASE ServeStep
  <2>1. CASE outbox' = outbox
    BY <1>2, <1>9, <2>1 DEF ServeStep, SendQueue, SendRoute, AskPreopen, Toggle, ServeCrash, history
  <2> QED
    BY <1>1, <1>6, <1>7, <1>9, <2>1
       DEF Promise!PNext, ServeStep, AskPreopen, Toggle, ServeCrash
<1> QED
  BY <1>3, <1>4, <1>5, <1>8, <1>9, <1>11, <1>12
     DEF Next, MainStep, Pump, StopRaises, FaultStep

(* The outbox and the live process keep the promise made to the sender of  *)
(* a line: refinement, for any number of networks, users and lines.        *)
THEOREM Refinement == Spec => KeepsPromise
<1>1. Init => Promise!PInit
  <2> SUFFICES ASSUME Init PROVE Promise!PInit
    OBVIOUS
  <2>1. \A r \in Row : outbox[r].state = "none" /\ Copies(r) = 0
    BY NoCopiesAtFirst DEF Init, NoLine, Copies
  <2> QED
    BY <2>1 DEF Promise!PInit, Promise!Row, Row, Init, LastRow
<1>2. IInv /\ IInv' /\ [Next]_vars => [Promise!PNext]_(Promise!pvars)
  BY StepKeepsPromise
<1> QED
  BY <1>1, <1>2, InductiveInvariant, PTL DEF Spec, KeepsPromise, Promise!PSpec

-----------------------------------------------------------------------------
(* What follows from the promise, whose properties OutboxPromiseProofs has *)
(* proved of everything that keeps it.                                     *)
Facts == INSTANCE OutboxPromiseProofs WITH
           state <- [r \in Row |-> outbox[r].state],
           copies <- [r \in Row |-> Copies(r)],
           newest <- LastRow

LEMMA SamePromise == KeepsPromise => Facts!PSpec
<1>1. Promise!PInit => Facts!PInit
  BY DEF Promise!PInit, Facts!PInit, Promise!Row, Facts!Row
<1>2. [Promise!PNext]_(Promise!pvars) => [Facts!PNext]_(Facts!pvars)
  BY DEF Promise!PNext, Facts!PNext, Promise!pvars, Facts!pvars, Promise!Row, Facts!Row,
         Promise!Queue, Facts!Queue, Promise!Write, Facts!Write, Promise!Answer,
         Facts!Answer, Promise!CutShort, Facts!CutShort, Promise!TakeBack, Facts!TakeBack,
         Promise!Fault, Facts!Fault, Promise!Oldest, Facts!Oldest
<1> QED
  BY <1>1, <1>2, PTL DEF KeepsPromise, Promise!PSpec, Facts!PSpec

(* Only a fault can have a line written again: a failed Sender, a dropped  *)
(* connection or a graceful restart never does.                            *)
THEOREM NoRepeatWithoutFault == Spec => []DuplicatesNeedAFault
<1>1. Facts!DuplicatesNeedAFault => DuplicatesNeedAFault
  BY DEF Facts!DuplicatesNeedAFault, DuplicatesNeedAFault, Promise!DuplicatesNeedAFault,
         Facts!Row, Promise!Row
<1> QED
  BY <1>1, Refinement, SamePromise, Facts!PromiseNoRepeat, PTL

(* The answer a client polls from /api/send/status is true of the wire,    *)
(* but for faults and rows that a raising shutdown found in hand.          *)
THEOREM AnswersAreTrue == Spec => []AnswerMatchesWire
<1>1. Facts!AnswerMatchesWire => AnswerMatchesWire
  BY DEF Facts!AnswerMatchesWire, AnswerMatchesWire, Promise!AnswerMatchesWire,
         Facts!Row, Promise!Row
<1> QED
  BY <1>1, Refinement, SamePromise, Facts!PromiseTruth, PTL

(* The lines of all people reach IRC in the order they were queued.        *)
THEOREM OrderIsKept == Spec => WireInQueueOrder
<1>1. Facts!WireInQueueOrder => WireInQueueOrder
  BY DEF Facts!WireInQueueOrder, WireInQueueOrder, Promise!WireInQueueOrder
<1> QED
  BY <1>1, Refinement, SamePromise, Facts!PromiseOrder, PTL

(* Once answered, a line is not written again, and only a shutdown that    *)
(* raises with it in hand takes its answer back.                           *)
THEOREM AnswersAreFinal == Spec => AnswerIsFinal
<1>1. Facts!AnswerIsFinal => AnswerIsFinal
  BY DEF Facts!AnswerIsFinal, AnswerIsFinal, Promise!AnswerIsFinal, Facts!Row,
         Promise!Row, Facts!Answered, Promise!Answered, Facts!pvars, Promise!pvars
<1> QED
  BY <1>1, Refinement, SamePromise, Facts!PromiseFinal, PTL


-----------------------------------------------------------------------------
(* What a Sender knows about its channels.                                 *)

(* The channel that ensure() has asked for and not added to `joined` yet.  *)
Noting(s) == IF s.step = "note" THEN {s.wish} ELSE {}

(* `joined` is about the socket there is: each of its channels was asked   *)
(* for on it, and the client is in those that refuse nobody.               *)
Trusts(s) ==
  /\ s.joined # {} \/ s.step \in {"talk", "note"} => s.ready
  /\ Connecting(s) => ~s.ready
  /\ s.ready \/ s.step = "register" => s.sock # "none"
  /\ s.joined \cup Noting(s) \subseteq s.asked
  /\ s.sock = "open" => (s.joined \cup Noting(s)) \ Refusing \subseteq s.inside

(* Of each Sender in the table, until a shutdown closes the sockets under  *)
(* the threads that use them (reap() may close one under a pre-open thread *)
(* too, but takes it out of the table).                                    *)
TableTrusts == \A o \in Objs : InTable(o) => Trusts(sender[o])

JoinedIsTrue == ~stopping => TableTrusts

(* The main thread keeps the lock while it says a line.                    *)
MainHolds == pc = "say" => /\ sender[using].holder = "main"
                           /\ sender[using].step \in {"dial", "register", "talk"}

Talking == IInv /\ JoinedIsTrue /\ MainHolds

LEMMA UnusedTrusts ==
  ASSUME NEW k \in Key, NEW c
  PROVE  /\ Trusts(Unused) /\ Trusts(New(k))
         /\ Trusts([New(k) EXCEPT !.warm = "waiting", !.wish = c])
BY DEF Trusts, Unused, New, Noting, Connecting

(* With the lock, and without it.                                          *)
LEMMA LockedTrusts ==
  ASSUME NEW s \in SenderRec, Trusts(s), NEW who \in {"main", "warm"}
  PROVE  /\ Trusts(Locked(s, who)) /\ Locked(s, who).holder = who
         /\ Locked(s, who).step \in {"dial", "talk"}
         /\ Trusts([Locked(s, who) EXCEPT !.warm = "inside"])
BY DEF Trusts, Locked, Noting, Connecting, SenderRec

LEMMA ReleasedTrusts ==
  ASSUME NEW s \in SenderRec, Trusts(s)
  PROVE  /\ Trusts(Released(s))
         /\ Trusts([Released(s) EXCEPT !.warm = "none", !.wish = NoChan])
BY DEF Trusts, Released, Noting, Connecting, SenderRec

LEMMA AskedTrusts ==
  ASSUME NEW s \in SenderRec, Trusts(s), s.step = "talk", CanWrite(s), NEW c \in Chans,
         NEW t \in AsksToJoin(s, c)
  PROVE  /\ t.ready /\ t.step = "talk" /\ t.sock = s.sock /\ t.joined = s.joined
         /\ s.joined \cup {c} \subseteq t.asked
         /\ t.sock = "open" => (s.joined \cup {c}) \ Refusing \subseteq t.inside
         /\ t \in SenderRec /\ t.wish = s.wish
<1>1. PICK i \in (IF s.sock = "open" THEN {s.inside \cup {c}} ELSE {s.inside})
                   \cup (IF c \in Refusing THEN {s.inside} ELSE {}) :
        t = [s EXCEPT !.asked = @ \cup {c}, !.inside = i]
  BY DEF AsksToJoin
<1>2. /\ t.ready = s.ready /\ t.step = s.step /\ t.sock = s.sock /\ t.joined = s.joined
      /\ t.asked = s.asked \cup {c} /\ t.inside = i
  BY <1>1 DEF SenderRec
<1>3. t \in SenderRec /\ t.wish = s.wish
  BY AskShape
<1>4. s.ready /\ s.joined \subseteq s.asked /\ (s.sock = "open" => s.joined \ Refusing \subseteq s.inside)
  BY DEF Trusts, Noting
<1>5. s.sock = "open" => s.inside \subseteq i /\ (c \notin Refusing => c \in i)
  BY <1>1
<1> QED
  BY <1>2, <1>3, <1>4, <1>5

(* After say() has joined, or found that it had, it may speak.             *)
LEMMA JoinedTrusts ==
  ASSUME NEW s \in SenderRec, Trusts(s), s.step = "talk", CanWrite(s), NEW c \in Chans,
         NEW t \in AfterJoin(s, c)
  PROVE  /\ Trusts(t) /\ t \in SenderRec /\ c \in t.asked /\ t.sock = s.sock
         /\ t.sock = "open" /\ c \notin Refusing => c \in t.inside
<1>1. CASE c \in s.joined
  BY <1>1 DEF AfterJoin, Trusts, Noting
<1>2. CASE c \notin s.joined
  <2>1. PICK u \in AsksToJoin(s, c) : t = Noted(u, c)
    BY <1>2 DEF AfterJoin
  <2>2. /\ u.ready /\ u.step = "talk" /\ u.sock = s.sock /\ u.joined = s.joined
        /\ s.joined \cup {c} \subseteq u.asked
        /\ u.sock = "open" => (s.joined \cup {c}) \ Refusing \subseteq u.inside
        /\ u \in SenderRec
    BY AskedTrusts
  <2>3. /\ t.ready /\ t.step = "talk" /\ t.sock = s.sock /\ t.joined = s.joined \cup {c}
        /\ t.asked = u.asked /\ t.inside = u.inside
    BY <2>1, <2>2 DEF Noted, SenderRec
  <2>4. t \in SenderRec
    BY <2>1, <2>2, NoteShape
  <2>5. s.sock # "none"
    BY DEF CanWrite
  <2> QED
    BY <2>2, <2>3, <2>4, <2>5 DEF Trusts, Noting, Connecting
<1> QED
  BY <1>1, <1>2


(* The others are not touched.                                             *)
LEMMA OneTrusts ==
  ASSUME SendersTypeOK, TableTrusts, NEW o \in Objs, NEW t,
         InTable(o) => Trusts(t), sender' = [sender EXCEPT ![o] = t], senders' = senders
  PROVE  TableTrusts'
BY DEF SendersTypeOK, TableTrusts, InTable

LEMMA WarmTrusts ==
  ASSUME SendersTypeOK, SendersInv, TableTrusts, NEW o \in Objs,
         WarmStep(o) \/ Dial(o) \/ Register(o)
  PROVE  TableTrusts'
<1> DEFINE s == sender[o]
<1>0. senders' = senders /\ \A p \in Objs : p # o => sender'[p] = sender[p]
  BY DEF WarmStep, WarmLock, WarmJoins, WarmNotes, WarmFails, WarmEnds, Dial, Register,
         SendersTypeOK
<1>9. CASE ~InTable(o)
  BY <1>0, <1>9 DEF TableTrusts, InTable
<1>10. SUFFICES ASSUME InTable(o) PROVE TableTrusts'
  BY <1>9
<1>1. s \in SenderRec /\ Trusts(s) /\ (s.holder = "warm" => s.wish \in Chans)
  BY <1>10 DEF SendersTypeOK, SendersInv, WarmHasWish, TableTrusts
<1>2. ASSUME NEW t \in SenderRec, Trusts(t), WarmEnds(o, t)
      PROVE  TableTrusts'
  <2>1. PICK u : u = IF InTable(o) THEN [Released(t) EXCEPT !.warm = "none", !.wish = NoChan]
                     ELSE Unused
    OBVIOUS
  <2>2. sender' = [sender EXCEPT ![o] = u]
    BY <1>2, <2>1 DEF WarmEnds
  <2>3. Trusts(u)
    <3>1. Trusts(Unused)
      BY DEF Trusts, Unused, Noting, Connecting
    <3>2. Trusts([Released(t) EXCEPT !.warm = "none", !.wish = NoChan])
      BY <1>2, ReleasedTrusts
    <3> QED
      BY <2>1, <3>1, <3>2
  <2> QED
    BY <2>2, <2>3, <1>0, OneTrusts
<1>3. CASE WarmLock(o)
  <2>1. sender' = [sender EXCEPT ![o] = [Locked(s, "warm") EXCEPT !.warm = "inside"]]
    BY <1>3 DEF WarmLock
  <2>2. Trusts([Locked(s, "warm") EXCEPT !.warm = "inside"])
    BY <1>1, LockedTrusts
  <2> QED
    BY <2>1, <2>2, <1>0, OneTrusts
<1>4. CASE WarmJoins(o)
  <2>1. CASE s.wish \in s.joined
    BY <1>1, <1>2, <1>4, <2>1 DEF WarmJoins
  <2>2. CASE s.wish \notin s.joined
    <3>1. s.step = "talk" /\ CanWrite(s) /\ s.wish \in Chans
      BY <1>1, <1>4, <2>2 DEF WarmJoins
    <3>2. PICK t \in AsksToJoin(s, s.wish) : sender' = [sender EXCEPT ![o] = [t EXCEPT !.step = "note"]]
      BY <1>4, <2>2 DEF WarmJoins
    <3>3. /\ t.ready /\ t.step = "talk" /\ t.sock = s.sock /\ t.joined = s.joined
          /\ s.joined \cup {s.wish} \subseteq t.asked
          /\ t.sock = "open" => (s.joined \cup {s.wish}) \ Refusing \subseteq t.inside
          /\ t \in SenderRec /\ t.wish = s.wish
      BY <1>1, <3>1, AskedTrusts
    <3>4. PICK u : u = [t EXCEPT !.step = "note"]
      OBVIOUS
    <3>5. /\ u.ready /\ u.step = "note" /\ u.sock = t.sock /\ u.joined = t.joined
          /\ u.asked = t.asked /\ u.inside = t.inside /\ u.wish = t.wish
      BY <3>3, <3>4 DEF SenderRec
    <3>6. s.sock # "none"
      BY <3>1 DEF CanWrite
    <3>7. Trusts(u)
      BY <3>3, <3>5, <3>6 DEF Trusts, Noting, Connecting
    <3> QED
      BY <3>2, <3>4, <3>7, <1>0, OneTrusts
  <2> QED
    BY <2>1, <2>2
<1>5. CASE WarmNotes(o)
  <2>1. s.step = "note" /\ s.wish \in Chans /\ WarmEnds(o, Noted(s, s.wish))
    BY <1>1, <1>5 DEF WarmNotes
  <2>2. Noted(s, s.wish) \in SenderRec
    BY <1>1, <2>1, NoteShape
  <2>3. Trusts(Noted(s, s.wish))
    BY <1>1, <2>1 DEF Trusts, Noted, Noting, Connecting, SenderRec
  <2> QED
    BY <1>2, <2>1, <2>2, <2>3
<1>6. CASE WarmFails(o)
  BY <1>1, <1>2, <1>6 DEF WarmFails
<1>7. CASE Dial(o)
  <2>1. PICK u : u = [s EXCEPT !.sock = "open", !.step = "register", !.asked = {}, !.inside = {}]
    OBVIOUS
  <2>2. sender' = [sender EXCEPT ![o] = u] /\ s.step = "dial"
    BY <1>1, <1>7, <2>1 DEF Dial, SendersTypeOK, SenderRec
  <2>3. ~s.ready /\ s.joined = {}
    BY <1>1, <2>2 DEF Trusts, Connecting
  <2>4. Trusts(u)
    BY <1>1, <2>1, <2>3 DEF Trusts, Noting, Connecting, SenderRec
  <2> QED
    BY <2>2, <2>4, <1>0, OneTrusts
<1>8. CASE Register(o)
  <2>1. PICK u : u = [s EXCEPT !.ready = TRUE, !.step = "talk"]
    OBVIOUS
  <2>2. sender' = [sender EXCEPT ![o] = u] /\ s.step = "register"
    BY <1>1, <1>8, <2>1 DEF Register, SendersTypeOK, SenderRec
  <2>3. Trusts(u)
    BY <1>1, <2>1, <2>2 DEF Trusts, Noting, Connecting, SenderRec
  <2> QED
    BY <2>2, <2>3, <1>0, OneTrusts
<1> QED
  BY <1>3, <1>4, <1>5, <1>6, <1>7, <1>8 DEF WarmStep

LEMMA NetworkTrusts ==
  ASSUME SendersTypeOK, TableTrusts, NetworkStep
  PROVE  TableTrusts'
<1>1. ASSUME NEW o \in Objs, Drop(o) PROVE TableTrusts'
  <2>1. sender[o] \in SenderRec /\ (InTable(o) => Trusts(sender[o]))
        /\ sender[o].sock = "open"
    BY <1>1 DEF SendersTypeOK, Drop, TableTrusts
  <2>2. PICK u : u = [sender[o] EXCEPT !.sock = "dead", !.inside = {}]
    OBVIOUS
  <2>3. sender' = [sender EXCEPT ![o] = u] /\ senders' = senders
    BY <1>1, <2>2 DEF Drop, SendersTypeOK, SenderRec
  <2>4. InTable(o) => Trusts(u)
    BY <2>1, <2>2 DEF Trusts, Noting, Connecting, SenderRec
  <2> QED
    BY <2>3, <2>4, OneTrusts
<1>2. ASSUME NEW o \in Objs, NEW c \in Chans, Kick(o, c) PROVE TableTrusts'
  <2>1. /\ sender[o] \in SenderRec /\ (InTable(o) => Trusts(sender[o]))
        /\ c \in Refusing
    BY <1>2 DEF SendersTypeOK, Kick, TableTrusts
  <2>2. PICK u : u = [sender[o] EXCEPT !.inside = @ \ {c}]
    OBVIOUS
  <2>3. sender' = [sender EXCEPT ![o] = u] /\ senders' = senders
    BY <1>2, <2>2 DEF Kick, SendersTypeOK, SenderRec
  <2>4. InTable(o) => Trusts(u)
    BY <2>1, <2>2 DEF Trusts, Noting, Connecting, SenderRec
  <2> QED
    BY <2>3, <2>4, OneTrusts
<1> QED
  BY <1>1, <1>2 DEF NetworkStep

(* say() raises while a socket is made, or with the socket it has.         *)
LEMMA SayTrusts ==
  ASSUME Talking, ~stopping, SayConnects \/ SayWrites \/ SayRaises
  PROVE  TableTrusts'
<1>1. SendersTypeOK /\ SendersInv /\ TableTrusts
  BY DEF Talking, IInv, TypeOK, JoinedIsTrue
<1>2. pc = "say" /\ Saying
  BY DEF SayConnects, SayWrites, SayRaises, Saying
<1>3. /\ using \in Objs /\ sender[using] \in SenderRec /\ outbox[cur].chan \in Chans
      /\ sender[using].step \in {"dial", "register", "talk"}
      /\ Trusts(sender[using])
  BY <1>1, <1>2, InHand DEF Talking, MainHolds, TableTrusts, InTable
<1>4. CASE SayConnects
  BY <1>1, <1>3, <1>4, WarmTrusts DEF SayConnects
<1>5. ASSUME NEW t \in SenderRec, Trusts(t), sender' = [sender EXCEPT ![using] = Released(t)],
             senders' = senders
      PROVE  TableTrusts'
  BY <1>1, <1>3, <1>5, ReleasedTrusts, OneTrusts
<1>6. CASE SayWrites
  <2>1. PICK t \in AfterJoin(sender[using], outbox[cur].chan) :
          sender' = [sender EXCEPT ![using] = Released(t)] /\ senders' = senders
    BY <1>6 DEF SayWrites
  <2>2. Trusts(t) /\ t \in SenderRec
    BY <1>1, <1>3, <1>6, JoinedTrusts DEF SayWrites
  <2> QED
    BY <1>5, <2>1, <2>2
<1>7. CASE SayRaises
  <2> DEFINE s == sender[using]
             c == outbox[cur].chan
  <2>1. PICK t \in {s} \cup (IF Connecting(s) THEN {}
                             ELSE IF CanWrite(s) THEN AfterJoin(s, c)
                             ELSE {Noted(s, c)}) :
          sender' = [sender EXCEPT ![using] = Released(t)] /\ senders' = senders
    BY <1>7 DEF SayRaises
  <2>2. CASE t = s
    BY <1>1, <1>3, <1>5, <2>1, <2>2
  <2>3. CASE t # s
    <3>1. ~Connecting(s) /\ s.step = "talk"
      BY <1>3, <2>1, <2>3 DEF Connecting
    <3>2. s.sock # "none" /\ CanWrite(s)
      BY <1>1, <1>3, <3>1 DEF Trusts, CanWrite
    <3>3. t \in AfterJoin(s, c)
      BY <2>1, <2>3, <3>1, <3>2
    <3>4. Trusts(t) /\ t \in SenderRec
      BY <1>1, <1>3, <3>1, <3>2, <3>3, JoinedTrusts
    <3> QED
      BY <1>5, <2>1, <3>4
  <2> QED
    BY <2>2, <2>3
<1> QED
  BY <1>4, <1>6, <1>7


LEMMA BeginSayTrusts ==
  ASSUME Talking, ~stopping, NEW r \in Row, NEW n \in Nets, NEW o \in Objs, BeginSay(r, n, o)
  PROVE  TableTrusts'
<1> DEFINE k == <<n, outbox[r].nick>>
<1>1. SendersTypeOK /\ TableTrusts
  BY DEF Talking, IInv, TypeOK, JoinedIsTrue
<1>2. k \in Key
  BY NextIsPending DEF BeginSay, Talking, Key
<1>3. /\ New(k) \in SenderRec /\ Trusts(New(k)) /\ sender[o] \in SenderRec
      /\ senders[k] = o => Trusts(sender[o])
  BY <1>1, <1>2, SenderShapes, UnusedTrusts DEF SendersTypeOK, TableTrusts, InTable
<1> HIDE DEF k
<1>4. PICK s \in {sender[o], New(k)} :
        /\ sender' = [sender EXCEPT ![o] = Locked(s, "main")]
        /\ senders[k] = o \/ s = New(k)
  BY DEF BeginSay, k
<1>5. Trusts(Locked(s, "main"))
  <2>1. s \in SenderRec /\ Trusts(s)
    BY <1>3, <1>4
  <2> QED
    BY <2>1, LockedTrusts
<1>6. \A p \in Objs : p # o /\ InTable(p)' => InTable(p)
  BY <1>1, <1>2 DEF BeginSay, k, InTable, SendersTypeOK
<1>7. sender'[o] = Locked(s, "main") /\ \A p \in Objs : p # o => sender'[p] = sender[p]
  <2>1. sender' = [sender EXCEPT ![o] = Locked(s, "main")] /\ sender \in [Objs -> SenderRec]
    BY <1>1, <1>4 DEF SendersTypeOK
  <2> QED
    BY <2>1
<1> QED
  BY <1>1, <1>5, <1>6, <1>7 DEF TableTrusts

LEMMA PrewarmTrusts ==
  ASSUME Talking, ~stopping, Prewarm
  PROVE  TableTrusts'
<1>1. SendersTypeOK /\ TableTrusts
  BY DEF Talking, IInv, TypeOK, JoinedIsTrue
<1>2. PICK ks \in SUBSET Asked :
        \E f \in [ks -> {o \in Objs : sender[o] = Unused}] : Made(ks, f)
  BY PrewarmMakes
<1>3. PICK f \in [ks -> {o \in Objs : sender[o] = Unused}] : Made(ks, f)
  BY <1>2
<1>4. ASSUME NEW p \in Objs, InTable(p)'
      PROVE  Trusts(sender'[p])
  <2>1. CASE \E k \in ks : f[k] = p
    <3>1. PICK k \in Key : sender'[p] = [New(k) EXCEPT !.warm = "waiting", !.wish = preopen[k]]
      <4>1. (CHOOSE l \in ks : f[l] = p) \in Key
        BY <2>1 DEF Asked
      <4> QED
        BY <1>3, <2>1, <4>1 DEF Made
    <3>2. Trusts([New(k) EXCEPT !.warm = "waiting", !.wish = preopen[k]])
      BY UnusedTrusts
    <3> QED
      BY <3>1, <3>2
  <2>2. CASE ~\E k \in ks : f[k] = p
    <3>1. sender'[p] = sender[p]
      BY <1>3, <2>2 DEF Made
    <3>2. InTable(p)
      BY <1>3, <1>4, <2>2 DEF Made, InTable
    <3> QED
      BY <1>1, <3>1, <3>2 DEF TableTrusts
  <2> QED
    BY <2>1, <2>2
<1> QED
  BY <1>4 DEF TableTrusts

(* Which steps touch a Sender, and how.                                    *)
LEMMA SenderSteps ==
  ASSUME [Next]_vars
  PROVE  \/ UNCHANGED <<senders, sender, using, stopping>> /\ pc' # "say"
         \/ UNCHANGED <<senders, sender, using, stopping, pc>>
         \/ PumpRaises /\ UNCHANGED <<senders, sender, stopping>> /\ pc' # "say"
         \/ LeaveTry /\ UNCHANGED <<senders, sender, stopping>> /\ pc' # "say"
         \/ StopRaises /\ stopping' = TRUE /\ senders' = senders /\ pc' # "say"
         \/ \E r \in Row, n \in Nets, o \in Objs : BeginSay(r, n, o)
         \/ SayConnects \/ SayWrites \/ SayRaises \/ MarkFailed
         \/ Prewarm \/ Reap \/ Stop \/ Restarted
         \/ \E o \in Objs : WarmThread(o)
         \/ NetworkStep /\ UNCHANGED <<db, main, history>>
<1>1. CASE ReadNets \/ ReadRows \/ PumpReturns \/ MarkRaises \/ MarkSent
  BY <1>1 DEF ReadNets, ReadRows, PumpReturns, MarkRaises, MarkSent
<1>2. CASE ServeStep \/ UNCHANGED vars \/ \E r \in Row : SkipRow(r)
  BY <1>2 DEF ServeStep, SendQueue, SendRoute, AskPreopen, Toggle, ServeCrash, SkipRow, vars, main
<1>3. CASE PumpRaises \/ LeaveTry
  BY <1>3 DEF PumpRaises, GiveUpPass, LeaveTry, RowDone
<1>4. CASE Exit \/ Crash
  BY <1>4 DEF Exit, Crash
<1>5. CASE StopRaises
  BY <1>5 DEF StopRaises, StopRaisesInRow, StopRaisesWaiting, StopRaisesOutside, GiveUpPass,
       RaisesInStop
<1> QED
  BY <1>1, <1>2, <1>3, <1>4, <1>5 DEF Next, MainStep, Pump, FaultStep

LEMMA JoinedStaysTrue ==
  ASSUME Talking, [Next]_vars
  PROVE  JoinedIsTrue'
<1>1. SUFFICES ASSUME ~stopping'
               PROVE  TableTrusts'
  BY DEF JoinedIsTrue
<1>2. Trusts(Unused)
  BY DEF Trusts, Unused, Noting, Connecting
<1>3. CASE Restarted
  BY <1>2, <1>3 DEF Restarted, TableTrusts
<1>4. CASE Stop \/ stopping' = TRUE
  BY <1>1, <1>4 DEF Stop
<1>5. CASE ~Restarted /\ ~Stop /\ stopping' # TRUE
  <2>1. ~stopping
    BY <1>1, <1>5, SenderSteps DEF BeginSay, SayConnects, SayWrites, SayRaises, MarkFailed, RowDone,
       Prewarm, Reap, WarmThread, main
  <2>2. /\ SendersTypeOK /\ SendersInv /\ (TableTrusts) /\ IInv
        /\ sender \in [Objs -> SenderRec]
    BY <2>1 DEF Talking, IInv, TypeOK, JoinedIsTrue, SendersTypeOK
  <2>3. CASE UNCHANGED <<senders, sender>>
    BY <2>2, <2>3 DEF TableTrusts, InTable
  <2>4. ASSUME NEW r \in Row, NEW n \in Nets, NEW o \in Objs, BeginSay(r, n, o)
        PROVE  TableTrusts'
    BY <2>1, <2>4, BeginSayTrusts
  <2>5. CASE SayConnects \/ SayWrites \/ SayRaises
    BY <2>1, <2>5, SayTrusts
  <2>6. CASE MarkFailed \/ Reap
    <3>1. CASE MarkFailed
      <4>1. \A p \in Objs : sender'[p] \in {sender[p], Unused} /\ (InTable(p)' => InTable(p))
        BY <2>2, <3>1 DEF MarkFailed, InTable, SendersTypeOK
      <4> QED
        BY <1>2, <2>2, <4>1 DEF TableTrusts
    <3>2. CASE Reap
      <4>1. \A p \in Objs : InTable(p)' => InTable(p) /\ sender'[p] = sender[p]
        BY <2>2, <3>2 DEF Reap, InTable, SendersTypeOK
      <4> QED
        BY <2>2, <4>1 DEF TableTrusts
    <3> QED
      BY <2>6, <3>1, <3>2
  <2>7. CASE Prewarm
    BY <2>1, <2>7, PrewarmTrusts
  <2>8. ASSUME NEW o \in Objs, WarmThread(o)
        PROVE  TableTrusts'
    BY <2>2, <2>8, WarmTrusts DEF WarmThread
  <2>9. CASE NetworkStep
    BY <2>2, <2>9, NetworkTrusts
  <2> QED
    BY <1>5, <2>3, <2>4, <2>5, <2>6, <2>7, <2>8, <2>9, SenderSteps
<1> QED
  BY <1>3, <1>4, <1>5

LEMMA MainStaysHolding ==
  ASSUME Talking, [Next]_vars
  PROVE  MainHolds'
<1>1. SUFFICES ASSUME pc' = "say"
               PROVE  /\ sender'[using'].holder = "main"
                      /\ sender'[using'].step \in {"dial", "register", "talk"}
  BY DEF MainHolds
<1>2. SendersTypeOK /\ SendersInv /\ sender \in [Objs -> SenderRec]
  BY DEF Talking, IInv, TypeOK, SendersTypeOK
<1>3. ASSUME NEW r \in Row, NEW n \in Nets, NEW o \in Objs, BeginSay(r, n, o)
      PROVE  /\ sender'[using'].holder = "main"
             /\ sender'[using'].step \in {"dial", "register", "talk"}
  <2> DEFINE k == <<n, outbox[r].nick>>
  <2>1. New(k) \in SenderRec /\ sender[o] \in SenderRec
    <3>1. k \in Key
      BY <1>3, NextIsPending DEF BeginSay, Talking, Key
    <3> QED
      BY <1>2, <3>1, SenderShapes
  <2> HIDE DEF k
  <2>2. PICK s \in {sender[o], New(k)} : sender' = [sender EXCEPT ![o] = Locked(s, "main")]
    BY <1>3 DEF BeginSay, k
  <2>3. Locked(s, "main").holder = "main" /\ Locked(s, "main").step \in {"dial", "talk"}
    BY <2>1 DEF Locked, SenderRec
  <2>4. sender'[using'] = Locked(s, "main")
    BY <1>2, <1>3, <2>2 DEF BeginSay
  <2> QED
    BY <2>3, <2>4
<1>4. ASSUME pc = "say"
      PROVE  /\ using \in Objs /\ sender[using] \in SenderRec /\ sender[using].holder = "main"
             /\ sender[using].step \in {"dial", "register", "talk"}
  BY <1>4, InHand DEF Saying, Talking, MainHolds
<1>5. CASE SayConnects
  <2>1. using' = using /\ pc = "say" /\ (Dial(using) \/ Register(using))
    BY <1>5 DEF SayConnects, main
  <2>2. sender'[using].holder = "main" /\ sender'[using].step \in {"register", "talk"}
    BY <1>2, <1>4, <2>1 DEF Dial, Register, SenderRec
  <2> QED
    BY <2>1, <2>2
<1>6. ASSUME NEW o \in Objs, WarmThread(o)
      PROVE  /\ sender'[using'].holder = "main"
             /\ sender'[using'].step \in {"dial", "register", "talk"}
  <2>1. UNCHANGED <<pc, using>> /\ WarmStep(o)
    BY <1>6 DEF WarmThread, main
  <2>2. sender[o].holder \in {"none", "warm"}
    BY <2>1 DEF WarmStep, WarmLock, WarmJoins, WarmNotes, WarmFails
  <2>3. o # using
    BY <1>1, <1>4, <2>1, <2>2
  <2>4. sender'[using] = sender[using]
    BY <1>1, <1>2, <1>4, <2>1, <2>3
       DEF WarmStep, WarmLock, WarmJoins, WarmNotes, WarmFails, WarmEnds, Dial, Register
  <2> QED
    BY <1>1, <1>4, <2>1, <2>4
<1>7. CASE NetworkStep /\ UNCHANGED <<db, main, history>>
  <2>1. UNCHANGED <<pc, using>>
    BY <1>7 DEF main
  <2>2. sender'[using].holder = sender[using].holder /\ sender'[using].step = sender[using].step
    BY <1>1, <1>2, <1>4, <1>7, <2>1 DEF NetworkStep, Drop, Kick, SenderRec
  <2> QED
    BY <1>1, <1>4, <2>1, <2>2
<1>8. CASE Stop
  <2>1. UNCHANGED <<pc, using>>
    BY <1>8 DEF Stop
  <2>2. sender'[using].holder = sender[using].holder /\ sender'[using].step = sender[using].step
    <3>1. sender'[using] \in {sender[using], Closed(sender[using])}
      BY <1>1, <1>4, <1>8, <2>1 DEF Stop
    <3>2. Closed(sender[using]).holder = sender[using].holder
          /\ Closed(sender[using]).step = sender[using].step
      BY <1>1, <1>4, <2>1 DEF Closed, SenderRec
    <3> QED
      BY <3>1, <3>2
  <2> QED
    BY <1>1, <1>4, <2>1, <2>2
<1>9. CASE UNCHANGED <<sender, using, pc>>
  BY <1>1, <1>4, <1>9
<1>10. CASE \/ SayWrites \/ SayRaises \/ MarkFailed \/ Prewarm \/ Reap \/ Restarted
            \/ pc' # "say"
  BY <1>1, <1>10 DEF SayWrites, SayRaises, MarkFailed, RowDone, Prewarm, Reap, Restarted
<1> QED
  BY <1>1, <1>3, <1>5, <1>6, <1>7, <1>8, <1>9, <1>10, SenderSteps


-----------------------------------------------------------------------------
(* Sockets outside the table.                                              *)

(* What the table has stays in it, and the others gain no socket and keep  *)
(* their thread.                                                           *)
LEMMA ExtraKept ==
  ASSUME ExtraSocketIsWarm, \A o \in Objs : InTable(o) => InTable(o)',
         \A o \in Objs : \/ sender'[o].sock = "none"
                         \/ InTable(o)'
                         \/ sender'[o].warm # "none"
                         \/ /\ sender[o].sock # "none"
                            /\ sender'[o].warm = sender[o].warm
  PROVE  ExtraSocketIsWarm'
BY DEF ExtraSocketIsWarm

LEMMA BeginSayExtra ==
  ASSUME IInv, ExtraSocketIsWarm, NEW r \in Row, NEW n \in Nets, NEW o \in Objs, BeginSay(r, n, o)
  PROVE  ExtraSocketIsWarm'
<1> DEFINE k == <<n, outbox[r].nick>>
<1>1. SendersTypeOK /\ k \in Key
  BY NextIsPending DEF BeginSay, IInv, TypeOK, Key
<1> HIDE DEF k
<1>2. senders' = [senders EXCEPT ![k] = o] /\ senders[k] \in {o, NoObj}
  BY DEF BeginSay, k
<1>3. InTable(o)'
  BY <1>1, <1>2 DEF InTable, SendersTypeOK
<1>4. \A p \in Objs : InTable(p) => InTable(p)'
  BY <1>1, <1>2 DEF InTable, SendersTypeOK
<1>5. \A p \in Objs : p # o => sender'[p] = sender[p]
  BY <1>1 DEF BeginSay, SendersTypeOK
<1> QED
  BY <1>3, <1>4, <1>5 DEF ExtraSocketIsWarm

LEMMA WarmExtra ==
  ASSUME SendersTypeOK, SendersInv, ExtraSocketIsWarm, NEW o \in Objs, WarmStep(o)
  PROVE  ExtraSocketIsWarm'
<1>1. senders' = senders /\ sender[o] \in SenderRec
      /\ (sender[o].holder = "warm" => sender[o].warm # "none")
  BY DEF WarmStep, WarmLock, WarmJoins, WarmNotes, WarmFails, WarmEnds, Dial, Register,
         SendersTypeOK, SendersInv, WarmHasWish
<1>2. \A p \in Objs : InTable(p) <=> InTable(p)'
  BY <1>1 DEF InTable
<1>3. \A p \in Objs : p # o => sender'[p] = sender[p]
  BY DEF WarmStep, WarmLock, WarmJoins, WarmNotes, WarmFails, WarmEnds, Dial, Register, SendersTypeOK
<1>4. InTable(o)' \/ sender'[o].warm # "none" \/ sender'[o].sock = "none"
  <2>1. ASSUME NEW s, WarmEnds(o, s)
        PROVE  InTable(o)' \/ sender'[o].sock = "none"
    <3>1. InTable(o) \/ sender' = [sender EXCEPT ![o] = Unused]
      BY <2>1 DEF WarmEnds
    <3> QED
      BY <1>2, <3>1 DEF Unused, SendersTypeOK
  <2>2. CASE WarmLock(o)
    <3>1. sender'[o] = [Locked(sender[o], "warm") EXCEPT !.warm = "inside"]
      BY <2>2 DEF WarmLock, SendersTypeOK
    <3> QED
      BY <1>1, <3>1 DEF Locked, SenderRec
  <2>3. CASE WarmJoins(o)
    <3>1. CASE sender[o].wish \in sender[o].joined
      BY <2>1, <2>3, <3>1 DEF WarmJoins
    <3>2. CASE sender[o].wish \notin sender[o].joined
      <4>1. sender[o].wish \in Chans /\ sender[o].warm # "none"
        BY <1>1, <2>3 DEF WarmJoins, SendersInv, WarmHasWish
      <4>2. PICK t \in AsksToJoin(sender[o], sender[o].wish) :
              sender' = [sender EXCEPT ![o] = [t EXCEPT !.step = "note"]]
        BY <2>3, <3>2 DEF WarmJoins
      <4>3. t \in SenderRec /\ t.warm = sender[o].warm
        BY <1>1, <4>1, AskShape
      <4>4. sender'[o].warm = t.warm
        BY <4>2, <4>3 DEF SendersTypeOK, SenderRec
      <4> QED
        BY <4>1, <4>3, <4>4
    <3> QED
      BY <3>1, <3>2
  <2>4. CASE WarmNotes(o) \/ WarmFails(o)
    BY <2>1, <2>4 DEF WarmNotes, WarmFails
  <2>5. CASE sender[o].holder = "warm" /\ (Dial(o) \/ Register(o))
    <3>1. sender'[o].warm = sender[o].warm
      BY <1>1, <2>5 DEF Dial, Register, SendersTypeOK, SenderRec
    <3> QED
      BY <1>1, <2>5, <3>1
  <2> QED
    BY <2>2, <2>3, <2>4, <2>5 DEF WarmStep
<1> QED
  BY <1>2, <1>3, <1>4 DEF ExtraSocketIsWarm

(* MarkFailed takes the Sender it used out of the table, and frees it      *)
(* unless a thread waits for it; Reap only takes out what nobody uses.     *)
LEMMA ForgottenExtra ==
  ASSUME IInv, ExtraSocketIsWarm, MarkFailed \/ Reap
  PROVE  ExtraSocketIsWarm'
<1>1. SendersTypeOK /\ SendersInv
  BY DEF IInv, TypeOK
<1>2. CASE MarkFailed
  <2>1. /\ using \in Objs /\ sender[using].key \in Key /\ senders[sender[using].key] = using
    BY <1>2, InHand DEF MarkFailed, Saying
  <2>2. /\ senders' = [senders EXCEPT ![sender[using].key] = NoObj]
        /\ sender' = [sender EXCEPT ![using] = IF @.warm = "none" THEN Unused ELSE @]
    BY <1>2 DEF MarkFailed
  <2>3. \A p \in Objs \ {using} : (InTable(p) => InTable(p)') /\ sender'[p] = sender[p]
    BY <1>1, <2>1, <2>2 DEF InTable, SendersTypeOK
  <2>4. sender'[using].sock = "none" \/ sender'[using].warm # "none"
    BY <1>1, <2>1, <2>2 DEF SendersTypeOK, Unused
  <2> QED
    BY <2>3, <2>4 DEF ExtraSocketIsWarm
<1>3. CASE Reap
  <2>1. PICK idle \in SUBSET Objs :
          /\ senders' = [k \in Key |-> IF senders[k] \in idle THEN NoObj ELSE senders[k]]
          /\ sender' = [o \in Objs |-> IF o \in idle THEN Forgotten(sender[o]) ELSE sender[o]]
    BY <1>3 DEF Reap
  <2>2. \A p \in Objs : p \in idle => sender'[p].sock = "none"
    <3>1. \A s \in SenderRec : Forgotten(s).sock = "none"
      BY DEF Forgotten, Unused, Closed, SenderRec
    <3> QED
      BY <1>1, <2>1, <3>1 DEF SendersTypeOK
  <2>3. \A p \in Objs : p \notin idle => sender'[p] = sender[p] /\ (InTable(p) => InTable(p)')
    BY <2>1 DEF InTable
  <2> QED
    BY <2>2, <2>3 DEF ExtraSocketIsWarm
<1> QED
  BY <1>2, <1>3

LEMMA PrewarmExtra ==
  ASSUME IInv, ExtraSocketIsWarm, Prewarm
  PROVE  ExtraSocketIsWarm'
<1>1. SendersTypeOK
  BY DEF IInv, TypeOK
<1>2. PICK ks \in SUBSET Asked :
        \E f \in [ks -> {o \in Objs : sender[o] = Unused}] : Made(ks, f)
  BY PrewarmMakes
<1>3. PICK f \in [ks -> {o \in Objs : sender[o] = Unused}] : Made(ks, f)
  BY <1>2
<1>4. \A p \in Objs : InTable(p) => InTable(p)'
  BY <1>3 DEF InTable, Made, Asked
<1>5. ASSUME NEW p \in Objs, \E k \in ks : f[k] = p
      PROVE  InTable(p)'
  BY <1>3, <1>5 DEF InTable, Made, Asked
<1>6. ASSUME NEW p \in Objs, ~\E k \in ks : f[k] = p
      PROVE  sender'[p] = sender[p]
  BY <1>3, <1>6 DEF Made
<1> QED
  BY <1>4, <1>5, <1>6, ExtraKept

LEMMA ExtraStaysWarm ==
  ASSUME Talking, ExtraSocketIsWarm, [Next]_vars
  PROVE  ExtraSocketIsWarm'
<1>1. SendersTypeOK /\ SendersInv /\ IInv /\ sender \in [Objs -> SenderRec]
  BY DEF Talking, IInv, TypeOK, SendersTypeOK
<1>2. CASE UNCHANGED <<senders, sender>>
  BY <1>2 DEF ExtraSocketIsWarm, InTable
<1>3. ASSUME NEW r \in Row, NEW n \in Nets, NEW o \in Objs, BeginSay(r, n, o)
      PROVE  ExtraSocketIsWarm'
  BY <1>1, <1>3, BeginSayExtra
<1>4. CASE SayConnects \/ SayWrites \/ SayRaises
  <2>1. Saying
    BY <1>4 DEF SayConnects, SayWrites, SayRaises, Saying
  <2>2. using \in Objs /\ sender[using].key \in Key /\ senders[sender[using].key] = using
    BY <1>1, <2>1, InHand
  <2>3. senders' = senders /\ \A p \in Objs : p # using => sender'[p] = sender[p]
    BY <1>1, <1>4, <2>2 DEF SayConnects, SayWrites, SayRaises, Dial, Register
  <2>4. \A p \in Objs : InTable(p) <=> InTable(p)'
    BY <2>3 DEF InTable
  <2>5. InTable(using)
    BY <2>2 DEF InTable
  <2> QED
    BY <2>3, <2>4, <2>5 DEF ExtraSocketIsWarm
<1>5. CASE MarkFailed \/ Reap
  BY <1>1, <1>5, ForgottenExtra
<1>6. CASE Prewarm
  BY <1>1, <1>6, PrewarmExtra
<1>7. CASE Stop
  <2>1. senders' = senders /\ \A p \in Objs : sender'[p] \in {sender[p], Closed(sender[p])}
    BY <1>7 DEF Stop
  <2>2. \A s \in SenderRec : Closed(s).sock = "none"
    BY DEF Closed, SenderRec
  <2> QED
    BY <1>1, <2>1, <2>2 DEF ExtraSocketIsWarm, InTable
<1>11. CASE StopRaises
  <2>1. /\ senders' = senders
        /\ \A p \in Objs : \/ sender'[p] = sender[p]
                           \/ p = using /\ Saying
    BY <1>1, <1>11 DEF StopRaises, StopRaisesInRow, StopRaisesWaiting, StopRaisesOutside, Saying
  <2>2. Saying => senders[sender[using].key] = using /\ sender[using].key \in Key
    BY <1>1, InHand
  <2>3. \A p \in Objs : (InTable(p) <=> InTable(p)') /\ (p = using /\ Saying => InTable(p))
    BY <2>1, <2>2 DEF InTable
  <2> QED
    BY <2>1, <2>3 DEF ExtraSocketIsWarm
<1>8. CASE Restarted
  BY <1>8 DEF Restarted, ExtraSocketIsWarm, Unused
<1>9. ASSUME NEW o \in Objs, WarmThread(o)
      PROVE  ExtraSocketIsWarm'
  BY <1>1, <1>9, WarmExtra DEF WarmThread
<1>10. CASE NetworkStep
  <2>1. senders' = senders
    BY <1>10 DEF NetworkStep, Drop, Kick
  <2>2. \A p \in Objs : sender'[p].warm = sender[p].warm /\ (sender'[p].sock # "none" => sender[p].sock # "none")
    BY <1>1, <1>10 DEF NetworkStep, Drop, Kick, SenderRec
  <2> QED
    BY <2>1, <2>2 DEF ExtraSocketIsWarm, InTable
<1> QED
  BY <1>2, <1>3, <1>4, <1>5, <1>6, <1>7, <1>8, <1>9, <1>10, <1>11, SenderSteps

(* What is known of the Senders: the main thread's lock is its own, and    *)
(* `joined` is about the socket there is.                                  *)
THEOREM SendersInvariant == Spec => [](Talking /\ ExtraSocketIsWarm)
<1>1. Init => Talking /\ ExtraSocketIsWarm
  <2>1. Init => IInv
    BY InitIInv
  <2>2. Trusts(Unused) /\ Unused.sock = "none"
    BY DEF Trusts, Unused, Noting, Connecting
  <2> QED
    BY <2>1, <2>2 DEF Init, SendersInit, FreshMain, Talking, JoinedIsTrue, TableTrusts, MainHolds,
         ExtraSocketIsWarm
<1>2. Talking /\ ExtraSocketIsWarm /\ IInv' /\ [Next]_vars => (Talking /\ ExtraSocketIsWarm)'
  BY JoinedStaysTrue, MainStaysHolding, ExtraStaysWarm DEF Talking
<1> QED
  BY <1>1, <1>2, InductiveInvariant, PTL DEF Spec

(* A user has two sockets on one network only while a pre-open thread      *)
(* works on the one that pump() has forgotten (connections.py, _warm).     *)
THEOREM ExtraSocketsAreWarm == Spec => []ExtraSocketIsWarm
  BY SendersInvariant, PTL

(* What say() writes.                                                      *)
LEMMA WrittenAfterJoin ==
  ASSUME Talking, ~stopping, [Next]_vars, wire' # wire
  PROVE  /\ wire'[Len(wire')].asked
         /\ sender[using].sock = "open" /\ outbox[cur].chan \notin Refusing => wire'[Len(wire')].heard
<1>1. SayWrites
  BY DEF Next, MainStep, Pump, FaultStep, ServeStep, ReadNets, ReadRows, PumpReturns, SkipRow, BeginSay,
         SayConnects, SayRaises, MarkSent, MarkFailed, Prewarm, Reap, Exit, Restarted, Stop, MarkRaises,
         PumpRaises, Crash, SendQueue, SendRoute, AskPreopen, Toggle, ServeCrash, WarmThread, LeaveTry,
         StopRaises, StopRaisesInRow, StopRaisesWaiting, StopRaisesOutside, history, vars
<1> DEFINE s == sender[using]
           c == outbox[cur].chan
<1>2. s \in SenderRec /\ Trusts(s) /\ c \in Chans /\ s.step = "talk" /\ CanWrite(s)
      /\ cur \in Row /\ s.key \in Key /\ wire \in Seq(WireRec)
  <2>1. Saying
    BY <1>1 DEF SayWrites, Saying
  <2> QED
    BY <1>1, <2>1, InHand DEF SayWrites, Talking, JoinedIsTrue, TableTrusts, InTable, IInv, TypeOK
<1>3. PICK t \in AfterJoin(s, c) :
        wire' = Append(wire, [row |-> cur, net |-> s.key[1], asked |-> c \in t.asked,
                              heard |-> t.sock = "open" /\ c \in t.inside])
  BY <1>1 DEF SayWrites
<1>4. /\ c \in t.asked /\ t.sock = s.sock
      /\ t.sock = "open" /\ c \notin Refusing => c \in t.inside
  BY <1>2, JoinedTrusts
<1>5. wire'[Len(wire')] = [row |-> cur, net |-> s.key[1], asked |-> c \in t.asked,
                           heard |-> t.sock = "open" /\ c \in t.inside]
  <2>1. PICK e : e = [row |-> cur, net |-> s.key[1], asked |-> c \in t.asked,
                      heard |-> t.sock = "open" /\ c \in t.inside]
    OBVIOUS
  <2>2. e \in WireRec
    BY <1>2, <2>1 DEF WireRec, Key
  <2>3. wire' = Append(wire, e)
    BY <1>3, <2>1
  <2>4. wire'[Len(wire')] = e
    BY ONLY <1>2, <2>2, <2>3
  <2> QED
    BY <2>1, <2>4
<1>6. wire'[Len(wire')].asked = (c \in t.asked)
      /\ wire'[Len(wire')].heard = (t.sock = "open" /\ c \in t.inside)
  BY <1>5
<1> QED
  BY <1>4, <1>6

(* No PRIVMSG goes out on a socket that did not ask to join its channel,   *)
(* although `joined` outlives lines, drops and pre-open threads            *)
(* (connections.py, say() and ensure()), until a shutdown has begun.       *)
THEOREM JoinsComeFirst == Spec => SpeaksOnlyAfterJoin
<1>1. Talking /\ [Next]_vars => [wire' # wire /\ ~stopping => wire'[Len(wire')].asked]_wire
  BY WrittenAfterJoin
<1> QED
  BY <1>1, SendersInvariant, PTL DEF Spec, SpeaksOnlyAfterJoin

(* A line written to a socket that is alive is heard in its channel,       *)
(* unless the channel refuses or removes the client.                       *)
THEOREM SpokenLinesAreHeard == Spec => SpokenIsHeard
<1>1. Talking /\ [Next]_vars =>
        [wire' # wire /\ ~stopping /\ sender[using].sock = "open"
           /\ outbox[cur].chan \notin Refusing => wire'[Len(wire')].heard]_wire
  BY WrittenAfterJoin
<1> QED
  BY <1>1, SendersInvariant, PTL DEF Spec, SpokenIsHeard
=============================================================================
