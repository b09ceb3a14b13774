--------------------------- MODULE PresenceProofs ---------------------------
(***************************************************************************)
(* Proofs about Presence: its type, that a lookup's answer is about the    *)
(* person it was asked for, and that the roster of a channel is who is in  *)
(* it once every line has been read, for any people, channels and bounds.  *)
(***************************************************************************)
EXTENDS Presence, FiniteSetTheorems, SequenceTheorems, TLAPS

-----------------------------------------------------------------------------
(* The inductive invariant.                                                *)

(* apply_channels is called by a thread that has a connection.             *)
Typed == /\ TypeOK
         /\ timeouts \in Nat
         /\ conn \in {"off", "down"} => taken = NoWish

(* Lines that say that a lookup was answered.                              *)
Answers(m) == m.t \in {"303", "421"}

(* The only one of its kind, and it answers the lookup in hand, k.         *)
OneAtMost(box, k) ==
  /\ \A i, j \in 1..Len(box) : Answers(box[i]) /\ Answers(box[j]) => i = j
  /\ \A i \in 1..Len(box) :
       Answers(box[i]) => k # NoOne /\ (box[i].t = "303" => box[i].n = k)

LookupsInHand == (timeouts = 0 => OneAtMost(inbox, ison)) /\ AnswerIsAboutAsked

(* Lines about one channel, and those that say that the archivist is in it *)
(* or not, or who is.                                                      *)
About(m, c) == m.t \in {"JOIN", "GONE", "353", "366"} /\ m.c = c
Resets(m, c) == About(m, c) /\ (m.t \in {"JOIN", "GONE"} => m.n = Me)

Farewell(c) == [t |-> "GONE", c |-> c, n |-> Me]
NamesOf(c, S) == [t |-> "353", c |-> c, ns |-> S]
EndOf(c) == [t |-> "366", c |-> c]

(* What a line that does not reset it makes of a channel's roster.         *)
Effect(m, c, S) ==
  IF m.t = "JOIN" /\ m.c = c THEN S \cup {m.n}
  ELSE IF m.t = "GONE" /\ m.c = c THEN S \ {m.n}
  ELSE IF m.t = "QUIT" THEN S \ {m.n}
  ELSE IF m.t = "NICK" THEN (IF m.n \in S THEN S \cup {m.to} ELSE S) \ {m.n}
  ELSE S

(* The list of names is followed by its end; one that is not written to    *)
(* the roster yet is about to be.                                          *)
ListsEnd(box) == \A i \in 1..Len(box) :
  box[i].t = "353" => i < Len(box) /\ box[i + 1] = EndOf(box[i].c)
ListInHand(box, nam) == \A c \in Chans :
  nam[c] # {} => box # <<>> /\ Head(box) = EndOf(c)

(* A roster S, synced or not, of a channel that the archivist is not in:   *)
(* what is still to be read about it ends in its farewell, and S is empty  *)
(* unless that is to be read.                                              *)
Parted(c, box, S, known) ==
  /\ \A i \in 1..Len(box) :
       About(box[i], c) => \E j \in 1..Len(box) : i <= j /\ box[j] = Farewell(c)
  /\ (\A i \in 1..Len(box) : box[i] # Farewell(c)) => S = {} /\ ~known

(* Where the roster starts that the lines to come lead on from: it is what *)
(* was rebuilt last, or what the last list of names to be read says.       *)
StartsAt(i, T, c, box, S, known, listed) ==
  /\ i = 0 => known /\ S = T
  /\ i = 1 => listed = T
  /\ i > 0 => box[i] = EndOf(c)
  /\ i > 1 => box[i - 1] = NamesOf(c, T)

(* From there on, h is the roster line by line.                            *)
LeadsOn(i, h, c, box) == \A j \in 1..Len(box) :
  j > i => ~Resets(box[j], c) /\ h[j] = Effect(box[j], c, h[j - 1])

(* A channel that the archivist is in: the lines lead to who is in it.     *)
Listens(c, box, S, known, listed, there) ==
  \E i \in 0..Len(box), h \in [0..Len(box) -> SUBSET Nick] :
    /\ StartsAt(i, h[i], c, box, S, known, listed)
    /\ LeadsOn(i, h, c, box)
    /\ h[Len(box)] = there

Follows(c, box) ==
  IF c \in inside
  THEN Listens(c, box, roster[c], c \in synced, names[c], members[c] \cup {Me})
  ELSE Parted(c, box, roster[c], c \in synced)

AllFollow(box) ==
  ListsEnd(box) /\ ListInHand(box, names) /\ \A c \in Chans : Follows(c, box)

RostersFollow == IF conn = "up" THEN AllFollow(inbox) ELSE inside = {}

IInv == Typed /\ LookupsInHand /\ (~CaseRenames => RostersFollow)

-----------------------------------------------------------------------------
(* Lines and lists.                                                        *)

LEMMA Lines ==
  /\ \A c \in Chans, n \in Nick : /\ [t |-> "JOIN", c |-> c, n |-> n] \in Message
                                  /\ [t |-> "GONE", c |-> c, n |-> n] \in Message
  /\ \A n \in People, b \in BOOLEAN : /\ [t |-> "QUIT", n |-> n] \in Message
                                      /\ [t |-> "303", n |-> n, on |-> b] \in Message
  /\ \A n, m \in People : [t |-> "NICK", n |-> n, to |-> m] \in Message
  /\ \A c \in Chans, S \in SUBSET Nick : [t |-> "353", c |-> c, ns |-> S] \in Message
  /\ \A c \in Chans : [t |-> "366", c |-> c] \in Message
  /\ [t |-> "001"] \in Message /\ [t |-> "421"] \in Message
BY DEF Message

(* What the fields of a line are.                                          *)
LEMMA LineFields ==
  ASSUME NEW m \in Message
  PROVE  /\ m.t \in {"001", "421", "JOIN", "GONE", "QUIT", "NICK", "353", "366", "303"}
         /\ m.t \in {"JOIN", "GONE"} => m = [t |-> m.t, c |-> m.c, n |-> m.n]
         /\ m.t = "353" => m = [t |-> "353", c |-> m.c, ns |-> m.ns]
         /\ m.t = "366" => m = [t |-> "366", c |-> m.c]
         /\ m.t \in {"JOIN", "GONE", "353", "366"} => m.c \in Chans
         /\ m.t \in {"JOIN", "GONE"} => m.n \in Nick
         /\ m.t \in {"QUIT", "NICK", "303"} => m.n \in People
         /\ m.t = "NICK" => m.to \in People
         /\ m.t = "353" => m.ns \in SUBSET Nick
         /\ m.t = "303" => m.on \in BOOLEAN
BY DEF Message

LEMMA Appended ==
  ASSUME NEW T, NEW s \in Seq(T), NEW e \in T
  PROVE  /\ Append(s, e) \in Seq(T) /\ Len(Append(s, e)) = Len(s) + 1
         /\ \A i \in 1..Len(s) : Append(s, e)[i] = s[i]
         /\ Append(s, e)[Len(s) + 1] = e
         /\ DOMAIN Append(s, e) = 1..(Len(s) + 1) /\ DOMAIN s = 1..Len(s)
BY AppendProperties, LenProperties

LEMMA Rest ==
  ASSUME NEW T, NEW s \in Seq(T), s # <<>>
  PROVE  /\ Head(s) = s[1] /\ s[1] \in T
         /\ Tail(s) \in Seq(T) /\ Len(Tail(s)) = Len(s) - 1
         /\ \A i \in 1..(Len(s) - 1) : Tail(s)[i] = s[i + 1]
         /\ DOMAIN Tail(s) = 1..(Len(s) - 1) /\ DOMAIN s = 1..Len(s)
         /\ Len(s) \in Nat \ {0}
<1>1. Len(s) \in Nat \ {0} /\ DOMAIN s = 1..Len(s)
  BY EmptySeq, LenProperties
<1>2. s[1] \in T
  BY <1>1, ElementOfSeq
<1> QED
  BY <1>1, <1>2, HeadTailProperties, LenProperties

LEMMA Shortened ==
  ASSUME NEW T, NEW s \in Seq(T), NEW n \in 0..Len(s)
  PROVE  /\ SubSeq(s, 1, n) \in Seq(T) /\ Len(SubSeq(s, 1, n)) = n
         /\ \A i \in 1..n : i \in 1..Len(s) /\ SubSeq(s, 1, n)[i] = s[i]
<1>1. Len(s) \in Nat /\ \A i \in 1..Len(s) : s[i] \in T
  BY LenProperties, ElementOfSeq
<1>2. n \in Nat /\ 1 \in Int /\ n \in Int /\ \A i \in 1..n : i \in 1..Len(s) /\ s[i] \in T
  BY <1>1
<1>3. /\ SubSeq(s, 1, n) \in Seq(T)
      /\ Len(SubSeq(s, 1, n)) = IF 1 <= n THEN n - 1 + 1 ELSE 0
      /\ \A i \in 1..(n - 1 + 1) : SubSeq(s, 1, n)[i] = s[1 + i - 1]
  BY <1>2, SubSeqProperties
<1>4. n - 1 + 1 = n /\ (1 <= n \/ n = 0) /\ \A i \in 1..n : 1 + i - 1 = i
  BY <1>2
<1> QED
  BY <1>2, <1>3, <1>4

LEMMA Joined ==
  ASSUME NEW T, NEW s \in Seq(T), NEW u \in Seq(T)
  PROVE  /\ s \o u \in Seq(T) /\ Len(s \o u) = Len(s) + Len(u)
         /\ Len(s) \in Nat /\ Len(u) \in Nat
         /\ DOMAIN (s \o u) = 1..(Len(s) + Len(u))
         /\ \A i \in 1..Len(s) : (s \o u)[i] = s[i]
         /\ \A i \in 1..Len(u) : (s \o u)[Len(s) + i] = u[i]
         /\ \A i \in 1..Len(s \o u) : i > Len(s) =>
              i - Len(s) \in 1..Len(u) /\ (s \o u)[i] = u[i - Len(s)]
<1>1. Len(s) \in Nat /\ Len(u) \in Nat
  BY LenProperties
<1>2. /\ s \o u \in Seq(T) /\ Len(s \o u) = Len(s) + Len(u)
      /\ \A i \in 1..(Len(s) + Len(u)) :
           (s \o u)[i] = IF i <= Len(s) THEN s[i] ELSE u[i - Len(s)]
  BY ConcatProperties
<1>3. DOMAIN (s \o u) = 1..(Len(s) + Len(u))
  BY <1>2, LenProperties
<1> QED
  BY <1>1, <1>2, <1>3

(* What becomes of the checks when one of them is taken out.               *)
LEMMA OthersAreKept ==
  ASSUME NEW s \in Seq(People), NEW n
  PROVE  /\ WithoutAsk(s, n) \in Seq(People)
         /\ \A i \in DOMAIN s : s[i] # n =>
              \E j \in DOMAIN WithoutAsk(s, n) : WithoutAsk(s, n)[j] = s[i]
<1>0. DOMAIN s = 1..Len(s) /\ Len(s) \in Nat /\ \A i \in 1..Len(s) : s[i] \in People
  BY LenProperties, ElementOfSeq
<1>1. CASE ~\E i \in DOMAIN s : s[i] = n
  BY <1>1 DEF WithoutAsk
<1>2. CASE \E i \in DOMAIN s : s[i] = n
  <2> DEFINE k == CHOOSE i \in DOMAIN s : s[i] = n
             a == SubSeq(s, 1, k - 1)
             b == SubSeq(s, k + 1, Len(s))
  <2>1. k \in 1..Len(s) /\ s[k] = n
    BY <1>0, <1>2
  <2>2. WithoutAsk(s, n) = a \o b
    BY <1>2 DEF WithoutAsk, RemoveAt
  <2> HIDE DEF k
  <2>3. /\ a \in Seq(People) /\ Len(a) = k - 1
        /\ \A i \in 1..(k - 1) : a[i] = s[i]
    <3>1. k - 1 \in Int /\ 1 \in Int /\ \A i \in 1..(k - 1) : s[i] \in People
      BY <1>0, <2>1
    <3>2. /\ a \in Seq(People) /\ Len(a) = IF 1 <= k - 1 THEN k - 1 - 1 + 1 ELSE 0
          /\ \A i \in 1..(k - 1 - 1 + 1) : a[i] = s[1 + i - 1]
      BY <3>1, SubSeqProperties
    <3> QED
      BY <2>1, <3>2
  <2>4. /\ b \in Seq(People) /\ Len(b) = Len(s) - k
        /\ \A i \in 1..(Len(s) - k) : b[i] = s[k + i]
    <3>1. k + 1 \in Int /\ Len(s) \in Int /\ \A i \in (k + 1)..Len(s) : s[i] \in People
      BY <1>0, <2>1
    <3>2. /\ b \in Seq(People)
          /\ Len(b) = IF k + 1 <= Len(s) THEN Len(s) - (k + 1) + 1 ELSE 0
          /\ \A i \in 1..(Len(s) - (k + 1) + 1) : b[i] = s[(k + 1) + i - 1]
      BY <3>1, SubSeqProperties
    <3> QED
      BY <1>0, <2>1, <3>2
  <2> HIDE DEF a, b
  <2>5. /\ a \o b \in Seq(People) /\ DOMAIN (a \o b) = 1..(Len(a) + Len(b))
        /\ \A i \in 1..Len(a) : (a \o b)[i] = a[i]
        /\ \A i \in 1..Len(b) : (a \o b)[Len(a) + i] = b[i]
    <3>1. a \in Seq(People) /\ b \in Seq(People)
      BY <2>3, <2>4
    <3> QED
      BY <3>1, Joined
  <2>6. ASSUME NEW i \in DOMAIN s, s[i] # n
        PROVE  \E j \in DOMAIN (a \o b) : (a \o b)[j] = s[i]
    <3>1. CASE i < k
      <4>1. i \in 1..Len(a)
        BY <1>0, <2>1, <2>3, <3>1
      <4> QED
        BY <1>0, <2>1, <2>3, <2>4, <2>5, <4>1
    <3>2. CASE i > k
      <4>1. i - k \in 1..Len(b) /\ k + (i - k) = i
        BY <1>0, <2>1, <2>4, <3>2
      <4>2. Len(a) + (i - k) \in DOMAIN (a \o b) /\ (a \o b)[Len(a) + (i - k)] = b[i - k]
        <5>1. \A q \in 1..Len(b) : Len(a) + q \in 1..(Len(a) + Len(b))
          BY <1>0, <2>1, <2>3, <2>4
        <5> QED
          BY <2>5, <4>1, <5>1
      <4>3. b[i - k] = s[i]
        BY <2>4, <4>1
      <4> QED
        BY <4>2, <4>3
    <3> QED
      BY <1>0, <2>1, <2>6, <3>1, <3>2
  <2> QED
    BY <2>2, <2>5, <2>6
<1> QED
  BY <1>1, <1>2

(* The order in which channels are joined or left.                         *)
Lists(s, S) == /\ s \in Seq(S)
               /\ \A x \in S : \E i \in 1..Len(s) : s[i] = x
               /\ \A i, j \in 1..Len(s) : s[i] = s[j] => i = j

LEMMA InSomeOrder ==
  ASSUME NEW S, IsFiniteSet(S)
  PROVE  Lists(SetToSeq(S), S)
<1> DEFINE n == Cardinality(S)
           f == SetToSeq(S)
<1>1. n \in Nat /\ \E g \in [1..n -> S] : IsInjective(g)
  BY FS_CardinalityType DEF ExistsBijection, Bijection, Injection
<1>2. f \in [1..n -> S] /\ IsInjective(f)
  BY <1>1 DEF SetToSeq
<1> HIDE DEF n, f
<1>3. f \in Seq(S) /\ Len(f) = n /\ DOMAIN f = 1..n
  BY <1>1, <1>2
<1>4. f \in Surjection(1..n, S)
  <2>1. Cardinality(1..n) = n
    BY <1>1, FS_Interval
  <2>2. f \in Injection(1..n, S)
    BY <1>2 DEF Injection
  <2> QED
    BY <2>1, <2>2, FS_Injection DEF n
<1> QED
  BY <1>2, <1>3, <1>4 DEF IsInjective, Surjection, Lists, f

(* What the server's answers to JOINs and PARTs say.                       *)
Replies(add, joins, parts) ==
  /\ add \in Seq(Message)
  /\ \A i \in 1..Len(add) : add[i].t \in {"JOIN", "353", "366", "GONE"}
  /\ ListsEnd(add)
  /\ \A c \in joins \ inside :
       \E k \in 2..Len(add) :
         /\ add[k] = EndOf(c) /\ add[k - 1] = NamesOf(c, members[c] \cup {Me})
         /\ \A j \in 1..Len(add) : j > k => ~About(add[j], c)
  /\ \A c \in parts \cap inside :
       \E k \in 1..Len(add) : /\ add[k] = Farewell(c)
                              /\ \A j \in 1..Len(add) : j > k => ~About(add[j], c)
  /\ \A c \in Chans : c \notin (joins \ inside) \cup (parts \cap inside) =>
       \A j \in 1..Len(add) : ~About(add[j], c)

(* The lines of JoinReply, by their place in the answers.                  *)
LEMMA Thirds ==
  ASSUME NEW n \in Nat
  PROVE  /\ \A i \in 1..3 * n :
              \E k \in 1..n, r \in 1..3 :
                /\ i = 3 * (k - 1) + r
                /\ (i + 2) \div 3 = k /\ 1 + ((i + 2) % 3) = r
         /\ \A k \in 1..n, r \in 1..3 :
              LET i == 3 * (k - 1) + r
              IN  i \in 1..3 * n /\ (i + 2) \div 3 = k /\ 1 + ((i + 2) % 3) = r
<1>1. ASSUME NEW i \in 1..3 * n
      PROVE  \E k \in 1..n, r \in 1..3 :
                /\ i = 3 * (k - 1) + r
                /\ (i + 2) \div 3 = k /\ 1 + ((i + 2) % 3) = r
  <2> DEFINE k == (i + 2) \div 3
             r == 1 + ((i + 2) % 3)
  <2>1. k \in 1..n /\ r \in 1..3 /\ i = 3 * (k - 1) + r
    OBVIOUS
  <2> QED
    BY <2>1
<1>2. ASSUME NEW k \in 1..n, NEW r \in 1..3
      PROVE  LET i == 3 * (k - 1) + r
             IN  i \in 1..3 * n /\ (i + 2) \div 3 = k /\ 1 + ((i + 2) % 3) = r
  OBVIOUS
<1> QED
  BY <1>1, <1>2

JoinsSaid(s, new) ==
  /\ s \in Seq(Message) /\ Len(s) = 3 * Len(new)
  /\ \A i \in 1..Len(s) : s[i].t \in {"JOIN", "353", "366"}
  /\ ListsEnd(s)
  /\ \A i \in 1..Len(s) : \E k \in 1..Len(new) : s[i].c = new[k]
  /\ \A k \in 1..Len(new) :
       /\ 3 * k \in 2..Len(s) /\ s[3 * k] = EndOf(new[k])
       /\ s[3 * k - 1] = NamesOf(new[k], members[new[k]] \cup {Me})
       /\ \A j \in 1..Len(s) : j > 3 * k => ~About(s[j], new[k])

LEMMA JoinsReplied ==
  ASSUME members \in [Chans -> SUBSET People],
         NEW new \in Seq(Chans), \A i, j \in 1..Len(new) : new[i] = new[j] => i = j,
         NEW s, s = [i \in 1..3 * Len(new) |->
                       JoinReply(new[(i + 2) \div 3])[1 + ((i + 2) % 3)]]
  PROVE  JoinsSaid(s, new)
<1> DEFINE n == Len(new)
<1>1. n \in Nat /\ \A k \in 1..n : new[k] \in Chans
  BY LenProperties, ElementOfSeq
<1>2. \A k \in 1..n, r \in 1..3 :
        3 * (k - 1) + r \in 1..3 * n /\ s[3 * (k - 1) + r] = JoinReply(new[k])[r]
  BY <1>1, Thirds
<1>3. \A i \in 1..3 * n : \E k \in 1..n, r \in 1..3 :
        i = 3 * (k - 1) + r /\ s[i] = JoinReply(new[k])[r]
  <2> TAKE i \in 1..3 * n
  <2>1. PICK k \in 1..n, r \in 1..3 :
          i = 3 * (k - 1) + r /\ (i + 2) \div 3 = k /\ 1 + ((i + 2) % 3) = r
    BY <1>1, Thirds
  <2>2. s[i] = JoinReply(new[k])[r]
    BY <2>1
  <2> QED
    BY <2>1, <2>2
<1>4. \A k \in 1..n : /\ JoinReply(new[k])[1] = [t |-> "JOIN", c |-> new[k], n |-> Me]
                      /\ JoinReply(new[k])[2] = NamesOf(new[k], members[new[k]] \cup {Me})
                      /\ JoinReply(new[k])[3] = EndOf(new[k])
  BY DEF JoinReply, NamesOf, EndOf
<1>5. \A k \in 1..n, r \in 1..3 :
        /\ JoinReply(new[k])[r] \in Message
        /\ JoinReply(new[k])[r].t \in {"JOIN", "353", "366"}
        /\ JoinReply(new[k])[r].c = new[k]
        /\ JoinReply(new[k])[r].t = "353" => r = 2
  <2> TAKE k \in 1..n, r \in 1..3
  <2>1. new[k] \in Chans /\ members[new[k]] \cup {Me} \in SUBSET Nick /\ Me \in Nick
    BY <1>1 DEF Nick
  <2>2. CASE r = 1
    <3>1. JoinReply(new[k])[r] = [t |-> "JOIN", c |-> new[k], n |-> Me]
      BY <1>4, <2>2
    <3>2. [t |-> "JOIN", c |-> new[k], n |-> Me] \in Message
      BY <2>1, Lines
    <3> QED
      BY <2>2, <3>1, <3>2
  <2>3. CASE r = 2
    <3>1. JoinReply(new[k])[r] = [t |-> "353", c |-> new[k], ns |-> members[new[k]] \cup {Me}]
      BY <1>4, <2>3 DEF NamesOf
    <3>2. JoinReply(new[k])[r] \in Message
      BY <2>1, <3>1, Lines
    <3> QED
      BY <2>3, <3>1, <3>2
  <2>4. CASE r = 3
    <3>1. JoinReply(new[k])[r] = [t |-> "366", c |-> new[k]]
      BY <1>4, <2>4 DEF EndOf
    <3> QED
      BY <2>1, <3>1, Lines
  <2> QED
    BY <2>2, <2>3, <2>4
<1>6. s \in Seq(Message) /\ Len(s) = 3 * n
  <2>1. ASSUME NEW i \in 1..3 * n
        PROVE  s[i] \in Message
    <3>1. PICK k \in 1..n, r \in 1..3 : s[i] = JoinReply(new[k])[r]
      BY <1>3
    <3>2. JoinReply(new[k])[r] \in Message
      BY <1>5
    <3> QED
      BY <3>1, <3>2, Zenon
  <2> QED
    BY <1>1, <2>1
<1> HIDE DEF n
<1>7. \A i \in 1..Len(s) : s[i].t \in {"JOIN", "353", "366"}
                           /\ \E k \in 1..n : s[i].c = new[k]
  <2> TAKE i \in 1..Len(s)
  <2>1. PICK k \in 1..n, r \in 1..3 : s[i] = JoinReply(new[k])[r]
    BY <1>3, <1>6
  <2> QED
    BY <1>5, <2>1
<1>8. \A k \in 1..n : /\ 3 * k \in 2..Len(s) /\ s[3 * k] = EndOf(new[k])
                      /\ s[3 * k - 1] = NamesOf(new[k], members[new[k]] \cup {Me})
  <2> TAKE k \in 1..n
  <2>1. 3 * (k - 1) + 2 = 3 * k - 1 /\ 3 * (k - 1) + 3 = 3 * k /\ 3 * k \in 2..3 * n
    BY <1>1
  <2>2. s[3 * (k - 1) + 2] = JoinReply(new[k])[2] /\ s[3 * (k - 1) + 3] = JoinReply(new[k])[3]
    BY <1>2
  <2> QED
    BY <1>4, <1>6, <2>1, <2>2
<1>9. ListsEnd(s)
  <2> SUFFICES ASSUME NEW i \in 1..Len(s), s[i].t = "353"
               PROVE  i < Len(s) /\ s[i + 1] = EndOf(s[i].c)
    BY DEF ListsEnd
  <2>1. PICK k \in 1..n, r \in 1..3 : i = 3 * (k - 1) + r /\ s[i] = JoinReply(new[k])[r]
    BY <1>3, <1>6
  <2>2. r = 2 /\ s[i].c = new[k]
    <3>1. JoinReply(new[k])[r].t = "353"
      BY <2>1
    <3>2. r = 2
      BY <1>5, <3>1
    <3> QED
      BY <1>5, <2>1, <3>2
  <2> QED
    <3>1. i + 1 = 3 * k /\ i < Len(s)
      BY <1>1, <1>6, <2>1, <2>2
    <3>2. s[3 * k] = EndOf(new[k])
      BY <1>8
    <3> QED
      BY <2>2, <3>1, <3>2
<1>10. ASSUME NEW k \in 1..n, NEW j \in 1..Len(s), j > 3 * k
       PROVE  ~About(s[j], new[k])
  <2>1. PICK l \in 1..n, r \in 1..3 : j = 3 * (l - 1) + r /\ s[j] = JoinReply(new[l])[r]
    BY <1>3, <1>6
  <2>2. l # k
    BY <1>1, <1>10, <2>1
  <2>3. s[j].c = new[l] /\ new[l] # new[k]
    BY <1>5, <2>1, <2>2 DEF n
  <2> QED
    BY <2>3 DEF About
<1> QED
  BY <1>6, <1>7, <1>8, <1>9, <1>10 DEF JoinsSaid, n

PartsSaid(u, left) == /\ u \in Seq(Message) /\ Len(u) = Len(left)
                      /\ \A i \in 1..Len(u) : u[i] = Farewell(left[i])

LEMMA PartsEchoed ==
  ASSUME NEW left \in Seq(Chans), \A i, j \in 1..Len(left) : left[i] = left[j] => i = j,
         NEW u, u = [i \in DOMAIN left |-> [t |-> "GONE", c |-> left[i], n |-> Me]]
  PROVE  PartsSaid(u, left)
<1>1. Len(left) \in Nat /\ DOMAIN left = 1..Len(left) /\ \A i \in 1..Len(left) : left[i] \in Chans
  BY LenProperties, ElementOfSeq
<1>2. \A i \in 1..Len(left) : u[i] = Farewell(left[i]) /\ u[i] \in Message
  BY <1>1, Lines DEF Farewell, Nick
<1> QED
  BY <1>1, <1>2 DEF PartsSaid

(* All the answers, those to the JOINs before those to the PARTs.          *)
LEMMA AnswersTogether ==
  ASSUME NEW joins \in SUBSET Chans, NEW parts \in SUBSET Chans, joins \cap parts = {},
         NEW new, Lists(new, joins \ inside), NEW left, Lists(left, parts \cap inside),
         NEW jl, JoinsSaid(jl, new), NEW pl, PartsSaid(pl, left)
  PROVE  Replies(jl \o pl, joins, parts)
<1>5. /\ new \in Seq(Chans) /\ left \in Seq(Chans)
      /\ \A k \in 1..Len(new) : new[k] \in joins \ inside
      /\ \A k \in 1..Len(left) : left[k] \in parts \cap inside
  <2>1. joins \ inside \subseteq Chans /\ parts \cap inside \subseteq Chans
    OBVIOUS
  <2>2. new \in Seq(Chans)
    BY <2>1, SeqMonotonic DEF Lists
  <2>3. left \in Seq(Chans)
    BY <2>1, SeqMonotonic DEF Lists
  <2>4. \A k \in 1..Len(new) : new[k] \in joins \ inside
    BY ElementOfSeq DEF Lists
  <2>5. \A k \in 1..Len(left) : left[k] \in parts \cap inside
    BY ElementOfSeq DEF Lists
  <2> QED
    BY <2>2, <2>3, <2>4, <2>5
<1>6. /\ jl \in Seq(Message) /\ Len(jl) = 3 * Len(new)
      /\ \A i \in 1..Len(jl) : jl[i].t \in {"JOIN", "353", "366"}
      /\ ListsEnd(jl)
      /\ \A i \in 1..Len(jl) : \E k \in 1..Len(new) : jl[i].c = new[k]
      /\ \A k \in 1..Len(new) :
           /\ 3 * k \in 2..Len(jl) /\ jl[3 * k] = EndOf(new[k])
           /\ jl[3 * k - 1] = NamesOf(new[k], members[new[k]] \cup {Me})
           /\ \A j \in 1..Len(jl) : j > 3 * k => ~About(jl[j], new[k])
  BY DEF JoinsSaid
<1>7. /\ pl \in Seq(Message) /\ Len(pl) = Len(left)
      /\ \A i \in 1..Len(pl) : pl[i] = Farewell(left[i])
  BY DEF PartsSaid
<1> DEFINE add == jl \o pl
<1>8. /\ add \in Seq(Message) /\ Len(add) = Len(jl) + Len(pl)
      /\ Len(jl) \in Nat /\ Len(pl) \in Nat
      /\ \A i \in 1..Len(jl) : add[i] = jl[i]
      /\ \A i \in 1..Len(pl) : add[Len(jl) + i] = pl[i]
      /\ \A i \in 1..Len(add) : i > Len(jl) =>
           i - Len(jl) \in 1..Len(pl) /\ add[i] = pl[i - Len(jl)]
  <2>1. jl \in Seq(Message) /\ pl \in Seq(Message)
    BY <1>6, <1>7
  <2> QED
    BY <2>1, Joined
<1> HIDE DEF add
(* A line is of the first or of the second kind.                           *)
<1>9. \A i \in 1..Len(add) :
        \/ /\ i \in 1..Len(jl) /\ add[i] = jl[i]
           /\ add[i].t \in {"JOIN", "353", "366"} /\ add[i].c \in joins \ inside
        \/ /\ i > Len(jl) /\ i - Len(jl) \in 1..Len(pl)
           /\ add[i] = Farewell(left[i - Len(jl)])
           /\ add[i].t = "GONE" /\ add[i].c = left[i - Len(jl)]
           /\ add[i].c \in parts \cap inside
  <2> TAKE i \in 1..Len(add)
  <2>1. CASE i <= Len(jl)
    <3>1. i \in 1..Len(jl) /\ add[i] = jl[i]
      BY <1>8, <2>1
    <3>2. jl[i].c \in joins \ inside
      BY <1>5, <1>6, <3>1
    <3> QED
      BY <1>6, <3>1, <3>2
  <2>2. CASE i > Len(jl)
    <3>1. i - Len(jl) \in 1..Len(pl) /\ add[i] = pl[i - Len(jl)]
      BY <1>8, <2>2
    <3>2. pl[i - Len(jl)] = Farewell(left[i - Len(jl)])
      BY <1>7, <3>1
    <3>3. left[i - Len(jl)] \in parts \cap inside
      BY <1>5, <1>7, <3>1
    <3> QED
      BY <2>2, <3>1, <3>2, <3>3 DEF Farewell
  <2> QED
    BY <1>8, <2>1, <2>2
<1>10. ListsEnd(add)
  <2> SUFFICES ASSUME NEW i \in 1..Len(add), add[i].t = "353"
               PROVE  i < Len(add) /\ add[i + 1] = EndOf(add[i].c)
    BY DEF ListsEnd
  <2>1. i \in 1..Len(jl) /\ add[i] = jl[i]
    BY <1>9
  <2>2. i < Len(jl) /\ jl[i + 1] = EndOf(jl[i].c)
    BY <1>6, <2>1 DEF ListsEnd
  <2>3. i + 1 \in 1..Len(jl) /\ i < Len(add)
    BY <1>8, <2>1, <2>2
  <2> QED
    BY <1>8, <2>1, <2>2, <2>3
<1>11. ASSUME NEW c \in joins \ inside
       PROVE  \E k \in 2..Len(add) :
                /\ add[k] = EndOf(c) /\ add[k - 1] = NamesOf(c, members[c] \cup {Me})
                /\ \A j \in 1..Len(add) : j > k => ~About(add[j], c)
  <2>1. PICK k \in 1..Len(new) : new[k] = c
    BY DEF Lists
  <2>2. /\ 3 * k \in 2..Len(jl) /\ jl[3 * k] = EndOf(c)
        /\ jl[3 * k - 1] = NamesOf(c, members[c] \cup {Me})
        /\ \A j \in 1..Len(jl) : j > 3 * k => ~About(jl[j], c)
    BY <1>6, <2>1
  <2> DEFINE l == 3 * k
  <2> HIDE DEF l
  <2>3. l \in 2..Len(add) /\ l \in 1..Len(jl) /\ l - 1 \in 1..Len(jl)
    BY <1>8, <2>2 DEF l
  <2>4. add[l] = EndOf(c) /\ add[l - 1] = NamesOf(c, members[c] \cup {Me})
    BY <1>8, <2>2, <2>3 DEF l
  <2>5. ASSUME NEW j \in 1..Len(add), j > l
        PROVE  ~About(add[j], c)
    BY <1>9, <2>2, <2>5 DEF About, l
  <2> QED
    BY <2>3, <2>4, <2>5
<1>12. ASSUME NEW c \in parts \cap inside
       PROVE  \E k \in 1..Len(add) : /\ add[k] = Farewell(c)
                                     /\ \A j \in 1..Len(add) : j > k => ~About(add[j], c)
  <2>1. PICK k \in 1..Len(left) : left[k] = c
    BY DEF Lists
  <2> DEFINE l == Len(jl) + k
  <2>2. l \in 1..Len(add) /\ add[l] = Farewell(c)
    <3>1. k \in 1..Len(pl)
      BY <1>7
    <3>2. l \in 1..Len(add)
      BY <1>8, <3>1
    <3>3. add[l] = pl[k] /\ pl[k] = Farewell(left[k])
      BY <1>7, <1>8, <3>1
    <3> QED
      BY <2>1, <3>2, <3>3
  <2>3. ASSUME NEW j \in 1..Len(add), j > l
        PROVE  ~About(add[j], c)
    <3>1. /\ j - Len(jl) \in 1..Len(left) /\ j - Len(jl) # k
          /\ add[j].c = left[j - Len(jl)]
      BY <1>7, <1>8, <1>9, <2>1, <2>3
    <3>2. left[j - Len(jl)] # c
      BY <2>1, <3>1 DEF Lists
    <3> QED
      BY <3>1, <3>2 DEF About
  <2> QED
    BY <2>2, <2>3
<1>13. \A c \in Chans : c \notin (joins \ inside) \cup (parts \cap inside) =>
         \A j \in 1..Len(add) : ~About(add[j], c)
  BY <1>9 DEF About
<1>14. \A i \in 1..Len(add) : add[i].t \in {"JOIN", "353", "366", "GONE"}
  BY <1>9
<1> QED
  BY <1>8, <1>10, <1>11, <1>12, <1>13, <1>14 DEF Replies, add

(* Request() adds such answers to what is waiting to be read.              *)
LEMMA Requested ==
  ASSUME PresenceAssumption, members \in [Chans -> SUBSET People],
         NEW joins \in SUBSET Chans, NEW parts \in SUBSET Chans, joins \cap parts = {},
         NEW lines \in Seq(Message), conn = "up", Request(joins, parts, lines)
  PROVE  /\ inside' = (inside \cup joins) \ parts
         /\ \E add : Replies(add, joins, parts) /\ inbox' = lines \o add
<1>1. PICK new, left : new = SetToSeq(joins \ inside) /\ left = SetToSeq(parts \cap inside)
  OBVIOUS
<1>2. PICK jl, pl :
        /\ jl = [i \in 1..3 * Len(new) |->
                   JoinReply(new[(i + 2) \div 3])[1 + ((i + 2) % 3)]]
        /\ pl = [i \in DOMAIN left |-> [t |-> "GONE", c |-> left[i], n |-> Me]]
  OBVIOUS
<1>3. inside' = (inside \cup joins) \ parts /\ inbox' = lines \o (jl \o pl)
  BY <1>1, <1>2 DEF Request
<1>4. IsFiniteSet(joins \ inside) /\ IsFiniteSet(parts \cap inside)
  BY FS_Subset DEF PresenceAssumption
<1>5. Lists(new, joins \ inside) /\ Lists(left, parts \cap inside)
  BY <1>1, <1>4, InSomeOrder
<1>6. JoinsSaid(jl, new) /\ PartsSaid(pl, left)
  <2>1. new \in Seq(Chans) /\ left \in Seq(Chans)
    BY <1>5, SeqMonotonic DEF Lists
  <2> QED
    BY <1>2, <1>5, <2>1, JoinsReplied, PartsEchoed DEF Lists
<1>7. Replies(jl \o pl, joins, parts)
  BY <1>5, <1>6, AnswersTogether
<1> QED
  BY <1>3, <1>7

-----------------------------------------------------------------------------
(* What reading and writing lines does to what they lead to.               *)

LEMMA EffectTyped ==
  ASSUME NEW m \in Message, NEW c, NEW S \in SUBSET Nick
  PROVE  Effect(m, c, S) \in SUBSET Nick
BY LineFields DEF Effect, Nick

(* More lines, none of which resets the roster.                            *)
LEMMA ListensOn ==
  ASSUME NEW c, NEW box \in Seq(Message), NEW add \in Seq(Message),
         NEW S, NEW known, NEW listed, NEW there,
         Listens(c, box, S, known, listed, there),
         NEW g \in [0..Len(add) -> SUBSET Nick], g[0] = there,
         LeadsOn(0, g, c, add)
  PROVE  Listens(c, box \o add, S, known, listed, g[Len(add)])
<1> DEFINE n == Len(box)
<1>1. PICK i \in 0..n, h \in [0..n -> SUBSET Nick] :
        /\ StartsAt(i, h[i], c, box, S, known, listed)
        /\ LeadsOn(i, h, c, box)
        /\ h[n] = there
  BY DEF Listens
<1>2. PICK b : b = box \o add
  OBVIOUS
<1>3. /\ Len(b) = n + Len(add) /\ n \in Nat /\ Len(add) \in Nat
      /\ \A j \in 1..n : b[j] = box[j]
      /\ \A j \in 1..Len(b) : j > n => j - n \in 1..Len(add) /\ b[j] = add[j - n]
  BY <1>2, Joined
<1> HIDE DEF n
<1> DEFINE f == [j \in 0..Len(b) |-> IF j <= n THEN h[j] ELSE g[j - n]]
<1>4. f \in [0..Len(b) -> SUBSET Nick]
  <2>1. ASSUME NEW j \in 0..Len(b)
        PROVE  (IF j <= n THEN h[j] ELSE g[j - n]) \in SUBSET Nick
    <3>1. CASE j <= n
      <4>1. j \in 0..n
        BY <1>3, <3>1
      <4> QED
        BY <3>1, <4>1
    <3>2. CASE j > n
      <4>1. j - n \in 0..Len(add) /\ ~(j <= n)
        BY <1>3, <3>2
      <4> QED
        BY <4>1
    <3> QED
      BY <1>3, <3>1, <3>2
  <2> QED
    BY <2>1
<1>5. \A j \in 0..n : j \in 0..Len(b) /\ f[j] = h[j]
  BY <1>3
<1>6. \A j \in 1..Len(b) : j > n => f[j] = g[j - n] /\ f[j - 1] = g[j - n - 1]
  <2> SUFFICES ASSUME NEW j \in 1..Len(b), j > n
               PROVE  f[j] = g[j - n] /\ f[j - 1] = g[j - n - 1]
    OBVIOUS
  <2>1. f[j] = g[j - n]
    BY <1>3
  <2>2. CASE j = n + 1
    <3>1. j - 1 = n /\ j - n - 1 = 0 /\ n \in 0..n
      BY <1>3, <2>2
    <3> QED
      BY <1>1, <1>5, <2>1, <3>1 DEF n
  <2>3. CASE j > n + 1
    <3>1. j - 1 \in 0..Len(b) /\ ~(j - 1 <= n) /\ (j - 1) - n = j - n - 1
      BY <1>3, <2>3
    <3> QED
      BY <2>1, <3>1
  <2> QED
    BY <1>3, <2>1, <2>2, <2>3
<1>7. f[Len(b)] = g[Len(add)]
  <2>1. CASE Len(add) = 0
    <3>1. Len(b) = n /\ n \in 0..n
      BY <1>3, <2>1
    <3> QED
      BY <1>1, <1>5, <2>1, <3>1 DEF n
  <2>2. CASE Len(add) > 0
    <3>1. Len(b) \in 1..Len(b) /\ Len(b) > n /\ Len(b) - n = Len(add)
      BY <1>3, <2>2
    <3> QED
      BY <1>6, <3>1
  <2> QED
    BY <1>3, <2>1, <2>2
<1> HIDE DEF f
<1>8. StartsAt(i, f[i], c, b, S, known, listed)
  <2>1. i \in Nat /\ i <= n /\ (i > 0 => i \in 1..n) /\ (i > 1 => i - 1 \in 1..n)
    BY <1>3
  <2>2. f[i] = h[i]
    BY <1>5
  <2> QED
    BY <1>1, <1>3, <2>1, <2>2 DEF StartsAt
<1>9. LeadsOn(i, f, c, b)
  <2> SUFFICES ASSUME NEW j \in 1..Len(b), j > i
               PROVE  ~Resets(b[j], c) /\ f[j] = Effect(b[j], c, f[j - 1])
    BY DEF LeadsOn
  <2>1. CASE j <= n
    <3>1. j \in 1..n /\ j \in 0..n /\ j - 1 \in 0..n
      BY <1>3, <2>1
    <3>2. ~Resets(box[j], c) /\ h[j] = Effect(box[j], c, h[j - 1])
      BY <1>1, <3>1 DEF LeadsOn, n
    <3> QED
      BY <1>3, <1>5, <3>1, <3>2
  <2>2. CASE j > n
    <3>1. j - n \in 1..Len(add) /\ b[j] = add[j - n] /\ j - n > 0
      BY <1>3, <2>2
    <3>2. ~Resets(add[j - n], c) /\ g[j - n] = Effect(add[j - n], c, g[j - n - 1])
      BY <3>1 DEF LeadsOn
    <3> QED
      BY <1>6, <2>2, <3>1, <3>2
  <2> QED
    BY <1>3, <2>1, <2>2
<1>10. i \in 0..Len(b)
  BY <1>3
<1> QED
  BY <1>2, <1>4, <1>7, <1>8, <1>9, <1>10 DEF Listens

(* One more line.                                                          *)
LEMMA ListensToOne ==
  ASSUME NEW c, NEW box \in Seq(Message), NEW m \in Message,
         NEW S, NEW known, NEW listed, NEW there \in SUBSET Nick, NEW then,
         Listens(c, box, S, known, listed, there),
         ~Resets(m, c), then = Effect(m, c, there)
  PROVE  Listens(c, Append(box, m), S, known, listed, then)
<1>1. PICK add, g : add = <<m>> /\ g = [j \in 0..1 |-> IF j = 0 THEN there ELSE then]
  OBVIOUS
<1>2. add \in Seq(Message) /\ Len(add) = 1 /\ add[1] = m
  BY <1>1
<1>3. g \in [0..Len(add) -> SUBSET Nick] /\ g[0] = there /\ g[1] = then
  BY <1>1, <1>2, EffectTyped
<1>4. LeadsOn(0, g, c, add)
  <2> SUFFICES ASSUME NEW j \in 1..1
               PROVE  ~Resets(add[j], c) /\ g[j] = Effect(add[j], c, g[j - 1])
    BY <1>2 DEF LeadsOn
  <2>1. j = 1 /\ j - 1 = 0
    OBVIOUS
  <2> QED
    BY <1>2, <1>3, <2>1
<1>5. Append(box, m) = box \o add
  BY <1>1, AppendIsConcat
<1> QED
  BY <1>2, <1>3, <1>4, <1>5, ListensOn

(* Lines that list the names, and nothing of the channel after that.       *)
LEMMA ListensAnew ==
  ASSUME NEW c, NEW box \in Seq(Message), NEW add \in Seq(Message),
         NEW S, NEW known, NEW listed, NEW there \in SUBSET Nick,
         \A i \in 1..Len(add) : add[i].t \in {"JOIN", "353", "366", "GONE"},
         NEW k \in 2..Len(add), add[k] = EndOf(c), add[k - 1] = NamesOf(c, there),
         \A j \in 1..Len(add) : j > k => ~About(add[j], c)
  PROVE  Listens(c, box \o add, S, known, listed, there)
<1>1. PICK b, n, i : b = box \o add /\ n = Len(box) /\ i = n + k
  OBVIOUS
<1>2. /\ Len(b) = n + Len(add) /\ n \in Nat /\ Len(add) \in Nat
      /\ \A j \in 1..Len(add) : b[n + j] = add[j]
      /\ \A j \in 1..Len(b) : j > n => j - n \in 1..Len(add) /\ b[j] = add[j - n]
  BY <1>1, Joined
<1> DEFINE f == [j \in 0..Len(b) |-> there]
<1>3. i \in 0..Len(b) /\ i > 1 /\ b[i] = EndOf(c) /\ b[i - 1] = NamesOf(c, there)
  <2>1. k \in 1..Len(add) /\ k - 1 \in 1..Len(add) /\ n + (k - 1) = i - 1
    <3>1. i = n + k /\ n \in Nat /\ Len(add) \in Nat /\ k \in 2..Len(add)
      BY <1>1, <1>2
    <3> QED
      BY ONLY <3>1
  <2>2. b[n + k] = add[k] /\ b[n + (k - 1)] = add[k - 1]
    BY <1>2, <2>1
  <2>3. i \in 0..Len(b) /\ i > 1
    <3>1. i = n + k /\ Len(b) = n + Len(add) /\ n \in Nat /\ Len(add) \in Nat
      BY <1>1, <1>2
    <3> QED
      BY <3>1
  <2> QED
    BY <1>1, <2>1, <2>2, <2>3
<1>4. StartsAt(i, f[i], c, b, S, known, listed)
  BY <1>3 DEF StartsAt
<1>5. ASSUME NEW j \in 1..Len(b), j > i
      PROVE  ~Resets(b[j], c) /\ f[j] = Effect(b[j], c, f[j - 1])
  <2>1. j - n \in 1..Len(add) /\ j - n > k /\ b[j] = add[j - n]
    BY <1>1, <1>2, <1>5
  <2>2. ~About(b[j], c) /\ b[j].t \in {"JOIN", "353", "366", "GONE"}
    BY <2>1
  <2>3. f[j] = there /\ f[j - 1] = there
    BY <1>2, <1>3
  <2> QED
    BY <2>2, <2>3 DEF Resets, About, Effect
<1>6. f \in [0..Len(b) -> SUBSET Nick] /\ f[Len(b)] = there
  BY <1>2
<1> HIDE DEF f
<1>7. LeadsOn(i, f, c, b)
  BY <1>5 DEF LeadsOn
<1> QED
  BY <1>1, <1>3, <1>4, <1>6, <1>7 DEF Listens

(* A line is read: the roster is S, known, listed before and R, held, told *)
(* after it.                                                               *)
LEMMA ListensAfter ==
  ASSUME NEW c, NEW box \in Seq(Message), box # <<>>,
         NEW S, NEW known, NEW listed, NEW there,
         Listens(c, box, S, known, listed, there),
         NEW R, NEW held, NEW told,
         known /\ ~Resets(Head(box), c) => held /\ R = Effect(Head(box), c, S),
         Head(box) = EndOf(c) => held /\ R = listed,
         \A T \in SUBSET Nick : Head(box) = NamesOf(c, T) => told = T
  PROVE  Listens(c, Tail(box), R, held, told, there)
<1>1. PICK i \in 0..Len(box), h \in [0..Len(box) -> SUBSET Nick] :
        /\ StartsAt(i, h[i], c, box, S, known, listed)
        /\ LeadsOn(i, h, c, box)
        /\ h[Len(box)] = there
  BY DEF Listens
<1>2. PICK b, n : b = Tail(box) /\ n = Len(box)
  OBVIOUS
<1>3. /\ n \in Nat \ {0} /\ Len(b) = n - 1 /\ Head(box) = box[1]
      /\ \A j \in 1..(n - 1) : b[j] = box[j + 1]
  BY <1>2, Rest
<1> DEFINE f == [j \in 0..(n - 1) |-> h[j + 1]]
<1>4. f \in [0..Len(b) -> SUBSET Nick] /\ f[Len(b)] = there
  <2>1. \A j \in 0..(n - 1) : j + 1 \in 0..n
    BY <1>3
  <2>2. n - 1 \in 0..(n - 1) /\ (n - 1) + 1 = n
    BY <1>3
  <2>3. f \in [0..(n - 1) -> SUBSET Nick]
    BY <1>2, <2>1
  <2>4. f[n - 1] = h[n]
    BY <2>2
  <2> QED
    BY <1>1, <1>2, <1>3, <2>3, <2>4
<1>5. \A j \in 0..(n - 1) : f[j] = h[j + 1]
  OBVIOUS
<1> HIDE DEF f
<1>6. ASSUME NEW k \in Nat, i <= k + 1, NEW j \in 1..Len(b), j > k
      PROVE  ~Resets(b[j], c) /\ f[j] = Effect(b[j], c, f[j - 1])
  <2>1. j + 1 \in 1..n /\ j + 1 > i /\ j \in 1..(n - 1) /\ j - 1 \in 0..(n - 1) /\ j \in 0..(n - 1)
    BY <1>3, <1>6
  <2>2. ~Resets(box[j + 1], c) /\ h[j + 1] = Effect(box[j + 1], c, h[(j + 1) - 1])
    BY <1>1, <1>2, <2>1 DEF LeadsOn
  <2>3. f[j] = h[j + 1] /\ f[j - 1] = h[(j - 1) + 1] /\ (j - 1) + 1 = (j + 1) - 1
    BY <1>5, <2>1
  <2> QED
    BY <1>3, <2>1, <2>2, <2>3
<1>7. CASE i = 0
  <2>1. known /\ S = h[0]
    BY <1>1, <1>7 DEF StartsAt
  <2>2. 1 \in 1..n /\ 1 > i
    BY <1>3, <1>7
  <2>3. ~Resets(box[1], c) /\ h[1] = Effect(box[1], c, h[1 - 1])
    BY <1>1, <1>2, <2>2 DEF LeadsOn
  <2>4. f[0] = h[1]
    <3>1. 0 \in 0..(n - 1) /\ 0 + 1 = 1
      BY <1>3
    <3> QED
      BY <1>5, <3>1
  <2>5. held /\ R = f[0]
    BY <1>3, <2>1, <2>3, <2>4
  <2>6. StartsAt(0, f[0], c, b, R, held, told)
    BY <2>5 DEF StartsAt
  <2>7. LeadsOn(0, f, c, b)
    BY <1>6, <1>7 DEF LeadsOn
  <2>8. 0 \in 0..Len(b)
    BY <1>3
  <2> QED
    BY <1>2, <1>4, <2>6, <2>7, <2>8 DEF Listens
<1>8. CASE i > 0
  <2> DEFINE k == i - 1
  <2>1. k \in Nat /\ k \in 0..Len(b) /\ i = k + 1 /\ i <= k + 1 /\ k \in 0..(n - 1)
    BY <1>2, <1>3, <1>8
  <2>2. f[k] = h[i]
    BY <1>5, <2>1
  <2>3. LeadsOn(k, f, c, b)
    BY <1>6, <2>1 DEF LeadsOn
  <2>4. StartsAt(k, f[k], c, b, R, held, told)
    <3>1. box[i] = EndOf(c)
      BY <1>1, <1>8 DEF StartsAt
    <3>2. CASE i = 1
      <4>1. listed = h[1] /\ Head(box) = EndOf(c)
        BY <1>1, <1>3, <3>1, <3>2 DEF StartsAt
      <4> QED
        BY <2>2, <3>2, <4>1 DEF StartsAt
    <3>3. CASE i = 2
      <4>1. Head(box) = NamesOf(c, h[2])
        BY <1>1, <1>3, <3>3 DEF StartsAt
      <4>2. b[1] = EndOf(c)
        <5>1. 1 \in 1..(n - 1) /\ 1 + 1 = 2
          BY <1>2, <3>3
        <5> QED
          BY <1>3, <3>1, <3>3, <5>1
      <4>3. h[2] \in SUBSET Nick
        BY <3>3
      <4>4. told = h[2]
        BY <4>1, <4>3
      <4> QED
        BY <2>2, <3>3, <4>2, <4>4 DEF StartsAt
    <3>4. CASE i > 2
      <4>1. i - 1 \in 1..(n - 1) /\ i - 2 \in 1..(n - 1) /\ (i - 1) + 1 = i /\ (i - 2) + 1 = i - 1
        BY <1>2, <1>3, <3>4
      <4>2. box[i - 1] = NamesOf(c, h[i])
        BY <1>1, <3>4 DEF StartsAt
      <4>3. b[i - 1] = EndOf(c) /\ b[i - 2] = NamesOf(c, h[i])
        BY <1>3, <3>1, <4>1, <4>2
      <4>4. k - 1 = i - 2 /\ k > 1
        BY <3>4
      <4> QED
        BY <2>2, <4>3, <4>4 DEF StartsAt
    <3> QED
      BY <1>8, <3>2, <3>3, <3>4
  <2> QED
    BY <1>2, <1>4, <2>1, <2>3, <2>4 DEF Listens
<1> QED
  BY <1>7, <1>8

LEMMA PartedOn ==
  ASSUME NEW c, NEW box \in Seq(Message), NEW add \in Seq(Message), NEW S, NEW known,
         Parted(c, box, S, known), \A j \in 1..Len(add) : ~About(add[j], c)
  PROVE  Parted(c, box \o add, S, known)
<1>1. PICK b, n : b = box \o add /\ n = Len(box)
  OBVIOUS
<1>2. /\ Len(b) = n + Len(add) /\ n \in Nat /\ Len(add) \in Nat
      /\ \A j \in 1..n : b[j] = box[j]
      /\ \A j \in 1..Len(b) : j > n => j - n \in 1..Len(add) /\ b[j] = add[j - n]
  BY <1>1, Joined
<1>3. \A j \in 1..n : j \in 1..Len(b)
  BY <1>2
<1>4. ASSUME NEW i \in 1..Len(b), About(b[i], c)
      PROVE  \E j \in 1..Len(b) : i <= j /\ b[j] = Farewell(c)
  <2>1. i \in 1..n /\ b[i] = box[i]
    BY <1>2, <1>4
  <2>2. PICK j \in 1..n : i <= j /\ box[j] = Farewell(c)
    BY <1>1, <1>4, <2>1 DEF Parted
  <2> QED
    BY <1>2, <1>3, <2>2
<1>5. ASSUME \A i \in 1..Len(b) : b[i] # Farewell(c)
      PROVE  S = {} /\ ~known
  <2>1. \A i \in 1..n : box[i] # Farewell(c)
    BY <1>2, <1>3, <1>5
  <2> QED
    BY <1>1, <2>1 DEF Parted
<1> QED
  BY <1>1, <1>4, <1>5 DEF Parted

LEMMA PartedAnew ==
  ASSUME NEW c, NEW box \in Seq(Message), NEW add \in Seq(Message), NEW S, NEW known,
         NEW k \in 1..Len(add), add[k] = Farewell(c),
         \A j \in 1..Len(add) : j > k => ~About(add[j], c)
  PROVE  Parted(c, box \o add, S, known)
<1>1. PICK b, n : b = box \o add /\ n = Len(box)
  OBVIOUS
<1>2. /\ Len(b) = n + Len(add) /\ n \in Nat /\ Len(add) \in Nat
      /\ \A j \in 1..Len(add) : b[n + j] = add[j]
      /\ \A j \in 1..Len(b) : j > n => j - n \in 1..Len(add) /\ b[j] = add[j - n]
  BY <1>1, Joined
<1>3. n + k \in 1..Len(b) /\ b[n + k] = Farewell(c)
  BY <1>2
<1>4. ASSUME NEW i \in 1..Len(b), About(b[i], c)
      PROVE  i <= n + k
  BY <1>2, <1>4
<1> QED
  BY <1>1, <1>3, <1>4 DEF Parted

(* A line is read: the roster is S, known before and R, held after it.     *)
LEMMA PartedAfter ==
  ASSUME NEW c, NEW box \in Seq(Message), box # <<>>, NEW S, NEW known,
         Parted(c, box, S, known), NEW R, NEW held,
         ~About(Head(box), c) => (S = {} => R = {}) /\ (held => known),
         Head(box) = Farewell(c) => R = {} /\ ~held
  PROVE  Parted(c, Tail(box), R, held)
<1>1. PICK b, n : b = Tail(box) /\ n = Len(box)
  OBVIOUS
<1>2. /\ n \in Nat \ {0} /\ Len(b) = n - 1 /\ Head(box) = box[1]
      /\ \A j \in 1..(n - 1) : b[j] = box[j + 1]
  BY <1>1, Rest
<1>3. \A j \in 1..Len(b) : j + 1 \in 1..n /\ b[j] = box[j + 1]
  BY <1>2
<1>4. \A j \in 1..n : j # 1 => j - 1 \in 1..Len(b) /\ b[j - 1] = box[j]
  <2> SUFFICES ASSUME NEW j \in 1..n, j # 1
               PROVE  j - 1 \in 1..Len(b) /\ b[j - 1] = box[j]
    OBVIOUS
  <2>1. j - 1 \in 1..Len(b) /\ (j - 1) + 1 = j
    BY <1>2
  <2> QED
    BY <1>3, <2>1
<1>5. ASSUME NEW i \in 1..Len(b), About(b[i], c)
      PROVE  \E j \in 1..Len(b) : i <= j /\ b[j] = Farewell(c)
  <2>1. i + 1 \in 1..n /\ About(box[i + 1], c)
    BY <1>3, <1>5
  <2>2. PICK j \in 1..n : i + 1 <= j /\ box[j] = Farewell(c)
    BY <1>1, <2>1 DEF Parted
  <2>3. j # 1 /\ i <= j - 1
    BY <1>2, <2>2
  <2> QED
    BY <1>4, <2>2, <2>3
<1>6. ASSUME \A i \in 1..Len(b) : b[i] # Farewell(c)
      PROVE  R = {} /\ ~held
  <2>1. \A j \in 1..n : j # 1 => box[j] # Farewell(c)
    BY <1>4, <1>6
  <2>2. CASE box[1] = Farewell(c)
    BY <1>2, <2>2
  <2>3. CASE box[1] # Farewell(c)
    <3>1. S = {} /\ ~known
      BY <1>1, <2>1, <2>3 DEF Parted
    <3>2. ~About(box[1], c)
      <4> SUFFICES ASSUME About(box[1], c)
                   PROVE  FALSE
        OBVIOUS
      <4>1. 1 \in 1..n
        BY <1>2
      <4>2. \E j \in 1..n : 1 <= j /\ box[j] = Farewell(c)
        BY <1>1, <4>1 DEF Parted
      <4> QED
        BY <2>1, <2>3, <4>2
    <3> QED
      BY <1>2, <3>1, <3>2
  <2> QED
    BY <2>2, <2>3
<1> QED
  BY <1>1, <1>5, <1>6 DEF Parted

LEMMA ListsEndOn ==
  ASSUME NEW box \in Seq(Message), NEW add \in Seq(Message), NEW nam,
         ListsEnd(box), ListsEnd(add), ListInHand(box, nam)
  PROVE  ListsEnd(box \o add) /\ ListInHand(box \o add, nam)
<1>1. PICK b, n : b = box \o add /\ n = Len(box)
  OBVIOUS
<1>2. /\ b \in Seq(Message) /\ Len(b) = n + Len(add) /\ n \in Nat /\ Len(add) \in Nat
      /\ \A j \in 1..n : b[j] = box[j]
      /\ \A j \in 1..Len(add) : b[n + j] = add[j]
      /\ \A j \in 1..Len(b) : j > n => j - n \in 1..Len(add) /\ b[j] = add[j - n]
  BY <1>1, Joined
<1>3. ASSUME NEW i \in 1..Len(b), b[i].t = "353"
      PROVE  i < Len(b) /\ b[i + 1] = EndOf(b[i].c)
  <2>1. CASE i <= n
    <3>1. i \in 1..n /\ b[i] = box[i]
      BY <1>2, <2>1
    <3>2. i < n /\ box[i + 1] = EndOf(box[i].c)
      BY <1>1, <1>3, <3>1 DEF ListsEnd
    <3>3. i + 1 \in 1..n /\ i < Len(b)
      BY <1>2, <3>1, <3>2
    <3> QED
      BY <1>2, <3>1, <3>2, <3>3
  <2>2. CASE i > n
    <3>1. PICK k \in 1..Len(add) : k = i - n /\ b[i] = add[k]
      BY <1>2, <2>2
    <3>2. k < Len(add) /\ add[k + 1] = EndOf(add[k].c)
      BY <1>3, <3>1 DEF ListsEnd
    <3>3. k + 1 \in 1..Len(add) /\ n + (k + 1) = i + 1 /\ i < Len(b)
      BY <1>2, <3>1, <3>2
    <3>4. b[n + (k + 1)] = add[k + 1]
      BY <1>2, <3>3
    <3> QED
      BY <3>1, <3>2, <3>3, <3>4
  <2> QED
    BY <1>2, <2>1, <2>2
<1>4. ASSUME NEW c \in Chans, nam[c] # {}
      PROVE  b # <<>> /\ Head(b) = EndOf(c)
  <2>1. box # <<>> /\ Head(box) = EndOf(c)
    BY <1>4 DEF ListInHand
  <2>2. Head(box) = box[1] /\ n \in Nat \ {0}
    BY <1>1, <2>1, Rest
  <2>3. b[1] = box[1] /\ Len(b) # 0
    BY <1>2, <2>2
  <2>4. b # <<>>
    BY <2>3, EmptySeq
  <2> QED
    BY <1>2, <2>1, <2>2, <2>3, <2>4, Rest
<1> QED
  BY <1>1, <1>3, <1>4 DEF ListsEnd, ListInHand

(* A line is read; what is collected of the lists is told after it.        *)
LEMMA ListsEndAfter ==
  ASSUME NEW box \in Seq(Message), box # <<>>, NEW nam, NEW told,
         ListsEnd(box), ListInHand(box, nam),
         \A c \in Chans : told[c] # {} =>
           \/ nam[c] # {} /\ Head(box) # EndOf(c)
           \/ Head(box).t = "353" /\ Head(box).c = c
  PROVE  ListsEnd(Tail(box)) /\ ListInHand(Tail(box), told)
<1>1. PICK b, n : b = Tail(box) /\ n = Len(box)
  OBVIOUS
<1>2. /\ b \in Seq(Message) /\ n \in Nat \ {0} /\ Len(b) = n - 1 /\ Head(box) = box[1]
      /\ \A j \in 1..(n - 1) : b[j] = box[j + 1]
  BY <1>1, Rest
<1>3. ASSUME NEW i \in 1..Len(b), b[i].t = "353"
      PROVE  i < Len(b) /\ b[i + 1] = EndOf(b[i].c)
  <2>1. i \in 1..(n - 1) /\ i + 1 \in 1..n /\ b[i] = box[i + 1]
    BY <1>2
  <2>2. i + 1 < n /\ box[(i + 1) + 1] = EndOf(box[i + 1].c)
    BY <1>1, <1>3, <2>1 DEF ListsEnd
  <2>3. i + 1 \in 1..(n - 1)
    BY <1>2, <2>1, <2>2
  <2> QED
    BY <1>2, <2>1, <2>2, <2>3
<1>4. ASSUME NEW c \in Chans, told[c] # {}
      PROVE  b # <<>> /\ Head(b) = EndOf(c)
  <2>1. box[1].t = "353" /\ box[1].c = c
    BY <1>2, <1>4 DEF ListInHand
  <2>2. 1 < n /\ box[1 + 1] = EndOf(c)
    BY <1>1, <1>2, <2>1 DEF ListsEnd
  <2>3. 1 \in 1..(n - 1) /\ Len(b) # 0
    BY <1>2, <2>2
  <2>4. b # <<>> /\ b[1] = box[1 + 1]
    BY <1>2, <2>3, EmptySeq
  <2> QED
    BY <1>2, <2>2, <2>4, Rest
<1> QED
  BY <1>1, <1>3, <1>4 DEF ListsEnd, ListInHand

-----------------------------------------------------------------------------
(* The type.                                                               *)

(* What is sent is a request for the channels that do not refuse.          *)
LEMMA Sent ==
  ASSUME TypeOK, NEW joins \in SUBSET Chans, NEW parts \in SUBSET Chans, NEW lines,
         Sends(joins, parts, lines)
  PROVE  /\ barred' \in SUBSET Chans
         /\ \E open \in SUBSET joins : Request(open, parts, lines)
<1>1. PICK refused \in Refusable(joins) :
        /\ Request(joins \ refused, parts, lines)
        /\ barred' = (barred \ (joins \cup parts)) \cup refused
  BY DEF Sends
<1>2. refused \in SUBSET joins
  BY DEF Refusable
<1>3. barred \in SUBSET Chans
  BY DEF TypeOK
<1> QED
  BY <1>1, <1>2, <1>3

LEMMA RequestTyped ==
  ASSUME PresenceAssumption, TypeOK,
         NEW joins \in SUBSET Chans, NEW parts \in SUBSET Chans, joins \cap parts = {},
         NEW lines \in Seq(Message), Request(joins, parts, lines)
  PROVE  inside' \in SUBSET Chans /\ inbox' \in Seq(Message)
<1>1. CASE conn = "up"
  <2>1. members \in [Chans -> SUBSET People]
    BY DEF TypeOK
  <2>2. PICK add : Replies(add, joins, parts) /\ inbox' = lines \o add
    BY <1>1, <2>1, Requested
  <2>3. add \in Seq(Message)
    BY <2>2 DEF Replies
  <2>4. inside' = (inside \cup joins) \ parts
    BY <1>1, <2>1, Requested
  <2> QED
    BY <2>2, <2>3, <2>4, Joined DEF TypeOK
<1>2. CASE conn # "up"
  BY <1>2 DEF Request, TypeOK
<1> QED
  BY <1>1, <1>2

(* A person stays on the list of checks until answered.                    *)
LEMMA AnswerTyped ==
  ASSUME TypeOK, ison # NoOne,
         NEW a \in [says: {"none", "online", "offline", "unknown"}, about: People \cup {NoOne}],
         Answer(a)
  PROVE  /\ asked' \in Seq(People)
         /\ answer' \in [People -> [says: {"none", "online", "offline", "unknown"},
                                    about: People \cup {NoOne}]]
         /\ ison' = NoOne
<1>1. asked \in Seq(People) /\ ison \in People
  BY DEF TypeOK
<1> QED
  BY <1>1, OthersAreKept DEF TypeOK, Answer

LEMMA InitTyped ==
  ASSUME PresenceAssumption, Init
  PROVE  Typed
<1>1. <<>> \in Seq(Message) /\ <<>> \in Seq(People)
  BY EmptySeq
<1>2. Nobody \in [Chans -> SUBSET Nick]
  BY DEF Nobody
<1> QED
  BY <1>1, <1>2 DEF Typed, TypeOK, Init, PresenceAssumption, NoAnswer, Asked

(* What people, operators, owners and the network do.                      *)
LEMMA WorldTyped ==
  ASSUME PresenceAssumption, Typed, World
  PROVE  Typed'
<1>1. inbox \in Seq(Message) /\ TypeOK
  BY DEF Typed, TypeOK
<1>2. ASSUME PersonEvent, inbox' \in Seq(Message), members' \in [Chans -> SUBSET People]
      PROVE  Typed'
  BY <1>2 DEF PersonEvent, Typed, TypeOK, Asked, logger, rosters, checks
<1>3. ASSUME NEW n \in People, NEW c \in Chans, PersonJoins(n, c)
      PROVE  Typed'
  <2>1. [t |-> "JOIN", c |-> c, n |-> n] \in Message
    BY Lines DEF Nick
  <2>2. inbox' \in Seq(Message)
    BY <1>1, <1>3, <2>1, AppendProperties DEF PersonJoins, Told
  <2>3. members' \in [Chans -> SUBSET People]
    BY <1>1, <1>3 DEF PersonJoins, TypeOK
  <2> QED
    BY <1>2, <1>3, <2>2, <2>3 DEF PersonJoins
<1>4. ASSUME NEW n \in People, NEW c \in Chans, PersonGoes(n, c)
      PROVE  Typed'
  <2>1. [t |-> "GONE", c |-> c, n |-> n] \in Message
    BY Lines DEF Nick
  <2>2. inbox' \in Seq(Message)
    BY <1>1, <1>4, <2>1, AppendProperties DEF PersonGoes, Told
  <2>3. members' \in [Chans -> SUBSET People]
    BY <1>1, <1>4 DEF PersonGoes, TypeOK
  <2> QED
    BY <1>2, <1>4, <2>2, <2>3 DEF PersonGoes
<1>5. ASSUME NEW n \in People, PersonQuits(n)
      PROVE  Typed'
  <2>1. [t |-> "QUIT", n |-> n] \in Message
    BY Lines
  <2>2. inbox' \in Seq(Message)
    BY <1>1, <1>5, <2>1, AppendProperties DEF PersonQuits, ToldOf
  <2>3. members' \in [Chans -> SUBSET People]
    BY <1>1, <1>5 DEF PersonQuits, TypeOK
  <2> QED
    BY <1>2, <1>5, <2>2, <2>3 DEF PersonQuits
<1>6. ASSUME NEW n \in People, NEW m \in People, PersonRenames(n, m)
      PROVE  Typed'
  <2>1. [t |-> "NICK", n |-> n, to |-> m] \in Message
    BY Lines
  <2>2. inbox' \in Seq(Message)
    BY <1>1, <1>6, <2>1, AppendProperties DEF PersonRenames, ToldOf
  <2>3. members' \in [Chans -> SUBSET People]
    BY <1>1, <1>6 DEF PersonRenames, TypeOK
  <2> QED
    BY <1>2, <1>6, <2>2, <2>3 DEF PersonRenames
<1>7. ASSUME NEW c \in Chans, KickArchivist(c)
      PROVE  Typed'
  <2>1. [t |-> "GONE", c |-> c, n |-> Me] \in Message
    BY Lines DEF Nick
  <2>2. inbox' \in Seq(Message)
    BY <1>1, <1>7, <2>1, AppendProperties DEF KickArchivist
  <2> QED
    BY <1>7, <2>2 DEF KickArchivist, Typed, TypeOK, Asked, logger, rosters, checks
<1>8. ASSUME NEW S \in SUBSET Chans, Edit(S)
      PROVE  Typed'
  BY <1>8 DEF Edit, Typed, TypeOK, Asked, server, logger, rosters, checks
<1>9. ASSUME NEW n \in People, AskStatus(n)
      PROVE  Typed'
  <2>1. asked \in Seq(People)
    BY DEF Typed, TypeOK
  <2>2. asked' \in Seq(People) /\ \A x \in People : Asked(x) => Asked(x)'
    <3>1. CASE UNCHANGED asked
      BY <2>1, <3>1 DEF Asked
    <3>2. CASE asked' = Append(WithoutAsk(asked, n), n)
      <4> DEFINE w == WithoutAsk(asked, n)
      <4>1. /\ w \in Seq(People)
            /\ \A i \in DOMAIN asked : asked[i] # n =>
                 \E j \in DOMAIN w : w[j] = asked[i]
        BY <2>1, OthersAreKept
      <4> HIDE DEF w
      <4>2. /\ asked' \in Seq(People) /\ DOMAIN asked' = 1..(Len(w) + 1)
            /\ DOMAIN w = 1..Len(w) /\ Len(w) \in Nat
            /\ \A i \in 1..Len(w) : asked'[i] = w[i]
            /\ asked'[Len(w) + 1] = n
        <5>1. Append(w, n) \in Seq(People) /\ asked' = Append(w, n)
          BY <3>2, <4>1, Appended DEF w
        <5> QED
          BY <4>1, <5>1, Appended, LenProperties
      <4>3. ASSUME NEW i \in DOMAIN asked
            PROVE  \E j \in DOMAIN asked' : asked'[j] = asked[i]
        <5>1. CASE asked[i] = n
          <6>1. Len(w) + 1 \in DOMAIN asked'
            BY <4>2
          <6> QED
            BY <4>2, <5>1, <6>1
        <5>2. CASE asked[i] # n
          <6>1. PICK j \in 1..Len(w) : w[j] = asked[i]
            BY <4>1, <4>2, <5>2
          <6>2. j \in DOMAIN asked' /\ asked'[j] = asked[i]
            BY <4>2, <6>1
          <6> QED
            BY <6>2
        <5> QED
          BY <5>1, <5>2
      <4>4. \A x \in People : Asked(x) => Asked(x)'
        BY <4>3 DEF Asked
      <4> QED
        BY <4>2, <4>4
    <3> QED
      BY <1>9, <3>1, <3>2 DEF AskStatus
  <2> QED
    BY <1>9, <2>2 DEF AskStatus, Typed, TypeOK, server, logger, rosters, PresenceAssumption
<1>10. ASSUME Cut
       PROVE  Typed'
  <2>1. PICK k \in 0..Len(inbox) : inbox' = SubSeq(inbox, 1, k)
    BY <1>10 DEF Cut
  <2>2. inbox' \in Seq(Message)
    BY <1>1, <2>1, Shortened
  <2> QED
    BY <1>10, <2>2 DEF Cut, Typed, TypeOK, Asked, logger, rosters, checks
<1>11. ASSUME Restart
       PROVE  Typed'
  <2>1. <<>> \in Seq(Message) /\ Nobody \in [Chans -> SUBSET Nick]
    BY EmptySeq DEF Nobody
  <2> QED
    BY <1>11, <2>1 DEF Restart, Typed, TypeOK, Asked, rosters, checks
<1> QED
  BY <1>3, <1>4, <1>5, <1>6, <1>7, <1>8, <1>9, <1>10, <1>11 DEF World

(* What the Manager and the archivist's thread do.                         *)
LEMMA ThreadsTyped ==
  ASSUME PresenceAssumption, Typed, Archivist \/ Lose \/ Pump \/ Checker \/ Start \/ Sync
  PROVE  Typed'
<1>1. inbox \in Seq(Message) /\ <<>> \in Seq(Message) /\ TypeOK /\ timeouts \in Nat
  BY EmptySeq DEF Typed, TypeOK
<1>2. Nobody \in [Chans -> SUBSET Nick]
  BY DEF Nobody
<1>3. CASE Connect
  <2>1. <<[t |-> "001"]>> \in Seq(Message)
    BY Lines
  <2> QED
    BY <1>2, <1>3, <2>1 DEF Connect, Typed, TypeOK, Asked, server, checks, counters
<1>4. CASE Lose
  BY <1>1, <1>4 DEF Lose, Typed, TypeOK, Asked, server, rosters, checks, counters
<1>5. ASSUME NEW t, Reading(t)
      PROVE  /\ Head(inbox) \in Message /\ Head(inbox).t = t
             /\ Tail(inbox) \in Seq(Message)
             /\ conn \in {"up", "cut"} /\ taken = NoWish
             /\ UNCHANGED <<members, configured, conn, channels, wanted, taken, timeouts>>
  BY <1>1, <1>5, Rest DEF Reading, counters
<1>6. CASE OnWelcome
  <2>1. Reading("001") /\ Sends(channels, {}, Tail(inbox))
    BY <1>6 DEF OnWelcome
  <2>2. channels \in SUBSET Chans /\ {} \in SUBSET Chans
    BY <1>1 DEF TypeOK
  <2>3. /\ barred' \in SUBSET Chans
        /\ \E open \in SUBSET channels : Request(open, {}, Tail(inbox))
    BY <1>1, <2>1, <2>2, Sent
  <2>4. PICK open \in SUBSET channels : Request(open, {}, Tail(inbox))
    BY <2>3
  <2>5. open \in SUBSET Chans /\ open \cap {} = {}
    BY <2>2
  <2>6. inside' \in SUBSET Chans /\ inbox' \in Seq(Message)
    BY <1>1, <1>5, <2>1, <2>2, <2>4, <2>5, RequestTyped
  <2> QED
    BY <1>5, <1>6, <2>1, <2>3, <2>6 DEF OnWelcome, Typed, TypeOK, Asked, rosters, checks
<1>7. ASSUME NEW t, OnRoster(t), roster' \in [Chans -> SUBSET Nick], synced' \in SUBSET Chans
      PROVE  Typed'
  BY <1>5, <1>7 DEF OnRoster, Typed, TypeOK, Asked, checks
<1>8. ASSUME NEW t, OnRoster(t)
      PROVE  /\ Head(inbox) \in Message /\ Head(inbox).t = t
             /\ roster \in [Chans -> SUBSET Nick] /\ synced \in SUBSET Chans
  BY <1>1, <1>5, <1>8 DEF OnRoster, TypeOK
<1>9. CASE OnJoin
  <2>1. Head(inbox).n \in Nick /\ roster \in [Chans -> SUBSET Nick] /\ synced \in SUBSET Chans
    BY <1>8, <1>9, LineFields DEF OnJoin
  <2> QED
    BY <1>7, <1>9, <2>1 DEF OnJoin
<1>10. CASE OnGone
  <2>1. roster \in [Chans -> SUBSET Nick] /\ synced \in SUBSET Chans
    BY <1>8, <1>10 DEF OnGone
  <2> QED
    BY <1>7, <1>10, <2>1 DEF OnGone
<1>11. CASE OnQuit
  <2>1. roster \in [Chans -> SUBSET Nick] /\ synced \in SUBSET Chans
    BY <1>8, <1>11 DEF OnQuit
  <2> QED
    BY <1>7, <1>11, <2>1 DEF OnQuit
<1>12. CASE OnNick
  <2>1. Head(inbox).to \in Nick /\ roster \in [Chans -> SUBSET Nick] /\ synced \in SUBSET Chans
    BY <1>8, <1>12, LineFields DEF OnNick, Nick
  <2> QED
    BY <1>7, <1>12, <2>1 DEF OnNick
<1>13. CASE OnNames
  <2>1. Reading("353") /\ Head(inbox).ns \in SUBSET Nick
    BY <1>5, <1>13, LineFields DEF OnNames
  <2>2. names' \in [Chans -> SUBSET Nick]
    BY <1>1, <1>13, <2>1 DEF OnNames, TypeOK
  <2> QED
    BY <1>5, <1>13, <2>1, <2>2 DEF OnNames, Typed, TypeOK, Asked, rosters, checks
<1>14. CASE OnEndOfNames
  <2>1. Reading("366") /\ Head(inbox).c \in Chans
    BY <1>5, <1>14, LineFields DEF OnEndOfNames
  <2>2. /\ names' \in [Chans -> SUBSET Nick] /\ roster' \in [Chans -> SUBSET Nick]
        /\ synced' \in SUBSET Chans
    BY <1>1, <1>14, <2>1 DEF OnEndOfNames, TypeOK
  <2> QED
    BY <1>5, <1>14, <2>1, <2>2 DEF OnEndOfNames, Typed, TypeOK, Asked, checks
<1>15. CASE OnIson
  <2>1. Reading("303") /\ Head(inbox).n \in People
    BY <1>5, <1>15, LineFields DEF OnIson
  <2>2. CASE ison = NoOne
    BY <1>5, <1>15, <2>1, <2>2 DEF OnIson, Typed, TypeOK, Asked, rosters, checks
  <2>3. CASE ison # NoOne
    <3>1. PICK a \in [says: {"none", "online", "offline", "unknown"}, about: People \cup {NoOne}] :
            Answer(a)
      BY <1>15, <2>1, <2>3 DEF OnIson
    <3>2. /\ asked' \in Seq(People) /\ ison' = NoOne
          /\ answer' \in [People -> [says: {"none", "online", "offline", "unknown"},
                                     about: People \cup {NoOne}]]
      BY <1>1, <2>3, <3>1, AnswerTyped
    <3> QED
      BY <1>5, <1>15, <2>1, <3>2 DEF OnIson, Typed, TypeOK, rosters
  <2> QED
    BY <2>2, <2>3
<1>16. CASE OnNoIson
  <2>1. Reading("421")
    BY <1>16 DEF OnNoIson
  <2>2. CASE ison = NoOne
    BY <1>5, <1>16, <2>1, <2>2 DEF OnNoIson, Typed, TypeOK, Asked, rosters, checks
  <2>3. CASE ison # NoOne
    <3>1. Answer(Unknown)
      BY <1>16, <2>3 DEF OnNoIson
    <3>2. /\ asked' \in Seq(People) /\ ison' = NoOne
          /\ answer' \in [People -> [says: {"none", "online", "offline", "unknown"},
                                     about: People \cup {NoOne}]]
      BY <1>1, <2>3, <3>1, AnswerTyped DEF Unknown
    <3> QED
      BY <1>5, <1>16, <2>1, <3>2 DEF OnNoIson, Typed, TypeOK, rosters
  <2> QED
    BY <2>2, <2>3
<1>17. CASE ApplyReads
  BY <1>17 DEF ApplyReads, Typed, TypeOK, Asked, server, rosters, checks, counters
<1>18. CASE ApplyActs
  <2> DEFINE left == channels \ taken
  <2>1. taken \in SUBSET Chans /\ channels \in SUBSET Chans
    BY <1>1, <1>18 DEF ApplyActs, TypeOK
  <2>2. taken \ channels \in SUBSET Chans /\ left \in SUBSET Chans /\ (taken \ channels) \cap left = {}
    BY <2>1
  <2>3. Sends(taken \ channels, left, inbox)
    BY <1>18 DEF ApplyActs
  <2> HIDE DEF left
  <2>6. /\ barred' \in SUBSET Chans
        /\ \E open \in SUBSET (taken \ channels) : Request(open, left, inbox)
    BY <1>1, <2>2, <2>3, Sent
  <2>7. PICK open \in SUBSET (taken \ channels) : Request(open, left, inbox)
    BY <2>6
  <2>8. open \in SUBSET Chans /\ open \cap left = {}
    BY <2>2
  <2>4. inside' \in SUBSET Chans /\ inbox' \in Seq(Message)
    BY <1>1, <2>2, <2>7, <2>8, RequestTyped
  <2>5. roster' \in [Chans -> SUBSET Nick] /\ synced' \in SUBSET Chans
    BY <1>1, <1>18 DEF ApplyActs, TypeOK
  <2> QED
    BY <1>18, <2>1, <2>4, <2>5, <2>6 DEF ApplyActs, Typed, TypeOK, Asked, checks, counters
<1>19. CASE ApplyFails
  <2>1. roster' \in [Chans -> SUBSET Nick] /\ synced' \in SUBSET Chans
    BY <1>1, <1>19 DEF ApplyFails, TypeOK
  <2> QED
    BY <1>1, <1>19, <2>1 DEF ApplyFails, Typed, TypeOK, Asked, server, checks, counters
<1>20. asked # <<>> => Head(asked) \in People /\ \E i \in DOMAIN asked : asked[i] = Head(asked)
  <2> SUFFICES ASSUME asked # <<>>
               PROVE  Head(asked) \in People /\ \E i \in DOMAIN asked : asked[i] = Head(asked)
    OBVIOUS
  <2>1. /\ Head(asked) = asked[1] /\ asked[1] \in People
        /\ DOMAIN asked = 1..Len(asked) /\ Len(asked) \in Nat \ {0}
    BY <1>1, Rest DEF TypeOK
  <2>2. 1 \in DOMAIN asked
    BY <2>1
  <2> QED
    BY <2>1, <2>2
<1>21. CASE Lookup
  <2>1. Head(asked) \in People /\ ison' = Head(asked) /\ Asked(ison)'
    BY <1>20, <1>21 DEF Lookup, Asked, checks
  <2>2. [t |-> "303", n |-> Head(asked), on |-> \E c \in Chans : Head(asked) \in members[c]] \in Message
    BY <2>1, Lines
  <2>3. inbox' \in Seq(Message)
    BY <1>1, <1>21, <2>2, AppendProperties DEF Lookup
  <2> QED
    BY <1>21, <2>1, <2>3 DEF Lookup, Typed, TypeOK, server, rosters, checks, counters
<1>22. CASE LookupRefused
  <2>1. Head(asked) \in People /\ ison' = Head(asked) /\ Asked(ison)'
    BY <1>20, <1>22 DEF LookupRefused, Asked, checks
  <2>2. inbox' \in Seq(Message)
    BY <1>1, <1>22, Lines, AppendProperties DEF LookupRefused
  <2> QED
    BY <1>22, <2>1, <2>2 DEF LookupRefused, Typed, TypeOK, server, rosters, checks, counters
<1>23. CASE LookupTimesOut
  <2>1. Answer(Unknown) /\ ison # NoOne /\ timeouts' \in Nat
    BY <1>1, <1>23 DEF LookupTimesOut
  <2>2. /\ asked' \in Seq(People) /\ ison' = NoOne
        /\ answer' \in [People -> [says: {"none", "online", "offline", "unknown"},
                                   about: People \cup {NoOne}]]
    BY <1>1, <2>1, AnswerTyped DEF Unknown
  <2> QED
    BY <1>23, <2>1, <2>2 DEF LookupTimesOut, Typed, TypeOK, server, rosters
<1>24. CASE Start
  BY <1>24 DEF Start, Typed, TypeOK, Asked, server, rosters, checks, counters
<1>25. CASE Sync
  BY <1>25 DEF Sync, Typed, TypeOK, Asked, server, rosters, checks, counters
<1> QED
  BY <1>3, <1>4, <1>6, <1>9, <1>10, <1>11, <1>12, <1>13, <1>14, <1>15, <1>16, <1>17,
     <1>18, <1>19, <1>21, <1>22, <1>23, <1>24, <1>25
     DEF Archivist, Handle, Pump, Checker

LEMMA StepTyped ==
  ASSUME PresenceAssumption, Typed, [Next]_vars
  PROVE  Typed'
<1>1. CASE UNCHANGED vars
  BY <1>1 DEF vars, Typed, TypeOK, Asked, server, logger, rosters, checks, counters
<1>2. CASE World
  BY <1>2, WorldTyped
<1>3. CASE Archivist \/ Lose \/ Pump \/ Checker \/ Start \/ Sync
  BY <1>3, ThreadsTyped
<1> QED
  BY <1>1, <1>2, <1>3 DEF Next

-----------------------------------------------------------------------------
(* One lookup at a time.                                                   *)

LEMMA OneMore ==
  ASSUME NEW box \in Seq(Message), NEW m \in Message, NEW k,
         OneAtMost(box, k), ~Answers(m)
  PROVE  OneAtMost(Append(box, m), k)
<1>1. PICK b : b = Append(box, m)
  OBVIOUS
<1>2. /\ Len(b) = Len(box) + 1 /\ Len(box) \in Nat
      /\ \A i \in 1..Len(box) : b[i] = box[i]
      /\ b[Len(box) + 1] = m
  BY <1>1, Appended, LenProperties
<1>3. \A i \in 1..Len(b) : Answers(b[i]) => i \in 1..Len(box) /\ b[i] = box[i]
  BY <1>2
<1> QED
  BY <1>1, <1>3 DEF OneAtMost

(* The first line to answer a lookup.                                      *)
LEMMA OneAsked ==
  ASSUME NEW box \in Seq(Message), NEW m \in Message, NEW k,
         OneAtMost(box, NoOne), k # NoOne, m.t = "303" => m.n = k
  PROVE  OneAtMost(Append(box, m), k)
<1>1. PICK b : b = Append(box, m)
  OBVIOUS
<1>2. /\ Len(b) = Len(box) + 1 /\ Len(box) \in Nat
      /\ \A i \in 1..Len(box) : b[i] = box[i]
      /\ b[Len(box) + 1] = m
  BY <1>1, Appended, LenProperties
<1>3. \A i \in 1..Len(b) : Answers(b[i]) => i = Len(box) + 1 /\ b[i] = m
  BY <1>2 DEF OneAtMost
<1> QED
  BY <1>1, <1>3 DEF OneAtMost

(* Reading a line leaves at most one, and none if it was that one.         *)
LEMMA OneAfter ==
  ASSUME NEW box \in Seq(Message), box # <<>>, NEW k, OneAtMost(box, k)
  PROVE  /\ OneAtMost(Tail(box), k)
         /\ Answers(Head(box)) => \A l : OneAtMost(Tail(box), l)
<1>1. PICK b, n : b = Tail(box) /\ n = Len(box)
  OBVIOUS
<1>2. /\ n \in Nat \ {0} /\ Len(b) = n - 1 /\ Head(box) = box[1]
      /\ \A j \in 1..(n - 1) : b[j] = box[j + 1]
  BY <1>1, Rest
<1>3. \A j \in 1..Len(b) : j + 1 \in 1..n /\ j + 1 # 1 /\ 1 \in 1..n /\ b[j] = box[j + 1]
  BY <1>2
<1>4. ASSUME NEW i \in 1..Len(b), NEW j \in 1..Len(b), Answers(b[i]), Answers(b[j])
      PROVE  i = j
  <2>1. i + 1 = j + 1
    BY <1>1, <1>3, <1>4 DEF OneAtMost
  <2> QED
    BY <2>1
<1>5. \A i \in 1..Len(b) : Answers(b[i]) => k # NoOne /\ (b[i].t = "303" => b[i].n = k)
  BY <1>1, <1>3 DEF OneAtMost
<1>6. ASSUME Answers(box[1]), NEW i \in 1..Len(b)
      PROVE  ~Answers(b[i])
  BY <1>1, <1>3, <1>6 DEF OneAtMost
<1> QED
  BY <1>1, <1>2, <1>4, <1>5, <1>6 DEF OneAtMost

(* A line that is cut off answers nothing.                                 *)
LEMMA OneBefore ==
  ASSUME NEW box \in Seq(Message), NEW k, OneAtMost(box, k), NEW n \in 0..Len(box)
  PROVE  OneAtMost(SubSeq(box, 1, n), k)
<1>1. PICK b : b = SubSeq(box, 1, n)
  OBVIOUS
<1>2. Len(b) = n /\ \A i \in 1..n : i \in 1..Len(box) /\ b[i] = box[i]
  BY <1>1, Shortened
<1> QED
  BY <1>1, <1>2 DEF OneAtMost

LEMMA OneOn ==
  ASSUME NEW box \in Seq(Message), NEW add \in Seq(Message), NEW k, OneAtMost(box, k),
         \A i \in 1..Len(add) : ~Answers(add[i])
  PROVE  OneAtMost(box \o add, k)
<1>1. PICK b : b = box \o add
  OBVIOUS
<1>2. /\ Len(box) \in Nat /\ Len(b) = Len(box) + Len(add) /\ Len(add) \in Nat
      /\ \A j \in 1..Len(box) : b[j] = box[j]
      /\ \A j \in 1..Len(b) : j > Len(box) => j - Len(box) \in 1..Len(add) /\ b[j] = add[j - Len(box)]
  BY <1>1, Joined
<1>3. \A i \in 1..Len(b) : Answers(b[i]) => i \in 1..Len(box) /\ b[i] = box[i]
  <2> SUFFICES ASSUME NEW i \in 1..Len(b), Answers(b[i])
               PROVE  i \in 1..Len(box)
    BY <1>2
  <2>1. ~(i > Len(box))
    BY <1>2
  <2> QED
    BY <1>2, <2>1
<1> QED
  BY <1>1, <1>3 DEF OneAtMost

(* JOINs and PARTs are not answered like that.                             *)
LEMMA OneRequested ==
  ASSUME PresenceAssumption, TypeOK,
         NEW joins \in SUBSET Chans, NEW parts \in SUBSET Chans, joins \cap parts = {},
         NEW lines \in Seq(Message), Request(joins, parts, lines),
         NEW k, OneAtMost(lines, k)
  PROVE  OneAtMost(inbox', k)
<1>1. CASE conn = "up"
  <2>1. members \in [Chans -> SUBSET People]
    BY DEF TypeOK
  <2>2. PICK add : Replies(add, joins, parts) /\ inbox' = lines \o add
    BY <1>1, <2>1, Requested
  <2>3. add \in Seq(Message) /\ \A i \in 1..Len(add) : ~Answers(add[i])
    BY <2>2 DEF Replies, Answers
  <2> QED
    BY <2>2, <2>3, OneOn
<1>2. CASE conn # "up"
  BY <1>2 DEF Request
<1> QED
  BY <1>1, <1>2

LEMMA OneOfNone ==
  ASSUME NEW k
  PROVE  OneAtMost(<<>>, k) /\ OneAtMost(<<[t |-> "001"]>>, k)
<1>1. Len(<<>>) = 0 /\ Len(<<[t |-> "001"]>>) = 1
  OBVIOUS
<1>2. \A i \in 1..1 : i = 1
  OBVIOUS
<1> QED
  BY <1>1, <1>2 DEF OneAtMost, Answers

LEMMA InitLookups ==
  ASSUME Init
  PROVE  LookupsInHand
BY OneOfNone DEF Init, LookupsInHand, AnswerIsAboutAsked, NoAnswer

LEMMA WorldLookups ==
  ASSUME PresenceAssumption, Typed, LookupsInHand, World
  PROVE  LookupsInHand'
<1>1. inbox \in Seq(Message)
  BY DEF Typed, TypeOK
<1>2. ASSUME UNCHANGED <<ison, answer, timeouts>>,
             inbox' = inbox \/ \E m \in Message : ~Answers(m) /\ inbox' = Append(inbox, m)
      PROVE  LookupsInHand'
  <2>1. ASSUME timeouts = 0
        PROVE  OneAtMost(inbox', ison)
    <3>1. OneAtMost(inbox, ison)
      BY <2>1 DEF LookupsInHand
    <3>2. CASE inbox' = inbox
      BY <3>1, <3>2
    <3>3. ASSUME NEW m \in Message, ~Answers(m), inbox' = Append(inbox, m)
          PROVE  OneAtMost(inbox', ison)
      BY <1>1, <3>1, <3>3, OneMore
    <3> QED
      BY <1>2, <3>2, <3>3
  <2>2. AnswerIsAboutAsked'
    BY <1>2 DEF LookupsInHand, AnswerIsAboutAsked
  <2> QED
    BY <1>2, <2>1, <2>2 DEF LookupsInHand
<1>3. ASSUME NEW n \in People, NEW c \in Chans, PersonJoins(n, c)
      PROVE  LookupsInHand'
  <2>1. [t |-> "JOIN", c |-> c, n |-> n] \in Message
    BY Lines DEF Nick
  <2> QED
    BY <1>2, <1>3, <2>1 DEF PersonJoins, Told, PersonEvent, logger, checks, Answers
<1>4. ASSUME NEW n \in People, NEW c \in Chans, PersonGoes(n, c)
      PROVE  LookupsInHand'
  <2>1. [t |-> "GONE", c |-> c, n |-> n] \in Message
    BY Lines DEF Nick
  <2> QED
    BY <1>2, <1>4, <2>1 DEF PersonGoes, Told, PersonEvent, logger, checks, Answers
<1>5. ASSUME NEW n \in People, PersonQuits(n)
      PROVE  LookupsInHand'
  <2>1. [t |-> "QUIT", n |-> n] \in Message
    BY Lines
  <2> QED
    BY <1>2, <1>5, <2>1 DEF PersonQuits, ToldOf, PersonEvent, logger, checks, Answers
<1>6. ASSUME NEW n \in People, NEW m \in People, PersonRenames(n, m)
      PROVE  LookupsInHand'
  <2>1. [t |-> "NICK", n |-> n, to |-> m] \in Message
    BY Lines
  <2> QED
    BY <1>2, <1>6, <2>1 DEF PersonRenames, ToldOf, PersonEvent, logger, checks, Answers
<1>7. ASSUME NEW c \in Chans, KickArchivist(c)
      PROVE  LookupsInHand'
  <2>1. [t |-> "GONE", c |-> c, n |-> Me] \in Message
    BY Lines DEF Nick
  <2> QED
    BY <1>2, <1>7, <2>1 DEF KickArchivist, logger, checks, Answers
<1>8. ASSUME NEW S \in SUBSET Chans, Edit(S)
      PROVE  LookupsInHand'
  BY <1>2, <1>8 DEF Edit, logger, checks
<1>9. ASSUME NEW n \in People, AskStatus(n)
      PROVE  LookupsInHand'
  BY <1>2, <1>9 DEF AskStatus, logger
<1>10. ASSUME Cut
       PROVE  LookupsInHand'
  <2>1. PICK k \in 0..Len(inbox) : inbox' = SubSeq(inbox, 1, k)
    BY <1>10 DEF Cut
  <2>2. timeouts = 0 => OneAtMost(inbox', ison)
    BY <1>1, <2>1, OneBefore DEF LookupsInHand
  <2>3. UNCHANGED <<ison, answer, timeouts>>
    BY <1>10 DEF Cut, logger, checks
  <2> QED
    BY <2>2, <2>3 DEF LookupsInHand, AnswerIsAboutAsked
<1>11. ASSUME Restart
       PROVE  LookupsInHand'
  BY <1>11, OneOfNone DEF Restart, LookupsInHand, AnswerIsAboutAsked, checks
<1> QED
  BY <1>3, <1>4, <1>5, <1>6, <1>7, <1>8, <1>9, <1>10, <1>11 DEF World

LEMMA ThreadsLookups ==
  ASSUME PresenceAssumption, Typed, LookupsInHand, Archivist \/ Lose \/ Pump \/ Checker \/ Start \/ Sync
  PROVE  LookupsInHand'
<1>1. inbox \in Seq(Message) /\ TypeOK /\ timeouts \in Nat
  BY DEF Typed, TypeOK
<1>2. ASSUME UNCHANGED <<answer, timeouts>>,
             timeouts = 0 => OneAtMost(inbox', ison')
      PROVE  LookupsInHand'
  <2>1. AnswerIsAboutAsked'
    BY <1>2 DEF LookupsInHand, AnswerIsAboutAsked
  <2> QED
    BY <1>2, <2>1 DEF LookupsInHand
<1>3. CASE Connect
  BY <1>2, <1>3, OneOfNone DEF Connect, checks, counters
<1>4. CASE Lose
  BY <1>2, <1>4, OneOfNone DEF Lose, checks, counters
<1>5. ASSUME NEW t, Reading(t), t \notin {"303", "421"}, UNCHANGED <<ison, checks>>, inbox' = Tail(inbox)
      PROVE  LookupsInHand'
  <2>1. inbox # <<>> /\ UNCHANGED timeouts
    BY <1>5 DEF Reading, counters
  <2>2. timeouts = 0 => OneAtMost(inbox', ison')
    BY <1>1, <1>5, <2>1, OneAfter DEF LookupsInHand
  <2> QED
    BY <1>2, <1>5, <2>1, <2>2 DEF checks
<1>6. CASE OnWelcome
  <2>1. /\ Reading("001") /\ Sends(channels, {}, Tail(inbox)) /\ inbox # <<>>
        /\ UNCHANGED <<ison, answer, timeouts>>
    BY <1>6 DEF OnWelcome, Reading, checks, counters
  <2>6. channels \in SUBSET Chans /\ {} \in SUBSET Chans
    BY <1>1 DEF TypeOK
  <2>7. PICK open \in SUBSET channels : Request(open, {}, Tail(inbox))
    BY <1>1, <2>1, <2>6, Sent
  <2>2. open \in SUBSET Chans /\ {} \in SUBSET Chans /\ open \cap {} = {}
    BY <2>6
  <2>3. timeouts = 0 => OneAtMost(Tail(inbox), ison)
    BY <1>1, <2>1, OneAfter DEF LookupsInHand
  <2>4. Tail(inbox) \in Seq(Message)
    BY <1>1, <2>1, Rest
  <2>5. timeouts = 0 => OneAtMost(inbox', ison)
    BY <1>1, <2>2, <2>3, <2>4, <2>7, OneRequested
  <2> QED
    BY <1>2, <2>1, <2>5
<1>7. CASE OnJoin \/ OnGone \/ OnQuit \/ OnNick
  BY <1>5, <1>7 DEF OnJoin, OnGone, OnQuit, OnNick, OnRoster
<1>8. CASE OnNames \/ OnEndOfNames
  BY <1>5, <1>8 DEF OnNames, OnEndOfNames
<1>9. ASSUME Reading("303") \/ Reading("421"), inbox' = Tail(inbox)
      PROVE  /\ inbox # <<>> /\ Answers(Head(inbox)) /\ UNCHANGED timeouts
             /\ timeouts = 0 => \A l : OneAtMost(inbox', l)
  <2>1. inbox # <<>> /\ Answers(Head(inbox)) /\ UNCHANGED timeouts
    BY <1>9 DEF Reading, Answers, counters
  <2> QED
    BY <1>1, <1>9, <2>1, OneAfter DEF LookupsInHand
<1>10. CASE OnIson
  <2>1. /\ Reading("303") /\ inbox' = Tail(inbox) /\ inbox # <<>> /\ Head(inbox).t = "303"
        /\ UNCHANGED timeouts
    BY <1>10 DEF OnIson, Reading, counters
  <2>2. CASE ison = NoOne
    BY <1>2, <1>9, <1>10, <2>1, <2>2 DEF OnIson, checks
  <2>3. CASE ison # NoOne
    <3>1. timeouts = 0 => Head(inbox).n = ison
      <4>1. Head(inbox) = inbox[1] /\ 1 \in 1..Len(inbox)
        BY <1>1, <2>1, Rest
      <4> QED
        BY <2>1, <4>1 DEF LookupsInHand, OneAtMost, Answers
    <3>2. PICK s \in {"online", "offline"} :
            answer' = [answer EXCEPT ![ison] = [says |-> s, about |-> Head(inbox).n]]
      BY <1>10, <2>3 DEF OnIson, Answer
    <3>3. answer \in [People -> [says: {"none", "online", "offline", "unknown"},
                                 about: People \cup {NoOne}]]
      BY <1>1 DEF TypeOK
    <3>4. AnswerIsAboutAsked'
      BY <2>1, <3>1, <3>2, <3>3 DEF LookupsInHand, AnswerIsAboutAsked
    <3>5. timeouts' = 0 => OneAtMost(inbox', ison')
      BY <1>9, <2>1
    <3> QED
      BY <3>4, <3>5 DEF LookupsInHand
  <2> QED
    BY <2>2, <2>3
<1>11. ASSUME Answer(Unknown), timeouts' = 0 => timeouts = 0
       PROVE  AnswerIsAboutAsked'
  <2>1. answer \in [People -> [says: {"none", "online", "offline", "unknown"},
                               about: People \cup {NoOne}]]
    BY <1>1 DEF TypeOK
  <2> QED
    BY <1>11, <2>1 DEF LookupsInHand, AnswerIsAboutAsked, Answer, Unknown
<1>12. CASE OnNoIson
  <2>1. Reading("421") /\ inbox' = Tail(inbox)
    BY <1>12 DEF OnNoIson
  <2>2. CASE ison = NoOne
    BY <1>2, <1>9, <1>12, <2>1, <2>2 DEF OnNoIson, checks
  <2>3. CASE ison # NoOne
    BY <1>9, <1>11, <1>12, <2>1, <2>3 DEF OnNoIson, LookupsInHand
  <2> QED
    BY <2>2, <2>3
<1>13. CASE ApplyReads
  BY <1>2, <1>13 DEF ApplyReads, checks, counters, LookupsInHand
<1>14. CASE ApplyActs
  <2>1. /\ taken \in SUBSET Chans /\ channels \in SUBSET Chans
        /\ Sends(taken \ channels, channels \ taken, inbox)
        /\ UNCHANGED <<ison, answer, timeouts>>
    BY <1>1, <1>14 DEF ApplyActs, TypeOK, checks, counters
  <2>4. taken \ channels \in SUBSET Chans /\ channels \ taken \in SUBSET Chans
    BY <2>1
  <2>5. PICK open \in SUBSET (taken \ channels) : Request(open, channels \ taken, inbox)
    BY <1>1, <2>1, <2>4, Sent
  <2>2. open \in SUBSET Chans /\ open \cap (channels \ taken) = {}
    BY <2>4
  <2>3. timeouts = 0 => OneAtMost(inbox', ison)
    BY <1>1, <2>2, <2>4, <2>5, OneRequested DEF LookupsInHand
  <2> QED
    BY <1>2, <2>1, <2>3
<1>15. CASE ApplyFails
  BY <1>2, <1>15, OneOfNone DEF ApplyFails, checks, counters
<1>16. asked # <<>> => Head(asked) \in People
  BY <1>1, Rest DEF TypeOK
<1>17. CASE Lookup
  <2>1. /\ Head(asked) \in People /\ ison' = Head(asked) /\ ison = NoOne
        /\ UNCHANGED <<answer, timeouts>>
    BY <1>16, <1>17 DEF Lookup, checks, counters
  <2>2. Head(asked) # NoOne
    BY <2>1 DEF PresenceAssumption
  <2>3. PICK m \in Message : /\ m.t = "303" /\ m.n = Head(asked)
                             /\ inbox' = inbox \/ inbox' = Append(inbox, m)
    <3>1. [t |-> "303", n |-> Head(asked), on |-> \E c \in Chans : Head(asked) \in members[c]] \in Message
      BY <2>1, Lines
    <3> QED
      BY <1>17, <3>1 DEF Lookup
  <2>4. timeouts = 0 => OneAtMost(inbox', ison')
    <3>1. CASE inbox' = Append(inbox, m)
      BY <1>1, <2>1, <2>2, <2>3, <3>1, OneAsked DEF LookupsInHand
    <3>2. CASE inbox' = inbox
      BY <2>1, <3>2 DEF LookupsInHand, OneAtMost
    <3> QED
      BY <2>3, <3>1, <3>2
  <2> QED
    BY <1>2, <2>1, <2>4
<1>18. CASE LookupRefused
  <2>1. /\ Head(asked) \in People /\ ison' = Head(asked) /\ ison = NoOne
        /\ inbox' = Append(inbox, [t |-> "421"])
        /\ UNCHANGED <<answer, timeouts>>
    BY <1>16, <1>18 DEF LookupRefused, checks, counters
  <2>2. Head(asked) # NoOne /\ [t |-> "421"] \in Message
    BY <2>1, Lines DEF PresenceAssumption
  <2>3. timeouts = 0 => OneAtMost(inbox', ison')
    BY <1>1, <2>1, <2>2, OneAsked DEF LookupsInHand
  <2> QED
    BY <1>2, <2>1, <2>3
<1>19. CASE LookupTimesOut
  <2>1. Answer(Unknown) /\ UNCHANGED inbox /\ (timeouts' = 0 => timeouts = 0 /\ NeverAnswered)
    BY <1>1, <1>19 DEF LookupTimesOut
  <2>2. NeverAnswered => OneAtMost(inbox, ison')
    BY <1>1, LenProperties DEF NeverAnswered, OneAtMost, Answers
  <2> QED
    BY <1>11, <2>1, <2>2 DEF LookupsInHand
<1>20. CASE Start
  BY <1>2, <1>20 DEF Start, checks, counters, LookupsInHand
<1>21. CASE Sync
  BY <1>2, <1>21 DEF Sync, checks, counters, LookupsInHand
<1> QED
  BY <1>3, <1>4, <1>6, <1>7, <1>8, <1>10, <1>12, <1>13, <1>14, <1>15, <1>17, <1>18,
     <1>19, <1>20, <1>21
     DEF Archivist, Handle, Pump, Checker

LEMMA StepLookups ==
  ASSUME PresenceAssumption, Typed, LookupsInHand, [Next]_vars
  PROVE  LookupsInHand'
<1>1. CASE UNCHANGED vars
  BY <1>1 DEF vars, LookupsInHand, AnswerIsAboutAsked, logger, checks, counters
<1>2. CASE World
  BY <1>2, WorldLookups
<1>3. CASE Archivist \/ Lose \/ Pump \/ Checker \/ Start \/ Sync
  BY <1>3, ThreadsLookups
<1> QED
  BY <1>1, <1>2, <1>3 DEF Next

-----------------------------------------------------------------------------
(* The rosters.                                                            *)

(* Lines that say nothing of a channel, and of nobody in it.               *)
LEMMA ListensThrough ==
  ASSUME NEW c, NEW box \in Seq(Message), NEW add \in Seq(Message),
         NEW S, NEW known, NEW listed, NEW there \in SUBSET Nick,
         Listens(c, box, S, known, listed, there),
         \A j \in 1..Len(add) : ~About(add[j], c),
         \A j \in 1..Len(add) : add[j].t \in {"JOIN", "353", "366", "GONE"}
  PROVE  Listens(c, box \o add, S, known, listed, there)
<1>1. PICK g : g = [j \in 0..Len(add) |-> there]
  OBVIOUS
<1>2. Len(add) \in Nat /\ 0 \in 0..Len(add) /\ Len(add) \in 0..Len(add)
  BY LenProperties
<1>3. g \in [0..Len(add) -> SUBSET Nick] /\ g[0] = there /\ g[Len(add)] = there
  BY <1>1, <1>2
<1>4. LeadsOn(0, g, c, add)
  <2> SUFFICES ASSUME NEW j \in 1..Len(add)
               PROVE  ~Resets(add[j], c) /\ g[j] = Effect(add[j], c, g[j - 1])
    BY DEF LeadsOn
  <2>1. g[j] = there /\ g[j - 1] = there
    BY <1>1, <1>2
  <2>2. ~About(add[j], c) /\ add[j].t \in {"JOIN", "353", "366", "GONE"}
    OBVIOUS
  <2> QED
    BY <2>1, <2>2 DEF Resets, About, Effect
<1> QED
  BY <1>3, <1>4, ListensOn

LEMMA RequestFollows ==
  ASSUME PresenceAssumption, members \in [Chans -> SUBSET People], conn = "up",
         NEW joins \in SUBSET Chans, NEW parts \in SUBSET Chans, joins \cap parts = {},
         NEW lines \in Seq(Message), Request(joins, parts, lines),
         AllFollow(lines), UNCHANGED <<members, names>>,
         \A c \in Chans \ parts : roster'[c] = roster[c] /\ (c \in synced' <=> c \in synced),
         \A c \in parts : roster'[c] = {} /\ c \notin synced'
  PROVE  AllFollow(inbox)'
<1>1. inside' = (inside \cup joins) \ parts
  BY Requested
<1>2. PICK add : Replies(add, joins, parts) /\ inbox' = lines \o add
  BY Requested
<1>3. /\ add \in Seq(Message) /\ ListsEnd(add)
      /\ \A i \in 1..Len(add) : add[i].t \in {"JOIN", "353", "366", "GONE"}
  BY <1>2 DEF Replies
<1>4. ListsEnd(inbox') /\ ListInHand(inbox', names')
  <2>1. ListsEnd(lines \o add) /\ ListInHand(lines \o add, names)
    BY <1>3, ListsEndOn DEF AllFollow
  <2> QED
    BY <1>2, <2>1
<1>5. ASSUME NEW c \in Chans
      PROVE  Follows(c, inbox)'
  <2>1. PICK there : there = members[c] \cup {Me} /\ there \in SUBSET Nick
    <3>1. members[c] \cup {Me} \in SUBSET Nick
      BY DEF Nick
    <3> QED
      BY <3>1
  <2>2. Follows(c, lines)
    BY DEF AllFollow
  <2>3. CASE c \in joins \ inside
    <3>1. PICK k \in 2..Len(add) :
            /\ add[k] = EndOf(c) /\ add[k - 1] = NamesOf(c, there)
            /\ \A j \in 1..Len(add) : j > k => ~About(add[j], c)
      BY <1>2, <2>1, <2>3 DEF Replies
    <3>2. \A S, known, listed : Listens(c, lines \o add, S, known, listed, there)
      BY <1>3, <2>1, <3>1, ListensAnew
    <3>3. c \in inside'
      BY <1>1, <2>3
    <3>4. Listens(c, inbox', roster'[c], c \in synced', names'[c], (members[c] \cup {Me})')
      <4>1. Listens(c, lines \o add, roster'[c], c \in synced', names'[c], there)
        BY <3>2
      <4> QED
        BY <1>2, <2>1, <4>1
    <3> QED
      BY <3>3, <3>4 DEF Follows
  <2>4. CASE c \in parts \cap inside
    <3>1. PICK k \in 1..Len(add) :
            add[k] = Farewell(c) /\ \A j \in 1..Len(add) : j > k => ~About(add[j], c)
      BY <1>2, <2>4 DEF Replies
    <3>2. \A S, known : Parted(c, lines \o add, S, known)
      BY <1>3, <3>1, PartedAnew
    <3>3. c \notin inside'
      BY <1>1, <2>4
    <3> QED
      BY <1>2, <3>2, <3>3 DEF Follows
  <2>5. CASE c \notin (joins \ inside) \cup (parts \cap inside)
    <3>1. \A j \in 1..Len(add) : ~About(add[j], c)
      BY <1>2, <2>5 DEF Replies
    <3>2. CASE c \in inside
      <4>1. c \in inside' /\ c \notin parts
        BY <1>1, <2>5, <3>2
      <4>2. Listens(c, lines, roster[c], c \in synced, names[c], there)
        BY <2>1, <2>2, <3>2 DEF Follows
      <4>3. Listens(c, lines \o add, roster[c], c \in synced, names[c], there)
        BY <1>3, <2>1, <3>1, <4>2, ListensThrough
      <4>4. roster'[c] = roster[c] /\ (c \in synced') = (c \in synced)
        BY <4>1
      <4> QED
        BY <1>2, <2>1, <4>1, <4>3, <4>4 DEF Follows
    <3>3. CASE c \notin inside
      <4>1. c \notin inside' /\ Parted(c, lines, roster[c], c \in synced)
        BY <1>1, <2>2, <2>5, <3>3 DEF Follows
      <4>2. Parted(c, lines \o add, roster[c], c \in synced)
        BY <1>3, <3>1, <4>1, PartedOn
      <4>3. Parted(c, lines \o add, roster'[c], c \in synced')
        <5>1. CASE c \in parts
          BY <4>2, <5>1 DEF Parted
        <5>2. CASE c \notin parts
          BY <4>2, <5>2 DEF Parted
        <5> QED
          BY <5>1, <5>2
      <4> QED
        BY <1>2, <4>1, <4>3 DEF Follows
    <3> QED
      BY <3>2, <3>3
  <2> QED
    BY <2>3, <2>4, <2>5
<1> QED
  BY <1>4, <1>5 DEF AllFollow

(* A line about people is added, or about the archivist's own leaving.     *)
LEMMA LineFollows ==
  ASSUME Typed, conn = "up", AllFollow(inbox), UNCHANGED <<names, rosters>>,
         NEW m \in Message, m.t # "353", inbox' = Append(inbox, m),
         \A c \in Chans :
           \/ /\ c \in inside /\ c \in inside' /\ ~Resets(m, c)
              /\ members'[c] \cup {Me} = Effect(m, c, members[c] \cup {Me})
           \/ c \notin inside /\ c \notin inside' /\ ~About(m, c)
           \/ c \notin inside' /\ m = Farewell(c)
  PROVE  AllFollow(inbox)'
<1>1. inbox \in Seq(Message) /\ members \in [Chans -> SUBSET People]
  BY DEF Typed, TypeOK
<1>0. PICK add : add = <<m>>
  OBVIOUS
<1>2. /\ add \in Seq(Message) /\ Len(add) = 1 /\ add[1] = m
      /\ inbox' = inbox \o add
  BY <1>0, <1>1, AppendIsConcat
<1>3. \A j \in 1..1 : j = 1
  OBVIOUS
<1>4. ListsEnd(inbox') /\ ListInHand(inbox', names')
  <2>1. ListsEnd(add)
    BY <1>2, <1>3 DEF ListsEnd
  <2>2. ListsEnd(inbox \o add) /\ ListInHand(inbox \o add, names)
    BY <1>1, <1>2, <2>1, ListsEndOn DEF AllFollow
  <2> QED
    BY <1>2, <2>2
<1>5. ASSUME NEW c \in Chans
      PROVE  Follows(c, inbox)'
  <2>1. Follows(c, inbox) /\ UNCHANGED <<names, roster, synced>>
    BY DEF AllFollow, rosters
  <2>2. CASE /\ c \in inside /\ c \in inside' /\ ~Resets(m, c)
             /\ members'[c] \cup {Me} = Effect(m, c, members[c] \cup {Me})
    <3>1. PICK there, then : /\ there = members[c] \cup {Me} /\ there \in SUBSET Nick
                             /\ then = members'[c] \cup {Me}
      <4>1. members[c] \cup {Me} \in SUBSET Nick
        BY <1>1 DEF Nick
      <4> QED
        BY <4>1
    <3>2. Listens(c, inbox, roster[c], c \in synced, names[c], there)
      BY <2>1, <2>2, <3>1 DEF Follows
    <3>3. Listens(c, Append(inbox, m), roster[c], c \in synced, names[c], then)
      BY <1>1, <2>2, <3>1, <3>2, ListensToOne
    <3> QED
      BY <2>1, <2>2, <3>1, <3>3 DEF Follows
  <2>3. CASE c \notin inside /\ c \notin inside' /\ ~About(m, c)
    <3>1. Parted(c, inbox, roster[c], c \in synced)
      BY <2>1, <2>3 DEF Follows
    <3>2. \A j \in 1..Len(add) : ~About(add[j], c)
      BY <1>2, <1>3, <2>3
    <3>3. Parted(c, inbox \o add, roster[c], c \in synced)
      BY <1>1, <1>2, <3>1, <3>2, PartedOn
    <3> QED
      BY <1>2, <2>1, <2>3, <3>3 DEF Follows
  <2>4. CASE c \notin inside' /\ m = Farewell(c)
    <3>1. 1 \in 1..Len(add) /\ \A j \in 1..Len(add) : ~(j > 1)
      BY <1>2
    <3>2. \A S, known : Parted(c, inbox \o add, S, known)
      BY <1>1, <1>2, <2>4, <3>1, PartedAnew
    <3> QED
      BY <1>2, <2>4, <3>2 DEF Follows
  <2> QED
    BY <2>2, <2>3, <2>4
<1> QED
  BY <1>4, <1>5 DEF AllFollow

(* Nothing is written, and nobody comes or goes where the archivist is.    *)
LEMMA SilenceFollows ==
  ASSUME AllFollow(inbox), UNCHANGED <<inside, inbox, names, rosters>>,
         \A c \in inside : members'[c] = members[c]
  PROVE  AllFollow(inbox)'
BY DEF AllFollow, Follows, rosters

LEMMA WorldFollows ==
  ASSUME PresenceAssumption, Typed, ~CaseRenames, RostersFollow, World
  PROVE  RostersFollow'
<1>1. /\ inbox \in Seq(Message) /\ members \in [Chans -> SUBSET People] /\ inside \in SUBSET Chans
  BY DEF Typed, TypeOK
<1>2. ASSUME UNCHANGED <<inside, conn>>, conn = "up" => AllFollow(inbox)'
      PROVE  RostersFollow'
  BY <1>2 DEF RostersFollow
<1>3. ASSUME NEW n \in People, NEW c \in Chans, PersonJoins(n, c)
      PROVE  RostersFollow'
  <2>1. UNCHANGED <<inside, conn, names, rosters>>
    BY <1>3 DEF PersonJoins, PersonEvent, logger
  <2>2. CASE conn = "up" /\ c \in inside
    <3>1. PICK m \in Message : m = [t |-> "JOIN", c |-> c, n |-> n]
      BY Lines DEF Nick
    <3>2. inbox' = Append(inbox, m) /\ m.t # "353"
      BY <1>3, <2>2, <3>1 DEF PersonJoins, Told
    <3>3. n # Me
      BY DEF PresenceAssumption
    <3>4. \A d \in Chans :
            /\ ~Resets(m, d)
            /\ members'[d] \cup {Me} = Effect(m, d, members[d] \cup {Me})
            /\ d # c => ~About(m, d)
      BY <1>1, <1>3, <3>1, <3>3 DEF PersonJoins, Resets, About, Effect
    <3>5. AllFollow(inbox)'
      BY <2>1, <2>2, <3>2, <3>4, LineFollows DEF RostersFollow
    <3> QED
      BY <1>2, <2>1, <3>5
  <2>3. CASE conn = "up" /\ c \notin inside
    <3>1. inbox' = inbox /\ \A d \in inside : members'[d] = members[d]
      BY <1>1, <1>3, <2>3 DEF PersonJoins, Told
    <3>2. AllFollow(inbox)'
      BY <2>1, <2>3, <3>1, SilenceFollows DEF RostersFollow
    <3> QED
      BY <1>2, <2>1, <3>2
  <2> QED
    BY <1>2, <2>1, <2>2, <2>3
<1>4. ASSUME NEW n \in People, NEW c \in Chans, PersonGoes(n, c)
      PROVE  RostersFollow'
  <2>1. UNCHANGED <<inside, conn, names, rosters>>
    BY <1>4 DEF PersonGoes, PersonEvent, logger
  <2>2. CASE conn = "up" /\ c \in inside
    <3>1. PICK m \in Message : m = [t |-> "GONE", c |-> c, n |-> n]
      BY Lines DEF Nick
    <3>2. inbox' = Append(inbox, m) /\ m.t # "353"
      BY <1>4, <2>2, <3>1 DEF PersonGoes, Told
    <3>3. n # Me
      BY DEF PresenceAssumption
    <3>4. \A d \in Chans :
            /\ ~Resets(m, d)
            /\ members'[d] \cup {Me} = Effect(m, d, members[d] \cup {Me})
            /\ d # c => ~About(m, d)
      BY <1>1, <1>4, <3>1, <3>3 DEF PersonGoes, Resets, About, Effect
    <3>5. AllFollow(inbox)'
      BY <2>1, <2>2, <3>2, <3>4, LineFollows DEF RostersFollow
    <3> QED
      BY <1>2, <2>1, <3>5
  <2>3. CASE conn = "up" /\ c \notin inside
    <3>1. inbox' = inbox /\ \A d \in inside : members'[d] = members[d]
      BY <1>1, <1>4, <2>3 DEF PersonGoes, Told
    <3>2. AllFollow(inbox)'
      BY <2>1, <2>3, <3>1, SilenceFollows DEF RostersFollow
    <3> QED
      BY <1>2, <2>1, <3>2
  <2> QED
    BY <1>2, <2>1, <2>2, <2>3
<1>5. ASSUME NEW n \in People, PersonQuits(n)
      PROVE  RostersFollow'
  <2>1. UNCHANGED <<inside, conn, names, rosters>>
    BY <1>5 DEF PersonQuits, PersonEvent, logger
  <2>2. CASE conn = "up" /\ \E c \in inside : n \in members[c]
    <3>1. PICK m \in Message : m = [t |-> "QUIT", n |-> n]
      BY Lines
    <3>2. inbox' = Append(inbox, m) /\ m.t # "353"
      BY <1>5, <2>2, <3>1 DEF PersonQuits, ToldOf
    <3>3. n # Me
      BY DEF PresenceAssumption
    <3>4. \A d \in Chans :
            /\ ~Resets(m, d) /\ ~About(m, d)
            /\ members'[d] \cup {Me} = Effect(m, d, members[d] \cup {Me})
      BY <1>1, <1>5, <3>1, <3>3 DEF PersonQuits, Resets, About, Effect
    <3>5. AllFollow(inbox)'
      BY <2>1, <2>2, <3>2, <3>4, LineFollows DEF RostersFollow
    <3> QED
      BY <1>2, <2>1, <3>5
  <2>3. CASE conn = "up" /\ ~\E c \in inside : n \in members[c]
    <3>1. inbox' = inbox /\ \A d \in inside : members'[d] = members[d]
      BY <1>1, <1>5, <2>3 DEF PersonQuits, ToldOf
    <3>2. AllFollow(inbox)'
      BY <2>1, <2>3, <3>1, SilenceFollows DEF RostersFollow
    <3> QED
      BY <1>2, <2>1, <3>2
  <2> QED
    BY <1>2, <2>1, <2>2, <2>3
<1>6. ASSUME NEW n \in People, NEW o \in People, PersonRenames(n, o)
      PROVE  RostersFollow'
  <2>1. UNCHANGED <<inside, conn, names, rosters>>
    BY <1>6 DEF PersonRenames, PersonEvent, logger
  <2>2. CASE conn = "up" /\ \E c \in inside : n \in members[c]
    <3>1. PICK m \in Message : m = [t |-> "NICK", n |-> n, to |-> o]
      BY Lines
    <3>2. inbox' = Append(inbox, m) /\ m.t # "353"
      BY <1>6, <2>2, <3>1 DEF PersonRenames, ToldOf
    <3>3. n # Me /\ n # o
      BY <1>6 DEF PresenceAssumption, PersonRenames
    <3>4. ASSUME NEW d \in Chans
          PROVE  /\ ~Resets(m, d) /\ ~About(m, d)
                 /\ members'[d] \cup {Me} = Effect(m, d, members[d] \cup {Me})
      <4>1. members'[d] = IF n \in members[d] THEN (members[d] \ {n}) \cup {o} ELSE members[d]
        BY <1>1, <1>6 DEF PersonRenames
      <4>2. Effect(m, d, members[d] \cup {Me}) =
              (IF n \in members[d] \cup {Me} THEN (members[d] \cup {Me}) \cup {o}
                                             ELSE members[d] \cup {Me}) \ {n}
        BY <3>1 DEF Effect
      <4>3. members'[d] \cup {Me} = Effect(m, d, members[d] \cup {Me})
        <5>1. CASE n \in members[d]
          BY <3>3, <4>1, <4>2, <5>1
        <5>2. CASE n \notin members[d]
          BY <3>3, <4>1, <4>2, <5>2
        <5> QED
          BY <5>1, <5>2
      <4> QED
        BY <3>1, <4>3 DEF Resets, About
    <3>5. AllFollow(inbox)'
      BY <2>1, <2>2, <3>2, <3>4, LineFollows DEF RostersFollow
    <3> QED
      BY <1>2, <2>1, <3>5
  <2>3. CASE conn = "up" /\ ~\E c \in inside : n \in members[c]
    <3>1. inbox' = inbox /\ \A d \in inside : members'[d] = members[d]
      BY <1>1, <1>6, <2>3 DEF PersonRenames, ToldOf
    <3>2. AllFollow(inbox)'
      BY <2>1, <2>3, <3>1, SilenceFollows DEF RostersFollow
    <3> QED
      BY <1>2, <2>1, <3>2
  <2> QED
    BY <1>2, <2>1, <2>2, <2>3
<1>7. ASSUME NEW c \in Chans, KickArchivist(c)
      PROVE  RostersFollow'
  <2>1. UNCHANGED <<members, conn, names, rosters>> /\ inside' = inside \ {c} /\ c \in inside
    BY <1>7 DEF KickArchivist, logger
  <2>2. CASE conn = "up"
    <3>1. PICK m \in Message : m = Farewell(c)
      BY Lines DEF Nick, Farewell
    <3>2. inbox' = Append(inbox, m) /\ m.t # "353"
      BY <1>7, <3>1 DEF KickArchivist, Farewell
    <3>3. \A d \in Chans : d # c =>
            /\ ~Resets(m, d) /\ ~About(m, d)
            /\ members'[d] \cup {Me} = Effect(m, d, members[d] \cup {Me})
      BY <2>1, <3>1 DEF Resets, About, Effect, Farewell
    <3>4. \A d \in Chans :
           \/ /\ d \in inside /\ d \in inside' /\ ~Resets(m, d)
              /\ members'[d] \cup {Me} = Effect(m, d, members[d] \cup {Me})
           \/ d \notin inside /\ d \notin inside' /\ ~About(m, d)
           \/ d \notin inside' /\ m = Farewell(d)
      BY <2>1, <3>1, <3>3
    <3>5. AllFollow(inbox)'
      BY <2>1, <2>2, <3>2, <3>4, LineFollows DEF RostersFollow
    <3> QED
      BY <2>1, <2>2, <3>5 DEF RostersFollow
  <2>3. CASE conn # "up"
    BY <2>1, <2>3 DEF RostersFollow
  <2> QED
    BY <2>2, <2>3
<1>8. ASSUME UNCHANGED <<server, inbox, conn, logger, rosters>>
      PROVE  RostersFollow'
  <2>1. UNCHANGED <<inside, inbox, conn, names, rosters, members>>
    BY <1>8 DEF server, logger
  <2>2. conn = "up" => AllFollow(inbox)'
    BY <2>1, SilenceFollows DEF RostersFollow
  <2> QED
    BY <1>2, <2>1, <2>2
<1>9. ASSUME NEW S \in SUBSET Chans, Edit(S)
      PROVE  RostersFollow'
  BY <1>8, <1>9 DEF Edit
<1>10. ASSUME NEW n \in People, AskStatus(n)
       PROVE  RostersFollow'
  BY <1>8, <1>10 DEF AskStatus
<1>11. ASSUME Cut \/ Restart
       PROVE  RostersFollow'
  BY <1>11 DEF Cut, Restart, RostersFollow
<1> QED
  BY <1>3, <1>4, <1>5, <1>6, <1>7, <1>9, <1>10, <1>11 DEF World

(* What reading the line m does to the rosters.                            *)
Absorbs(m, c) ==
  /\ c \in synced /\ ~Resets(m, c) => c \in synced' /\ roster'[c] = Effect(m, c, roster[c])
  /\ m = EndOf(c) => c \in synced' /\ roster'[c] = names[c]
  /\ \A T \in SUBSET Nick : m = NamesOf(c, T) /\ names[c] = {} => names'[c] = T
  /\ ~About(m, c) => (roster[c] = {} => roster'[c] = {}) /\ (c \in synced' => c \in synced)
  /\ m = Farewell(c) => roster'[c] = {} /\ c \notin synced'
  /\ names'[c] # {} => \/ names[c] # {} /\ m # EndOf(c)
                       \/ m.t = "353" /\ m.c = c

LEMMA ReadFollows ==
  ASSUME Typed, conn = "up", AllFollow(inbox), inbox # <<>>,
         UNCHANGED <<members, inside>>, inbox' = Tail(inbox),
         \A c \in Chans : Absorbs(Head(inbox), c)
  PROVE  AllFollow(inbox)'
<1>1. inbox \in Seq(Message)
  BY DEF Typed, TypeOK
<1>2. ListsEnd(inbox') /\ ListInHand(inbox', names')
  <2>1. PICK told : told = names'
    OBVIOUS
  <2>2. \A c \in Chans : told[c] # {} =>
           \/ names[c] # {} /\ Head(inbox) # EndOf(c)
           \/ Head(inbox).t = "353" /\ Head(inbox).c = c
    BY <2>1 DEF Absorbs
  <2>3. ListsEnd(inbox) /\ ListInHand(inbox, names)
    BY DEF AllFollow
  <2>4. ListsEnd(Tail(inbox)) /\ ListInHand(Tail(inbox), told)
    BY <1>1, <2>2, <2>3, ListsEndAfter
  <2> QED
    BY <2>1, <2>4
<1>3. ASSUME NEW c \in Chans
      PROVE  Follows(c, inbox)'
  <2>1. Follows(c, inbox) /\ Absorbs(Head(inbox), c)
    BY DEF AllFollow
  <2>2. PICK there : there = members[c] \cup {Me}
    OBVIOUS
  <2>3. CASE c \in inside
    <3>1. PICK told : told = names'[c]
      OBVIOUS
    <3>2. PICK R : R = roster'[c]
      OBVIOUS
    <3>3. PICK known \in BOOLEAN, held \in BOOLEAN :
            known = (c \in synced) /\ held = (c \in synced')
      <4>1. (c \in synced) \in BOOLEAN /\ (c \in synced') \in BOOLEAN
        OBVIOUS
      <4> QED
        BY <4>1, Zenon
    <3>4. Listens(c, inbox, roster[c], known, names[c], there)
      BY <2>1, <2>2, <2>3, <3>3 DEF Follows
    <3>5. \A T \in SUBSET Nick : Head(inbox) = NamesOf(c, T) => told = T
      <4> SUFFICES ASSUME NEW T \in SUBSET Nick, Head(inbox) = NamesOf(c, T)
                   PROVE  told = T
        OBVIOUS
      <4>1. Head(inbox) # EndOf(c)
        BY DEF NamesOf, EndOf
      <4>2. names[c] = {}
        BY <4>1 DEF AllFollow, ListInHand
      <4> QED
        BY <2>1, <3>1, <4>2 DEF Absorbs
    <3>6. /\ known /\ ~Resets(Head(inbox), c) => held /\ R = Effect(Head(inbox), c, roster[c])
          /\ Head(inbox) = EndOf(c) => held /\ R = names[c]
      BY <2>1, <3>2, <3>3 DEF Absorbs
    <3>7. Listens(c, Tail(inbox), R, held, told, there)
      BY <1>1, <3>4, <3>5, <3>6, ListensAfter
    <3> QED
      BY <2>2, <2>3, <3>1, <3>2, <3>3, <3>7 DEF Follows
  <2>4. CASE c \notin inside
    <3>1. PICK R : R = roster'[c]
      OBVIOUS
    <3>2. PICK known \in BOOLEAN, held \in BOOLEAN :
            known = (c \in synced) /\ held = (c \in synced')
      <4>1. (c \in synced) \in BOOLEAN /\ (c \in synced') \in BOOLEAN
        OBVIOUS
      <4> QED
        BY <4>1, Zenon
    <3>3. Parted(c, inbox, roster[c], known)
      BY <2>1, <2>4, <3>2 DEF Follows
    <3>4. /\ ~About(Head(inbox), c) => (roster[c] = {} => R = {}) /\ (held => known)
          /\ Head(inbox) = Farewell(c) => R = {} /\ ~held
      BY <2>1, <3>1, <3>2 DEF Absorbs
    <3>5. Parted(c, Tail(inbox), R, held)
      BY <1>1, <3>3, <3>4, PartedAfter
    <3> QED
      BY <2>4, <3>1, <3>2, <3>5 DEF Follows
  <2> QED
    BY <2>3, <2>4
<1> QED
  BY <1>2, <1>3 DEF AllFollow

(* A line that is about nobody is put aside.                               *)
LEMMA PutAside ==
  ASSUME Typed, AllFollow(inbox), inbox # <<>>, Head(inbox).t = "001"
  PROVE  AllFollow(Tail(inbox))
<1>1. inbox \in Seq(Message)
  BY DEF Typed, TypeOK
<1>2. PICK m : m = Head(inbox)
  OBVIOUS
<1>3. ASSUME NEW c, NEW S
      PROVE  /\ ~About(m, c) /\ ~Resets(m, c) /\ m # EndOf(c) /\ m # Farewell(c)
             /\ \A T : m # NamesOf(c, T)
             /\ Effect(m, c, S) = S
  BY <1>2 DEF About, Resets, EndOf, Farewell, NamesOf, Effect
<1>4. ListsEnd(Tail(inbox)) /\ ListInHand(Tail(inbox), names)
  BY <1>1, <1>2, <1>3, ListsEndAfter DEF AllFollow
<1>5. ASSUME NEW c \in Chans
      PROVE  Follows(c, Tail(inbox))
  <2>1. Follows(c, inbox)
    BY DEF AllFollow
  <2>2. PICK there : there = members[c] \cup {Me}
    OBVIOUS
  <2>3. CASE c \in inside
    <3>1. PICK known \in BOOLEAN : known = (c \in synced)
      <4>1. (c \in synced) \in BOOLEAN
        OBVIOUS
      <4> QED
        BY <4>1, Zenon
    <3>2. Listens(c, inbox, roster[c], known, names[c], there)
      BY <2>1, <2>2, <2>3, <3>1 DEF Follows
    <3>3. /\ Effect(Head(inbox), c, roster[c]) = roster[c] /\ Head(inbox) # EndOf(c)
          /\ \A T \in SUBSET Nick : Head(inbox) # NamesOf(c, T)
      BY <1>2, <1>3
    <3>4. Listens(c, Tail(inbox), roster[c], known, names[c], there)
      BY <1>1, <3>2, <3>3, ListensAfter
    <3> QED
      BY <2>2, <2>3, <3>1, <3>4 DEF Follows
  <2>4. CASE c \notin inside
    <3>1. Parted(c, inbox, roster[c], c \in synced)
      BY <2>1, <2>4 DEF Follows
    <3>2. Parted(c, Tail(inbox), roster[c], c \in synced)
      BY <1>1, <1>2, <1>3, <3>1, PartedAfter
    <3> QED
      BY <2>4, <3>2 DEF Follows
  <2> QED
    BY <2>3, <2>4
<1> QED
  BY <1>4, <1>5 DEF AllFollow

LEMMA HandleFollows ==
  ASSUME PresenceAssumption, Typed, ~CaseRenames, RostersFollow, Handle
  PROVE  RostersFollow'
<1>1. /\ inbox \in Seq(Message) /\ members \in [Chans -> SUBSET People]
      /\ inside \in SUBSET Chans /\ channels \in SUBSET Chans /\ synced \in SUBSET Chans
      /\ roster \in [Chans -> SUBSET Nick] /\ names \in [Chans -> SUBSET Nick]
  BY DEF Typed, TypeOK
<1>2. PICK m : m = Head(inbox)
  OBVIOUS
<1>3. ASSUME NEW t, Reading(t)
      PROVE  /\ m \in Message /\ m.t = t /\ inbox # <<>>
             /\ UNCHANGED <<members, conn>>
  BY <1>1, <1>2, <1>3, Rest DEF Reading
<1>4. ASSUME NEW t, Reading(t), UNCHANGED inside, inbox' = Tail(inbox),
             conn = "up" => \A c \in Chans : Absorbs(m, c)
      PROVE  RostersFollow'
  <2>1. CASE conn = "up"
    BY <1>2, <1>3, <1>4, <2>1, ReadFollows DEF RostersFollow
  <2>2. CASE conn # "up"
    BY <1>3, <1>4, <2>2 DEF RostersFollow
  <2> QED
    BY <2>1, <2>2
<1>5. CASE OnWelcome
  <2>1. /\ Reading("001") /\ Sends(channels, {}, Tail(inbox))
        /\ UNCHANGED <<names, roster, synced>>
    BY <1>5 DEF OnWelcome, rosters
  <2>4. TypeOK /\ {} \in SUBSET Chans
    BY DEF Typed
  <2>5. PICK open \in SUBSET channels : Request(open, {}, Tail(inbox))
    BY <1>1, <2>1, <2>4, Sent
  <2>2. CASE conn = "up"
    <3>1. AllFollow(Tail(inbox)) /\ Tail(inbox) \in Seq(Message)
      BY <1>1, <1>2, <1>3, <2>1, <2>2, PutAside, Rest DEF RostersFollow
    <3>2. open \in SUBSET Chans /\ {} \in SUBSET Chans /\ open \cap {} = {}
      BY <1>1
    <3>3. /\ \A c \in Chans \ {} : roster'[c] = roster[c] /\ (c \in synced' <=> c \in synced)
          /\ UNCHANGED <<members, names>>
      BY <1>3, <2>1
    <3>4. \A c \in {} : roster'[c] = {} /\ c \notin synced'
      OBVIOUS
    <3>5. AllFollow(inbox)'
      BY <1>1, <2>2, <2>5, <3>1, <3>2, <3>3, <3>4, RequestFollows
    <3> QED
      BY <1>3, <2>1, <2>2, <3>5 DEF RostersFollow
  <2>3. CASE conn # "up"
    BY <1>3, <2>1, <2>3, <2>5 DEF RostersFollow, Request
  <2> QED
    BY <2>2, <2>3
<1>6. ASSUME m.t \notin {"353", "366"}, NEW c
      PROVE  m # EndOf(c) /\ \A S : m # NamesOf(c, S)
  BY <1>6 DEF EndOf, NamesOf
(* A line that changes rosters only does so by its effect.                 *)
<1>7. ASSUME NEW t, OnRoster(t), t \in {"JOIN", "GONE", "QUIT", "NICK"}
      PROVE  /\ Reading(t) /\ UNCHANGED <<inside, names>> /\ inbox' = Tail(inbox)
             /\ m \in Message /\ m.t = t
             /\ conn = "up" => \A c \in Chans : names[c] # {} => FALSE
  <2>1. Reading(t) /\ UNCHANGED <<inside, names>> /\ inbox' = Tail(inbox)
    BY <1>7 DEF OnRoster
  <2>2. m \in Message /\ m.t = t
    BY <1>3, <2>1
  <2>3. conn = "up" => \A c \in Chans : names[c] # {} => FALSE
    <3>1. \A c \in Chans : m # EndOf(c)
      BY <1>7, <2>2 DEF EndOf
    <3> QED
      BY <1>2, <3>1 DEF RostersFollow, AllFollow, ListInHand
  <2> QED
    BY <2>1, <2>2, <2>3
<1>8. CASE OnJoin
  <2>1. /\ OnRoster("JOIN") /\ UNCHANGED synced
        /\ roster' = [roster EXCEPT ![m.c] = @ \cup {m.n}]
    BY <1>2, <1>8 DEF OnJoin
  <2>2. m \in Message /\ m.t = "JOIN" /\ UNCHANGED names
    BY <1>7, <2>1
  <2>3. ASSUME conn = "up", NEW c \in Chans
        PROVE  Absorbs(m, c)
    <3>1. names'[c] = {}
      BY <1>7, <2>1, <2>2, <2>3
    <3>2. m # Farewell(c) /\ m # EndOf(c) /\ \A T : m # NamesOf(c, T)
      BY <1>6, <2>2 DEF Farewell
    <3>3. /\ About(m, c) <=> m.c = c
          /\ Effect(m, c, roster[c]) = IF m.c = c THEN roster[c] \cup {m.n} ELSE roster[c]
      BY <2>2 DEF About, Effect
    <3>4. roster'[c] = Effect(m, c, roster[c])
      BY <1>1, <2>1, <3>3
    <3> QED
      BY <2>1, <3>1, <3>2, <3>3, <3>4 DEF Absorbs
  <2> QED
    BY <1>4, <1>7, <2>1, <2>3
<1>9. CASE OnGone
  <2>1. /\ OnRoster("GONE")
        /\ roster' = [roster EXCEPT ![m.c] = IF m.n = Me THEN {} ELSE @ \ {m.n}]
        /\ synced' = IF m.n = Me THEN synced \ {m.c} ELSE synced
    BY <1>2, <1>9 DEF OnGone
  <2>2. m \in Message /\ m.t = "GONE" /\ UNCHANGED names
    BY <1>7, <2>1
  <2>3. ASSUME conn = "up", NEW c \in Chans
        PROVE  Absorbs(m, c)
    <3>1. names'[c] = {}
      BY <1>7, <2>1, <2>2, <2>3
    <3>2. m = Farewell(c) => m.c = c /\ m.n = Me
      BY DEF Farewell
    <3>3. Effect(m, c, roster[c]) = IF m.c = c THEN roster[c] \ {m.n} ELSE roster[c]
      BY <2>2 DEF Effect
    <3>4. Resets(m, c) <=> m.c = c /\ m.n = Me
      BY <2>2 DEF Resets, About
    <3>5. About(m, c) <=> m.c = c
      BY <2>2 DEF About
    <3>6. roster'[c] = IF m.c # c THEN roster[c] ELSE IF m.n = Me THEN {} ELSE roster[c] \ {m.n}
      BY <1>1, <2>1
    <3>7. m # EndOf(c) /\ \A T : m # NamesOf(c, T)
      BY <1>6, <2>2
    <3> QED
      BY <2>1, <3>1, <3>2, <3>3, <3>4, <3>5, <3>6, <3>7 DEF Absorbs
  <2> QED
    BY <1>4, <1>7, <2>1, <2>3
<1>10. CASE OnQuit
  <2>1. /\ OnRoster("QUIT") /\ UNCHANGED synced
        /\ roster' = [c \in Chans |-> roster[c] \ {m.n}]
    BY <1>2, <1>10 DEF OnQuit
  <2>2. m \in Message /\ m.t = "QUIT" /\ UNCHANGED names
    BY <1>7, <2>1
  <2>3. ASSUME conn = "up", NEW c \in Chans
        PROVE  Absorbs(m, c)
    <3>1. names'[c] = {}
      BY <1>7, <2>1, <2>2, <2>3
    <3>2. m # Farewell(c) /\ m # EndOf(c) /\ \A T : m # NamesOf(c, T)
      BY <1>6, <2>2 DEF Farewell
    <3>3. /\ About(m, c) <=> FALSE
          /\ Effect(m, c, roster[c]) = roster[c] \ {m.n}
      BY <2>2 DEF About, Effect
    <3>4. roster'[c] = Effect(m, c, roster[c])
      BY <1>1, <2>1, <3>3
    <3> QED
      BY <2>1, <3>1, <3>2, <3>3, <3>4 DEF Absorbs
  <2> QED
    BY <1>4, <1>7, <2>1, <2>3
<1>11. CASE OnNick
  <2>1. /\ OnRoster("NICK") /\ UNCHANGED synced
        /\ roster' = [c \in Chans |->
             (IF m.n \in roster[c] THEN roster[c] \cup {m.to} ELSE roster[c]) \ {m.n}]
    BY <1>2, <1>11 DEF OnNick
  <2>2. m \in Message /\ m.t = "NICK" /\ UNCHANGED names
    BY <1>7, <2>1
  <2>3. ASSUME conn = "up", NEW c \in Chans
        PROVE  Absorbs(m, c)
    <3>1. names'[c] = {}
      BY <1>7, <2>1, <2>2, <2>3
    <3>2. m # Farewell(c) /\ m # EndOf(c) /\ \A T : m # NamesOf(c, T)
      BY <1>6, <2>2 DEF Farewell
    <3>3. /\ About(m, c) <=> FALSE
          /\ Effect(m, c, roster[c]) = 
                (IF m.n \in roster[c] THEN roster[c] \cup {m.to} ELSE roster[c]) \ {m.n}
      BY <2>2 DEF About, Effect
    <3>4. roster'[c] = Effect(m, c, roster[c])
      BY <1>1, <2>1, <3>3
    <3> QED
      BY <2>1, <3>1, <3>2, <3>3, <3>4 DEF Absorbs
  <2> QED
    BY <1>4, <1>7, <2>1, <2>3
<1>12. CASE OnNames
  <2>1. /\ Reading("353") /\ UNCHANGED <<inside, roster, synced>> /\ inbox' = Tail(inbox)
        /\ names' = [names EXCEPT ![m.c] = @ \cup m.ns]
    BY <1>2, <1>12 DEF OnNames, rosters
  <2>2. m \in Message /\ m.t = "353"
    BY <1>3, <2>1
  <2>3. ASSUME NEW c \in Chans
        PROVE  Absorbs(m, c)
    <3>1. m # EndOf(c) /\ m # Farewell(c)
      BY <2>2 DEF EndOf, Farewell
    <3>2. Effect(m, c, roster[c]) = roster[c]
      BY <2>2 DEF Effect
    <3>3. \A T \in SUBSET Nick : m = NamesOf(c, T) => m.c = c /\ m.ns = T
      BY DEF NamesOf
    <3>4. names'[c] = IF m.c = c THEN names[c] \cup m.ns ELSE names[c]
      BY <1>1, <2>1
    <3>5. \A T \in SUBSET Nick : m = NamesOf(c, T) /\ names[c] = {} => names'[c] = T
      BY <3>3, <3>4
    <3> QED
      BY <2>1, <2>2, <3>1, <3>2, <3>4, <3>5 DEF Absorbs
  <2> QED
    BY <1>4, <2>1, <2>3
<1>13. CASE OnEndOfNames
  <2>1. /\ Reading("366") /\ UNCHANGED inside /\ inbox' = Tail(inbox)
        /\ roster' = [roster EXCEPT ![m.c] = names[m.c]]
        /\ synced' = synced \cup {m.c}
        /\ names' = [names EXCEPT ![m.c] = {}]
    BY <1>2, <1>13 DEF OnEndOfNames
  <2>2. m \in Message /\ m.t = "366" /\ m = EndOf(m.c)
    BY <1>3, <2>1, LineFields DEF EndOf
  <2>3. ASSUME NEW c \in Chans
        PROVE  Absorbs(m, c)
    <3>1. m # Farewell(c) /\ \A T : m # NamesOf(c, T)
      BY <2>2 DEF NamesOf, Farewell
    <3>2. Effect(m, c, roster[c]) = roster[c] /\ (Resets(m, c) <=> m.c = c) /\ (About(m, c) <=> m.c = c)
      BY <2>2 DEF Effect, Resets, About
    <3>3. m = EndOf(c) <=> m.c = c
      BY <2>2 DEF EndOf
    <3>4. /\ roster'[c] = IF m.c = c THEN names[c] ELSE roster[c]
          /\ names'[c] = IF m.c = c THEN {} ELSE names[c]
      BY <1>1, <2>1
    <3> QED
      BY <2>1, <3>1, <3>2, <3>3, <3>4 DEF Absorbs
  <2> QED
    BY <1>4, <2>1, <2>3
<1>14. CASE OnIson \/ OnNoIson
  <2>1. PICK t \in {"303", "421"} :
          /\ Reading(t) /\ UNCHANGED <<inside, names, roster, synced>> /\ inbox' = Tail(inbox)
    BY <1>14 DEF OnIson, OnNoIson, rosters
  <2>2. m \in Message /\ m.t \in {"303", "421"}
    BY <1>3, <2>1
  <2>3. ASSUME NEW c \in Chans
        PROVE  Absorbs(m, c)
    BY <1>6, <2>1, <2>2 DEF Absorbs, About, Effect, Farewell, EndOf
  <2> QED
    BY <1>4, <2>1, <2>3
<1> QED
  BY <1>5, <1>8, <1>9, <1>10, <1>11, <1>12, <1>13, <1>14 DEF Handle

LEMMA ThreadsFollow ==
  ASSUME PresenceAssumption, Typed, ~CaseRenames, RostersFollow,
         Archivist \/ Lose \/ Pump \/ Checker \/ Start \/ Sync
  PROVE  RostersFollow'
<1>1. /\ inbox \in Seq(Message) /\ members \in [Chans -> SUBSET People]
      /\ inside \in SUBSET Chans /\ channels \in SUBSET Chans /\ synced \in SUBSET Chans
      /\ roster \in [Chans -> SUBSET Nick] /\ names \in [Chans -> SUBSET Nick]
  BY DEF Typed, TypeOK
<1>2. CASE Connect
  <2>1. /\ inside' = {} /\ conn' = "up"
        /\ names' = Nobody /\ roster' = Nobody /\ synced' = {}
        /\ inbox' = <<[t |-> "001"]>>
    BY <1>2 DEF Connect, RostersFollow, server
  <2>2. Len(inbox') = 1 /\ inbox'[1].t = "001" /\ \A i \in 1..1 : i = 1
    BY <2>1
  <2>3. ListsEnd(inbox') /\ ListInHand(inbox', names')
    BY <2>1, <2>2 DEF ListsEnd, ListInHand, Nobody
  <2>4. \A c \in Chans : Parted(c, inbox', roster'[c], c \in synced')
    BY <2>1, <2>2 DEF Parted, About, Nobody
  <2>5. \A c \in Chans : Follows(c, inbox)'
    BY <2>1, <2>4 DEF Follows
  <2> QED
    BY <2>1, <2>3, <2>5 DEF RostersFollow, AllFollow
<1>3. CASE Lose
  BY <1>3 DEF Lose, RostersFollow, server
<1>4. CASE Handle
  BY <1>4, HandleFollows
<1>5. CASE ApplyActs
  <2> DEFINE joins == taken \ channels
             left == channels \ taken
  <2>1. /\ taken \in SUBSET Chans
        /\ Sends(joins, left, inbox)
        /\ roster' = [c \in Chans |-> IF c \in left THEN {} ELSE roster[c]]
        /\ synced' = synced \ left
        /\ UNCHANGED <<members, conn, names>>
    BY <1>5 DEF ApplyActs, Typed, TypeOK
  <2>5. joins \in SUBSET Chans /\ left \in SUBSET Chans /\ joins \cap left = {}
    BY <1>1, <2>1
  <2> HIDE DEF joins, left
  <2>6. PICK open \in SUBSET joins : Request(open, left, inbox)
    BY <2>1, <2>5, Sent DEF Typed
  <2>2. open \in SUBSET Chans /\ left \in SUBSET Chans /\ open \cap left = {}
    BY <2>5
  <2>3. CASE conn = "up"
    <3>1. /\ \A c \in Chans \ left : roster'[c] = roster[c] /\ (c \in synced' <=> c \in synced)
          /\ \A c \in left : roster'[c] = {} /\ c \notin synced'
      BY <1>1, <2>1, <2>2
    <3>2. AllFollow(inbox)
      BY <2>3 DEF RostersFollow
    <3>3. AllFollow(inbox)'
      BY <1>1, <2>1, <2>2, <2>3, <2>6, <3>1, <3>2, RequestFollows
    <3> QED
      BY <2>1, <2>3, <3>3 DEF RostersFollow
  <2>4. CASE conn # "up"
    BY <2>1, <2>4, <2>6 DEF RostersFollow, Request
  <2> QED
    BY <2>3, <2>4
<1>6. CASE ApplyFails
  BY <1>6 DEF ApplyFails, RostersFollow, server
<1>7. ASSUME UNCHANGED <<server, inbox, conn, names, rosters>>
      PROVE  RostersFollow'
  <2>1. UNCHANGED <<inside, inbox, conn, names, rosters, members>>
    BY <1>7 DEF server
  <2>2. conn = "up" => AllFollow(inbox)'
    BY <2>1, SilenceFollows DEF RostersFollow
  <2> QED
    BY <2>1, <2>2 DEF RostersFollow
<1>8. CASE ApplyReads \/ Sync
  BY <1>7, <1>8 DEF ApplyReads, Sync
<1>9. CASE LookupTimesOut
  BY <1>7, <1>9 DEF LookupTimesOut
<1>10. ASSUME UNCHANGED <<server, conn, names, rosters>>, conn = "up",
              NEW m \in Message, m.t \in {"303", "421"}, inbox' = Append(inbox, m)
       PROVE  RostersFollow'
  <2>1. \A c \in Chans : /\ ~Resets(m, c) /\ ~About(m, c)
                         /\ members'[c] \cup {Me} = Effect(m, c, members[c] \cup {Me})
    BY <1>10 DEF Resets, About, Effect, server
  <2>2. UNCHANGED inside /\ m.t # "353" /\ AllFollow(inbox)
    BY <1>10 DEF server, RostersFollow
  <2>3. AllFollow(inbox)'
    BY <1>10, <2>1, <2>2, LineFollows
  <2> QED
    BY <1>10, <2>3 DEF RostersFollow
<1>11. asked # <<>> => Head(asked) \in People
  BY Rest DEF Typed, TypeOK
<1>12. CASE Lookup
  <2>1. CASE conn = "up"
    <3>1. [t |-> "303", n |-> Head(asked), on |-> \E c \in Chans : Head(asked) \in members[c]] \in Message
      BY <1>11, <1>12, Lines DEF Lookup
    <3> QED
      BY <1>10, <1>12, <2>1, <3>1 DEF Lookup
  <2>2. CASE conn # "up"
    BY <1>7, <1>12, <2>2 DEF Lookup
  <2> QED
    BY <2>1, <2>2
<1>13. CASE LookupRefused
  BY <1>10, <1>13, Lines DEF LookupRefused
<1>14. CASE Start
  BY <1>14 DEF Start, RostersFollow, server
<1> QED
  BY <1>2, <1>3, <1>4, <1>5, <1>6, <1>8, <1>9, <1>12, <1>13, <1>14
     DEF Archivist, Pump, Checker

LEMMA StepFollows ==
  ASSUME PresenceAssumption, Typed, ~CaseRenames, RostersFollow, [Next]_vars
  PROVE  RostersFollow'
<1>1. CASE UNCHANGED vars
  <2>1. UNCHANGED <<inside, inbox, conn, names, rosters, members>>
    BY <1>1 DEF vars, server, logger
  <2>2. conn = "up" => AllFollow(inbox)'
    BY <2>1, SilenceFollows DEF RostersFollow
  <2> QED
    BY <2>1, <2>2 DEF RostersFollow
<1>2. CASE World
  BY <1>2, WorldFollows
<1>3. CASE Archivist \/ Lose \/ Pump \/ Checker \/ Start \/ Sync
  BY <1>3, ThreadsFollow
<1> QED
  BY <1>1, <1>2, <1>3 DEF Next

-----------------------------------------------------------------------------
(* The theorems.                                                           *)

(* The invariant that the properties follow from: a lookup is answered by  *)
(* one line at most, and for each channel the lines to be read lead from   *)
(* the roster, or from the last list of names, to who is in it.            *)
THEOREM PresenceInvariant == Spec => []IInv
<1>1. Init => IInv
  <2> SUFFICES ASSUME Init
               PROVE  IInv
    OBVIOUS
  <2>1. RostersFollow
    BY DEF Init, RostersFollow
  <2> QED
    BY <2>1, PresenceAssumption, InitTyped, InitLookups DEF IInv
<1>2. IInv /\ [Next]_vars => IInv'
  BY PresenceAssumption, StepTyped, StepLookups, StepFollows DEF IInv
<1> QED
  BY <1>1, <1>2, PTL DEF Spec

(* Every variable keeps its type, a lookup in hand is one that was asked   *)
(* for, and apply_channels is under way only on a registered connection.   *)
THEOREM TypeCorrect == Spec => []TypeOK
<1>1. IInv => TypeOK
  BY DEF IInv, Typed
<1> QED
  BY <1>1, PresenceInvariant, PTL

(* As long as no lookup is given up before its answer is read, what is     *)
(* recorded of a person is an answer about that person (ircbot.py handles  *)
(* 303 and 421 without knowing whom they answer).                          *)
THEOREM AnswersAreTheirOwn == Spec => []AnswerIsAboutAsked
<1>1. IInv => AnswerIsAboutAsked
  BY DEF IInv, LookupsInHand
<1> QED
  BY <1>1, PresenceInvariant, PTL

(* Once every line is read, live_presence is who is in the channels that   *)
(* the archivist is in, and nothing else, unless people change the case of *)
(* their nicks: presence_rename() drops such a nick.                       *)
THEOREM RostersAreCurrent ==
  ASSUME ~CaseRenames
  PROVE  Spec => []RosterIsCurrent
<1>1. IInv => RosterIsCurrent
  <2> SUFFICES ASSUME IInv, Quiet, NEW c \in Chans
               PROVE  /\ c \in synced <=> c \in inside
                      /\ roster[c] = IF c \in inside THEN members[c] \cup {Me} ELSE {}
    BY DEF RosterIsCurrent
  <2>1. Follows(c, inbox) /\ inbox = <<>>
    BY DEF IInv, RostersFollow, AllFollow, Quiet
  <2>2. Len(<<>>) = 0 /\ \A i \in 0..0 : i = 0
    OBVIOUS
  <2>3. CASE c \in inside
    <3>1. Listens(c, <<>>, roster[c], c \in synced, names[c], members[c] \cup {Me})
      BY <2>1, <2>3 DEF Follows
    <3> QED
      BY <2>2, <2>3, <3>1 DEF Listens, StartsAt
  <2>4. CASE c \notin inside
    <3>1. Parted(c, <<>>, roster[c], c \in synced)
      BY <2>1, <2>4 DEF Follows
    <3> QED
      BY <2>2, <2>4, <3>1 DEF Parted
  <2> QED
    BY <2>3, <2>4
<1> QED
  BY <1>1, PresenceInvariant, PTL
=============================================================================
