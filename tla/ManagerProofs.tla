---------------------------- MODULE ManagerProofs ----------------------------
(***************************************************************************)
(* Proofs about Manager: its type, that a network never has two archivists,*)
(* and what becomes of a command, for any networks, channels, handlers,    *)
(* sizes of batch, limits and bounds.                                      *)
(***************************************************************************)
EXTENDS Manager, FiniteSetTheorems, SequenceTheorems, WellFoundedInduction, TLAPS

-----------------------------------------------------------------------------
(* The inductive invariant.                                                *)

ConfigTyped ==
  /\ nets \in [Nets -> [here: BOOLEAN, enabled: BOOLEAN]]
  /\ chan \in [Chans -> [here: BOOLEAN, net: Nets \cup {0}, arch: BOOLEAN]]
  /\ detaching \in Nets \cup {0}

Slot == [st: {"none", "reserved", "bot"}, wish: SUBSET Chans]

SlotsTyped == /\ slot \in [Nets -> Slot]
              /\ starting \in [Nets -> Seq(SUBSET Chans)]
              /\ alive \in [Nets -> Nat]

Place == {"off", "boot", "channels", "start", "wait", "pump", "row", "query",
          "answer", "finished", "except", "sync", "channels2", "start2", "resume"}

(* start_archivist() is called for the first network that is left.         *)
MainTyped ==
  /\ pc \in Place /\ todo \in Seq(Nets) /\ chosen \subseteq Chans /\ stopping \in BOOLEAN
  /\ pc \in {"start", "channels2", "start2"} => todo # <<>>
  /\ avail \subseteq Nets

Command == [st: {"none", "queued", "sent", "done", "failed"},
            net: Nets \cup {0}, runs: Nat, told: BOOLEAN, hits: Nat]

CommandsTyped == cmd \in [Cmds -> Command] /\ asking \in [Handlers -> Nets \cup {0}]

CountersTyped == requests \in Nat /\ faults \in Nat

(* Every sequence read from a table lists a row once.                      *)
NoRepeats(s) == \A i, j \in DOMAIN s : s[i] = s[j] => i = j

(* An archivist, or a thread that is to become one, has its slot; run()    *)
(* starts those of networks that have none.                                *)
SlotsAreKept ==
  /\ OneArchivistEach
  /\ \A n \in Nets : slot[n].st = "none" => starting[n] = <<>> /\ alive[n] = 0
  /\ pc \in {"off", "boot"} => \A n \in Nets : slot[n].st = "none"
  /\ pc \in {"channels", "start"} =>
       /\ NoRepeats(todo)
       /\ \A k \in DOMAIN todo : slot[todo[k]].st = "none"
  /\ pc \in {"channels2", "start2"} => slot[Head(todo)].st = "none"

(* How far the row in hand is, where the main thread is.                   *)
Stage(p) == IF p \in {"query", "answer"} THEN {"sent"}
            ELSE IF p = "finished" THEN {"done"}
            ELSE IF p = "except" THEN {"queued", "sent", "done"}
            ELSE {"queued", "sent"}
InHand == {"query", "answer", "finished", "except"}

(* The rows read are pending, but for the one in hand, and nobody else     *)
(* finishes them; an answer is up to be overwritten only in a shutdown.    *)
RowsArePending ==
  /\ rows \in Seq(Cmds) /\ NoRepeats(rows)
  /\ \A k \in DOMAIN rows : k # 1 => rows[k] \in Pending
  /\ rows # <<>> => pc \in InHand \cup {"row"} /\ cmd[Row].st \in Stage(pc)
  /\ pc \in InHand => rows # <<>>
  /\ pc = "except" /\ cmd[Row].st = "done" => stopping /\ cmd[Row].hits > 0

(* A command that query() has answered, or that is in the except branch,   *)
(* may have been run once more than it was interrupted.                    *)
Open(i, p) == pc = p /\ i = Row

(* How often a command was run, and whether its answer is known to.        *)
History(i) ==
  /\ cmd[i].runs <= 1 + cmd[i].hits
  /\ cmd[i].st = "queued" => cmd[i].runs = 0 /\ ~cmd[i].told
  /\ cmd[i].st = "sent" /\ Open(i, "answer") => cmd[i].told
  /\ cmd[i].st = "sent" /\ Open(i, "except") => (cmd[i].told => cmd[i].hits > 0)
  /\ cmd[i].st = "sent" /\ ~Open(i, "answer") /\ ~Open(i, "except") =>
       cmd[i].runs <= cmd[i].hits /\ (cmd[i].told => cmd[i].hits > 0)
  /\ cmd[i].st = "done" => cmd[i].told
  /\ cmd[i].st = "failed" /\ cmd[i].told => cmd[i].hits > 0

RunsAreCounted == \A i \in Cmds : History(i)

(* A handler between its count and its INSERT has a place under the limit. *)
Asking == {h \in Handlers : asking[h] # 0}
LimitHolds ==
  Cardinality(Pending) + Cardinality(Asking) <= PendingMax - 1 + Cardinality(Handlers)

Typed == ConfigTyped /\ SlotsTyped /\ MainTyped /\ CommandsTyped /\ CountersTyped

IInv == Typed /\ SlotsAreKept /\ RowsArePending /\ RunsAreCounted /\ LimitHolds

-----------------------------------------------------------------------------
(* Tables in order.                                                        *)

LEMMA Least ==
  ASSUME NEW S \in SUBSET Nat, S # {}
  PROVE  \E x \in S : \A y \in S : x <= y
<1>1. PICK x \in S : \A y \in S : ~(<<y, x>> \in OpToRel(<, Nat))
  BY NatLessThanWellFounded, WFMin
<1>2. \A y \in S : ~(y < x)
  BY <1>1 DEF OpToRel
<1> QED
  BY <1>2

(* What InOrder chooses.                                                   *)
Sorts(s, S) == /\ s \in [1..Cardinality(S) -> S]
               /\ \A i, j \in 1..Cardinality(S) : i < j => s[i] < s[j]

(* A sorted sequence of all but the least, behind the least.               *)
LEMMA SortMore ==
  ASSUME NEW S \in SUBSET Nat, IsFiniteSet(S), NEW m \in S, \A y \in S : m <= y,
         NEW s, Sorts(s, S \ {m})
  PROVE  \E t : Sorts(t, S)
<1> DEFINE n == Cardinality(S)
           t == [i \in 1..n |-> IF i = 1 THEN m ELSE s[i - 1]]
<1>1. n \in Nat /\ Cardinality(S \ {m}) = n - 1
  BY FS_RemoveElement, FS_CardinalityType
<1>2. s \in [1..(n - 1) -> S \ {m}] /\ \A i, j \in 1..(n - 1) : i < j => s[i] < s[j]
  BY <1>1 DEF Sorts
<1> HIDE DEF n
<1>3. \A i \in 1..n : i # 1 => i - 1 \in 1..(n - 1)
  BY <1>1
<1>4. t \in [1..n -> S]
  BY <1>2, <1>3
<1>5. ASSUME NEW i \in 1..n, NEW j \in 1..n, i < j
      PROVE  t[i] < t[j]
  <2>1. j # 1 /\ t[j] = s[j - 1] /\ s[j - 1] \in S \ {m}
    BY <1>1, <1>2, <1>3, <1>5
  <2>2. CASE i = 1
    <3>1. t[i] = m
      BY <2>2
    <3>2. m <= s[j - 1] /\ m # s[j - 1] /\ m \in Nat /\ s[j - 1] \in Nat
      BY <2>1
    <3> QED
      BY <2>1, <3>1, <3>2
  <2>3. CASE i # 1
    BY <1>1, <1>2, <1>3, <1>5, <2>1, <2>3
  <2> QED
    BY <2>2, <2>3
<1> QED
  BY <1>4, <1>5 DEF Sorts, n

(* Every finite set of numbers can be put in order.                        *)
LEMMA Sortable ==
  ASSUME NEW S \in SUBSET Nat, IsFiniteSet(S)
  PROVE  \E s : Sorts(s, S)
<1> DEFINE Stuck == {n \in Nat : \E R \in SUBSET Nat :
                       IsFiniteSet(R) /\ Cardinality(R) = n /\ ~\E s : Sorts(s, R)}
<1>1. SUFFICES ASSUME Stuck # {}
               PROVE  FALSE
  BY FS_CardinalityType
<1>2. PICK n \in Stuck : \A k \in Stuck : n <= k
  BY <1>1, Least
<1>3. PICK R \in SUBSET Nat : IsFiniteSet(R) /\ Cardinality(R) = n /\ ~\E s : Sorts(s, R)
  BY <1>2
<1>4. R # {}
  <2>1. Cardinality({}) = 0
    BY FS_EmptySet
  <2>2. Sorts(<<>>, {})
    BY <2>1 DEF Sorts
  <2> QED
    BY <1>3, <2>2
<1>5. PICK m \in R : \A y \in R : m <= y
  BY <1>4, Least
<1>6. IsFiniteSet(R \ {m}) /\ Cardinality(R \ {m}) = n - 1
  BY <1>3, FS_RemoveElement
<1>7. \E s : Sorts(s, R \ {m})
  <2>1. Cardinality(R \ {m}) \in Nat /\ ~(n <= n - 1)
    BY <1>2, <1>6, FS_CardinalityType
  <2>2. n - 1 \notin Stuck
    BY <1>2, <2>1
  <2> QED
    BY <1>6, <2>1, <2>2
<1> QED
  BY <1>3, <1>5, <1>7, SortMore

LEMMA InOrderLists ==
  ASSUME NEW S \in SUBSET Nat, IsFiniteSet(S)
  PROVE  /\ InOrder(S) \in Seq(S) /\ NoRepeats(InOrder(S))
         /\ Len(InOrder(S)) = Cardinality(S)
<1>1. Sorts(InOrder(S), S)
  BY Sortable DEF Sorts, InOrder
<1> DEFINE s == InOrder(S)
           n == Cardinality(S)
<1> HIDE DEF s, n
<1>2. n \in Nat /\ s \in [1..n -> S] /\ \A i, j \in 1..n : i < j => s[i] < s[j]
  BY <1>1, FS_CardinalityType DEF s, n, Sorts
<1>3. s \in Seq(S) /\ Len(s) = n
  BY <1>2
<1>4. ASSUME NEW i \in 1..n, NEW j \in 1..n, s[i] = s[j]
      PROVE  i = j
  <2>1. s[i] \in Nat /\ s[j] \in Nat
    BY <1>2
  <2>2. ~(i < j) /\ ~(j < i)
    BY <1>2, <1>4, <2>1
  <2> QED
    BY <1>2, <2>2
<1> QED
  BY <1>2, <1>3, <1>4 DEF s, n, NoRepeats

(* What is left of a list, and the beginning of one.                       *)
LEMMA TailLists ==
  ASSUME NEW T, NEW s \in Seq(T), s # <<>>
  PROVE  /\ Head(s) \in T /\ Tail(s) \in Seq(T) /\ Head(s) = s[1] /\ 1 \in DOMAIN s
         /\ DOMAIN Tail(s) = 1..(Len(s) - 1)
         /\ \A k \in DOMAIN Tail(s) : k + 1 \in DOMAIN s /\ Tail(s)[k] = s[k + 1]
         /\ NoRepeats(s) => /\ NoRepeats(Tail(s))
                            /\ \A k \in DOMAIN Tail(s) : Tail(s)[k] # Head(s)
<1>1. /\ Head(s) \in T /\ Tail(s) \in Seq(T) /\ Head(s) = s[1] /\ 1 \in DOMAIN s
      /\ DOMAIN Tail(s) = 1..(Len(s) - 1)
      /\ \A k \in DOMAIN Tail(s) : k + 1 \in DOMAIN s /\ Tail(s)[k] = s[k + 1]
  OBVIOUS
<1> QED
  BY <1>1 DEF NoRepeats

LEMMA FirstOfLists ==
  ASSUME NEW S \in SUBSET Nat, IsFiniteSet(S), NEW k \in Nat
  PROVE  FirstOf(S, k) \in Seq(S) /\ NoRepeats(FirstOf(S, k))
<1> DEFINE s == InOrder(S)
           n == IF Len(s) < k THEN Len(s) ELSE k
<1>1. s \in Seq(S) /\ NoRepeats(s)
  BY InOrderLists
<1>2. FirstOf(S, k) = SubSeq(s, 1, n)
  BY DEF FirstOf
<1> HIDE DEF s
<1>3. n \in Nat /\ n <= Len(s)
  BY <1>1
<1> HIDE DEF n
<1>4. /\ SubSeq(s, 1, n) \in Seq(S)
      /\ DOMAIN SubSeq(s, 1, n) = 1..n
      /\ \A i \in 1..n : SubSeq(s, 1, n)[i] = s[i] /\ i \in DOMAIN s
  BY <1>1, <1>3
<1> QED
  BY <1>1, <1>2, <1>4 DEF NoRepeats

-----------------------------------------------------------------------------
(* Types.                                                                  *)

LEMMA NetsInOrder ==
  ASSUME NEW S \in SUBSET Nets
  PROVE  InOrder(S) \in Seq(Nets) /\ NoRepeats(InOrder(S)) /\ (S # {} => InOrder(S) # <<>>)
<1>1. S \in SUBSET Nat /\ IsFiniteSet(S)
  BY ManagerAssumption, FS_Subset
<1>2. InOrder(S) \in Seq(S) /\ NoRepeats(InOrder(S)) /\ Len(InOrder(S)) = Cardinality(S)
  BY <1>1, InOrderLists
<1>3. InOrder(S) \in Seq(Nets)
  BY <1>2
<1>4. S # {} => Cardinality(S) # 0
  BY <1>1, FS_EmptySet
<1> QED
  BY <1>2, <1>3, <1>4

(* Every db.connect() leaves tables with the ids of networks there may be. *)
LEMMA ConnectTyped ==
  ASSUME ConfigTyped, Connect, UNCHANGED detaching
  PROVE  ConfigTyped'
<1> DEFINE orphans == {c \in Chans : chan[c].here /\ chan[c].net = 0}
           used == {n \in Nets : nets[n].here}
           first == CHOOSE n \in Nets : IF used = {} THEN n = 1
                                        ELSE n \in used /\ \A m \in used : n <= m
<1>1. CASE orphans = {}
  BY <1>1 DEF Connect, ConfigTyped
<1>2. CASE orphans # {}
  <2>1. \E n \in Nets : IF used = {} THEN n = 1 ELSE n \in used /\ \A m \in used : n <= m
    <3>1. used \in SUBSET Nat /\ used \subseteq Nets
      BY ManagerAssumption
    <3>2. CASE used = {}
      BY <3>2, ManagerAssumption
    <3>3. CASE used # {}
      <4> HIDE DEF used
      <4>1. PICK n \in used : \A m \in used : n <= m
        BY <3>1, <3>3, Least
      <4> QED
        BY <3>1, <3>3, <4>1
    <3> QED
      BY <3>2, <3>3
  <2>2. first \in Nets
    <3> HIDE DEF used
    <3> QED
      BY <2>1
  <2>3. /\ nets' = [nets EXCEPT ![first] =
                      IF used = {} THEN [here |-> TRUE, enabled |-> TRUE] ELSE @]
        /\ chan' = [c \in Chans |-> IF c \in orphans THEN [chan[c] EXCEPT !.net = first]
                                    ELSE chan[c]]
    BY <1>2 DEF Connect
  <2> HIDE DEF first, used, orphans
  <2>4. nets' \in [Nets -> [here: BOOLEAN, enabled: BOOLEAN]]
    BY <2>2, <2>3 DEF ConfigTyped
  <2>5. chan' \in [Chans -> [here: BOOLEAN, net: Nets \cup {0}, arch: BOOLEAN]]
    BY <2>2, <2>3 DEF ConfigTyped
  <2> QED
    BY <2>4, <2>5 DEF ConfigTyped
<1> QED
  BY <1>1, <1>2

LEMMA InitTyped == Init => Typed
<1> SUFFICES ASSUME Init
             PROVE  Typed
  OBVIOUS
<1>1. ConfigTyped
  <2>1. /\ nets \in [Nets -> {NoNet, [here |-> TRUE, enabled |-> TRUE]}]
        /\ chan \in [Chans -> {NoChan} \cup
                       {[here |-> TRUE, net |-> n, arch |-> TRUE] : n \in Nets}]
        /\ detaching = 0
    BY DEF Init
  <2>2. /\ NoNet \in [here: BOOLEAN, enabled: BOOLEAN]
        /\ [here |-> TRUE, enabled |-> TRUE] \in [here: BOOLEAN, enabled: BOOLEAN]
    BY DEF NoNet
  <2>3. /\ NoChan \in [here: BOOLEAN, net: Nets \cup {0}, arch: BOOLEAN]
        /\ \A n \in Nets : [here |-> TRUE, net |-> n, arch |-> TRUE]
                             \in [here: BOOLEAN, net: Nets \cup {0}, arch: BOOLEAN]
    BY DEF NoChan
  <2>4. nets \in [Nets -> [here: BOOLEAN, enabled: BOOLEAN]]
    BY <2>1, <2>2
  <2>5. chan \in [Chans -> [here: BOOLEAN, net: Nets \cup {0}, arch: BOOLEAN]]
    <3> DEFINE Channel == [here: BOOLEAN, net: Nets \cup {0}, arch: BOOLEAN]
               added(n) == [here |-> TRUE, net |-> n, arch |-> TRUE]
    <3>1. NoChan \in Channel /\ \A n \in Nets : added(n) \in Channel
      BY <2>3
    <3>2. chan \in [Chans -> {NoChan} \cup {added(n) : n \in Nets}]
      BY <2>1
    <3> HIDE DEF Channel, added
    <3>3. chan \in [Chans -> Channel]
      BY <3>1, <3>2
    <3> QED
      BY <3>3 DEF Channel
  <2> QED
    BY <2>1, <2>4, <2>5 DEF ConfigTyped
<1>2. SlotsTyped
  <2>1. /\ slot = [n \in Nets |-> Empty] /\ starting = [n \in Nets |-> <<>>]
        /\ alive = [n \in Nets |-> 0]
    BY DEF Init
  <2> QED
    BY <2>1 DEF SlotsTyped, Slot, Empty
<1>3. MainTyped
  <2>1. pc = "off" /\ todo = <<>> /\ chosen = {} /\ avail = {} /\ stopping = FALSE
    BY DEF Init
  <2>2. pc \in Place /\ pc \notin {"start", "channels2", "start2"}
    BY <2>1 DEF Place
  <2>3. todo \in Seq(Nets) /\ chosen \subseteq Chans /\ avail \subseteq Nets
    BY <2>1
  <2>4. stopping \in BOOLEAN
    BY <2>1
  <2> QED
    BY <2>2, <2>3, <2>4 DEF MainTyped
<1>4. CommandsTyped
  <2>1. NoCmd \in Command /\ \A n \in Nets : [NoCmd EXCEPT !.st = "queued", !.net = n] \in Command
    BY DEF NoCmd, Command
  <2>2. asking = [h \in Handlers |-> 0]
    BY DEF Init
  <2>3. \/ cmd = [i \in Cmds |-> NoCmd]
        \/ \E n \in Nets :
             cmd = [i \in Cmds |-> IF i = 1 THEN [NoCmd EXCEPT !.st = "queued", !.net = n]
                                   ELSE NoCmd]
    BY DEF Init
  <2> HIDE DEF Command, Init
  <2> QED
    BY <2>1, <2>2, <2>3 DEF CommandsTyped
<1> QED
  BY <1>1, <1>2, <1>3, <1>4 DEF Init, Typed, CountersTyped

LEMMA OwnerTyped ==
  ASSUME Typed, Owner
  PROVE  Typed'
<1> USE DEF Typed, ConfigTyped
<1>1. /\ UNCHANGED <<archivists, main, cmd, asking, faults>>
      /\ requests' \in {requests, requests + 1}
  <2>1. CASE Edit
    BY <2>1 DEF Edit
  <2>2. CASE Detach
    BY <2>2 DEF Detach
  <2>3. Edit \/ Detach
    BY DEF Owner, AddNetwork, ToggleNetwork, DeleteNetwork, AddChannel, DeleteChannel,
           ArchiveChannel, ImportChannel
  <2> QED
    BY <2>1, <2>2, <2>3
<1>2. ConfigTyped'
  <2>1. ASSUME NEW n \in Nets, AddNetwork(n)
        PROVE  ConfigTyped'
    BY <2>1 DEF AddNetwork
  <2>2. ASSUME NEW n \in Nets, ToggleNetwork(n)
        PROVE  ConfigTyped'
    BY <2>2 DEF ToggleNetwork
  <2>3. ASSUME NEW n \in Nets, NEW force \in BOOLEAN, DeleteNetwork(n, force)
        PROVE  ConfigTyped'
    BY <2>3 DEF DeleteNetwork, NoNet
  <2>4. ASSUME NEW n \in Nets, NEW c \in Chans, AddChannel(n, c)
        PROVE  ConfigTyped'
    BY <2>4 DEF AddChannel
  <2>5. ASSUME NEW n \in Nets, NEW c \in Chans, DeleteChannel(n, c)
        PROVE  ConfigTyped'
    BY <2>5 DEF DeleteChannel, NoChan
  <2>6. ASSUME NEW n \in Nets, NEW c \in Chans, NEW on \in BOOLEAN, ArchiveChannel(n, c, on)
        PROVE  ConfigTyped'
    BY <2>6 DEF ArchiveChannel
  <2>7. ASSUME NEW c \in Chans, ImportChannel(c)
        PROVE  ConfigTyped'
    BY <2>7 DEF ImportChannel
  <2>8. ASSUME Detach
        PROVE  ConfigTyped'
    BY <2>8 DEF Detach
  <2> QED
    BY <2>1, <2>2, <2>3, <2>4, <2>5, <2>6, <2>7, <2>8 DEF Owner
<1> QED
  BY <1>1, <1>2 DEF archivists, main, SlotsTyped, MainTyped, CommandsTyped, CountersTyped

(* The steps of the main thread that start archivists.                     *)
LEMMA StartReadsTyped ==
  ASSUME Typed, NEW here, NEW there, NEW after, StartReads(here, there, after),
         <<here, there, after>> \in {<<"channels", "start", "channels">>,
                                     <<"channels2", "start2", "resume">>}
  PROVE  Typed'
<1>1. ConfigTyped'
  BY ConnectTyped DEF StartReads, Typed
<1>2. Head(todo) \in Nets /\ Tail(todo) \in Seq(Nets)
  BY TailLists DEF StartReads, Typed, MainTyped
<1>3. MainTyped'
  <2>1. chosen' \subseteq Chans /\ avail' = avail /\ todo # <<>> /\ stopping' = stopping
    BY DEF StartReads
  <2>2. \/ pc' = after /\ todo' = Tail(todo)
        \/ pc' = there /\ todo' = todo
    BY DEF StartReads
  <2> QED
    BY <1>2, <2>1, <2>2 DEF Typed, MainTyped, Place
<1> QED
  BY <1>1, <1>3 DEF StartReads, Typed, archivists, SlotsTyped, CommandsTyped, CountersTyped

LEMMA StartsThreadTyped ==
  ASSUME Typed, NEW here, NEW after, StartsThread(here, after),
         <<here, after>> \in {<<"start", "channels">>, <<"start2", "resume">>}
  PROVE  Typed'
<1>1. todo # <<>> /\ Head(todo) \in Nets /\ Tail(todo) \in Seq(Nets)
  BY TailLists DEF StartsThread, Typed, MainTyped
<1>2. SlotsTyped'
  <2> DEFINE n == Head(todo)
             T == SUBSET Chans
  <2>1. chosen \in T /\ n \in Nets /\ starting \in [Nets -> Seq(T)] /\ slot \in [Nets -> Slot]
    BY <1>1 DEF Typed, MainTyped, SlotsTyped
  <2>2. /\ slot' = [slot EXCEPT ![n] = IF @.st = "none" THEN Reserved ELSE @]
        /\ starting' = [starting EXCEPT ![n] = Append(@, chosen)]
        /\ alive' = alive
    BY DEF StartsThread
  <2>3. Reserved \in Slot
    BY DEF Reserved, Slot
  <2> HIDE DEF n, T
  <2>4. Append(starting[n], chosen) \in Seq(T)
    BY <2>1
  <2>5. starting' \in [Nets -> Seq(T)] /\ slot' \in [Nets -> Slot]
    BY <2>1, <2>2, <2>3, <2>4
  <2> QED
    BY <2>2, <2>5 DEF Typed, SlotsTyped, T
<1>3. MainTyped'
  BY <1>1 DEF StartsThread, Typed, MainTyped, Place
<1> QED
  BY <1>2, <1>3 DEF StartsThread, Typed, config, ConfigTyped, CommandsTyped, CountersTyped

LEMMA StartingTyped ==
  ASSUME Typed, Starting
  PROVE  Typed'
<1>1. CASE Boot
  <2>1. ConfigTyped'
    BY <1>1, ConnectTyped DEF Boot, Typed
  <2> QED
    BY <1>1, <2>1 DEF Boot, Typed, archivists, SlotsTyped, MainTyped, Place, CommandsTyped,
                      CountersTyped
<1>2. CASE BootNetworks
  <2>1. InOrder(Enabled) \in Seq(Nets)
    BY NetsInOrder DEF Enabled
  <2> QED
    BY <1>2, <2>1 DEF BootNetworks, Typed, config, archivists, ConfigTyped, SlotsTyped, MainTyped,
                      Place, CommandsTyped, CountersTyped
<1>3. CASE BootDone
  BY <1>3 DEF BootDone, Typed, config, archivists, ConfigTyped, SlotsTyped, MainTyped,
              Place, CommandsTyped, CountersTyped
<1>4. CASE StartReads("channels", "start", "channels")
  BY <1>4, StartReadsTyped
<1>5. CASE StartsThread("start", "channels")
  BY <1>5, StartsThreadTyped
<1> QED
  BY <1>1, <1>2, <1>3, <1>4, <1>5 DEF Starting

LEMMA SyncingTyped ==
  ASSUME Typed, Syncing
  PROVE  Typed'
<1> USE DEF Typed, MainTyped
<1>1. CASE SyncReads
  <2>1. InOrder(Enabled) \in Seq(Nets)
    BY NetsInOrder DEF Enabled
  <2> QED
    BY <1>1, <2>1 DEF SyncReads, config, archivists, ConfigTyped, SlotsTyped, Place,
                      CommandsTyped, CountersTyped
<1>2. CASE SyncStarts
  BY <1>2 DEF SyncStarts, config, archivists, ConfigTyped, SlotsTyped, Place,
              CommandsTyped, CountersTyped
<1>3. CASE SyncSkips
  <2>1. Tail(todo) \in Seq(Nets)
    BY <1>3, TailLists DEF SyncSkips
  <2> QED
    BY <1>3, <2>1 DEF SyncSkips, SyncNext, config, archivists, ConfigTyped, SlotsTyped, Place,
                      CommandsTyped, CountersTyped
<1>4. CASE SyncWants
  <2>1. Tail(todo) \in Seq(Nets) /\ Head(todo) \in Nets
    BY <1>4, TailLists DEF SyncWants
  <2>2. Archived(Head(todo)) \subseteq Chans
    BY DEF Archived
  <2>3. SlotsTyped'
    BY <1>4, <2>1, <2>2 DEF SyncWants, SlotsTyped, Slot
  <2>4. MainTyped'
    BY <1>4, <2>1 DEF SyncWants, SyncNext, Place
  <2> QED
    BY <1>4, <2>3, <2>4 DEF SyncWants, config, ConfigTyped, CommandsTyped, CountersTyped
<1>5. CASE SyncResumes
  BY <1>5 DEF SyncResumes, config, archivists, ConfigTyped, SlotsTyped, Place,
              CommandsTyped, CountersTyped
<1>6. CASE StartReads("channels2", "start2", "resume")
  BY <1>6, StartReadsTyped
<1>7. CASE StartsThread("start2", "resume")
  BY <1>7, StartsThreadTyped
<1> QED
  BY <1>1, <1>2, <1>3, <1>4, <1>5, <1>6, <1>7 DEF Syncing

LEMMA ThreadTyped ==
  ASSUME Typed, NEW n \in Nets, ThreadRuns(n) \/ ThreadDies(n)
  PROVE  Typed'
<1> DEFINE T == SUBSET Chans
<1>1. starting \in [Nets -> Seq(T)] /\ slot \in [Nets -> Slot] /\ alive \in [Nets -> Nat]
  BY DEF Typed, SlotsTyped
<1> HIDE DEF T
<1>2. starting[n] # <<>> /\ starting' = [starting EXCEPT ![n] = Tail(@)]
  BY DEF ThreadRuns, ThreadDies
<1>3. Head(starting[n]) \in T /\ starting' \in [Nets -> Seq(T)]
  BY <1>1, <1>2
<1>4. SlotsTyped'
  <2>1. CASE ThreadRuns(n)
    <3>1. [st |-> "bot", wish |-> Head(starting[n])] \in Slot
      BY <1>3 DEF Slot, T
    <3>2. slot' \in [Nets -> Slot] /\ alive' \in [Nets -> Nat]
      BY <1>1, <2>1, <3>1 DEF ThreadRuns
    <3> QED
      BY <1>3, <3>2 DEF SlotsTyped, T
  <2>2. CASE ThreadDies(n)
    BY <1>1, <1>3, <2>2 DEF ThreadDies, SlotsTyped, T
  <2> QED
    BY <2>1, <2>2
<1>5. CASE ThreadRuns(n)
  <2>1. ConfigTyped'
    BY <1>5, ConnectTyped DEF ThreadRuns, Typed
  <2> QED
    BY <1>4, <1>5, <2>1 DEF ThreadRuns, Typed, main, MainTyped, CommandsTyped, CountersTyped
<1>6. CASE ThreadDies(n)
  BY <1>4, <1>6 DEF ThreadDies, Typed, config, main, ConfigTyped, MainTyped, CommandsTyped,
                    CountersTyped
<1> QED
  BY <1>5, <1>6

LEMMA MemberTyped ==
  ASSUME Typed, Member
  PROVE  Typed'
<1>1. CommandsTyped'
  <2>1. ASSUME NEW h \in Handlers, NEW n \in Nets, Ask(h, n)
        PROVE  CommandsTyped'
    BY <2>1 DEF Ask, Typed, CommandsTyped
  <2>2. ASSUME NEW h \in Handlers, Queue(h)
        PROVE  CommandsTyped'
    <3>1. asking[h] \in Nets \cup {0} /\ asking' \in [Handlers -> Nets \cup {0}]
      BY <2>2 DEF Queue, Typed, CommandsTyped
    <3>2. [NoCmd EXCEPT !.st = "queued", !.net = asking[h]] \in Command
      BY <3>1 DEF NoCmd, Command
    <3>3. cmd' \in [Cmds -> Command]
      BY <2>2, <3>2 DEF Queue, Typed, CommandsTyped
    <3> QED
      BY <3>1, <3>3 DEF CommandsTyped
  <2> QED
    BY <2>1, <2>2 DEF Member
<1>2. UNCHANGED <<config, archivists, main, faults>> /\ requests' \in {requests, requests + 1}
  BY DEF Member, Ask, Queue
<1> QED
  BY <1>1, <1>2 DEF Typed, config, archivists, main, ConfigTyped, SlotsTyped, MainTyped,
                    CountersTyped

LEMMA RowTyped ==
  ASSUME CommandsTyped, RowsArePending, rows # <<>>
  PROVE  /\ Row \in Cmds /\ cmd[Row] \in Command /\ cmd[Row].st \in Stage(pc)
         /\ Row = rows[1] /\ 1 \in DOMAIN rows
<1>1. Row \in Cmds /\ Row = rows[1] /\ 1 \in DOMAIN rows
  BY TailLists DEF RowsArePending, Row
<1> QED
  BY <1>1 DEF RowsArePending, CommandsTyped

(* What a step makes of one command, which leaves the others as they are.  *)
Became(i, how, runs, told, hits) ==
  /\ cmd' \in [Cmds -> Command]
  /\ \A j \in Cmds : j # i => cmd'[j] = cmd[j]
  /\ cmd'[i].st = how /\ cmd'[i].runs = runs
  /\ cmd'[i].told = told /\ cmd'[i].hits = hits

LEMMA Becomes ==
  ASSUME CommandsTyped, NEW i \in Cmds, NEW q \in Command, cmd' = [cmd EXCEPT ![i] = q]
  PROVE  Became(i, q.st, q.runs, q.told, q.hits)
<1>1. cmd \in [Cmds -> Command]
  BY DEF CommandsTyped
<1> QED
  BY <1>1 DEF Became

LEMMA FinishBecomes ==
  ASSUME CommandsTyped, NEW i \in Cmds, NEW how \in {"sent", "done", "failed"},
         cmd' = Finish(i, how)
  PROVE  Became(i, how, cmd[i].runs, cmd[i].told, cmd[i].hits)
<1> DEFINE q == [cmd[i] EXCEPT !.st = how]
<1>1. cmd \in [Cmds -> Command] /\ cmd[i] \in Command
  BY DEF CommandsTyped
<1>2. q \in Command /\ q.st = how /\ q.runs = cmd[i].runs /\ q.told = cmd[i].told
      /\ q.hits = cmd[i].hits
  BY <1>1 DEF Command
<1>3. cmd' = [cmd EXCEPT ![i] = q]
  BY <1>1 DEF Finish
<1> HIDE DEF q
<1>4. Became(i, q.st, q.runs, q.told, q.hits)
  BY <1>2, <1>3, Becomes
<1> QED
  BY <1>2, <1>4

(* A line that may be out, and perhaps an interruption.                    *)
LEMMA RunBecomes ==
  ASSUME CommandsTyped, NEW i \in Cmds, NEW wrote \in {0, 1},
         cmd' = [cmd EXCEPT ![i].runs = @ + wrote]
  PROVE  Became(i, cmd[i].st, cmd[i].runs + wrote, cmd[i].told, cmd[i].hits)
<1> DEFINE r == cmd[i].runs + wrote
           q == [cmd[i] EXCEPT !.runs = r]
<1>1. cmd \in [Cmds -> Command] /\ cmd[i] \in Command /\ r \in Nat
  BY DEF CommandsTyped, Command
<1>2. cmd' = [cmd EXCEPT ![i] = q]
  BY <1>1
<1> HIDE DEF r
<1>3. q \in Command /\ q.st = cmd[i].st /\ q.runs = r /\ q.told = cmd[i].told
      /\ q.hits = cmd[i].hits
  BY <1>1 DEF Command
<1> HIDE DEF q
<1>4. Became(i, q.st, q.runs, q.told, q.hits)
  BY <1>2, <1>3, Becomes
<1> QED
  BY <1>3, <1>4 DEF r

LEMMA AnswerBecomes ==
  ASSUME CommandsTyped, NEW i \in Cmds,
         cmd' = [cmd EXCEPT ![i].runs = @ + 1, ![i].told = TRUE]
  PROVE  Became(i, cmd[i].st, cmd[i].runs + 1, TRUE, cmd[i].hits)
<1> DEFINE r == cmd[i].runs + 1
           q == [cmd[i] EXCEPT !.runs = r, !.told = TRUE]
<1>1. cmd \in [Cmds -> Command] /\ cmd[i] \in Command /\ r \in Nat
  BY DEF CommandsTyped, Command
<1>2. cmd' = [cmd EXCEPT ![i] = q]
  BY <1>1
<1> HIDE DEF r
<1>3. q \in Command /\ q.st = cmd[i].st /\ q.runs = r /\ q.told = TRUE
      /\ q.hits = cmd[i].hits
  BY <1>1 DEF Command
<1> HIDE DEF q
<1>4. Became(i, q.st, q.runs, q.told, q.hits)
  BY <1>2, <1>3, Becomes
<1> QED
  BY <1>3, <1>4 DEF r

LEMMA HitBecomes ==
  ASSUME CommandsTyped, NEW i \in Cmds, NEW wrote \in {0, 1},
         \/ cmd' = [cmd EXCEPT ![i].hits = @ + 1, ![i].runs = @ + wrote]
         \/ wrote = 0 /\ cmd' = [cmd EXCEPT ![i].hits = @ + 1]
  PROVE  Became(i, cmd[i].st, cmd[i].runs + wrote, cmd[i].told, cmd[i].hits + 1)
<1> DEFINE r == cmd[i].runs + wrote
           h == cmd[i].hits + 1
           q == [cmd[i] EXCEPT !.hits = h, !.runs = r]
           q0 == [cmd[i] EXCEPT !.hits = h]
<1>1. cmd \in [Cmds -> Command] /\ cmd[i] \in Command /\ r \in Nat /\ h \in Nat
      /\ (wrote = 0 => r = cmd[i].runs)
  BY DEF CommandsTyped, Command
<1>2. \/ cmd' = [cmd EXCEPT ![i] = q]
      \/ wrote = 0 /\ cmd' = [cmd EXCEPT ![i] = q0]
  BY <1>1
<1> HIDE DEF r, h
<1>3. /\ q \in Command /\ q.st = cmd[i].st /\ q.runs = r /\ q.told = cmd[i].told /\ q.hits = h
      /\ q0 \in Command /\ q0.st = cmd[i].st /\ q0.runs = cmd[i].runs
      /\ q0.told = cmd[i].told /\ q0.hits = h
  BY <1>1 DEF Command
<1> HIDE DEF q, q0
<1>4. CASE cmd' = [cmd EXCEPT ![i] = q]
  <2>1. Became(i, q.st, q.runs, q.told, q.hits)
    BY <1>3, <1>4, Becomes
  <2> QED
    BY <1>3, <2>1 DEF r, h
<1>5. CASE wrote = 0 /\ cmd' = [cmd EXCEPT ![i] = q0]
  <2>1. Became(i, q0.st, q0.runs, q0.told, q0.hits)
    BY <1>3, <1>5, Becomes
  <2> QED
    BY <1>1, <1>3, <1>5, <2>1 DEF r, h
<1> QED
  BY <1>2, <1>4, <1>5

(* The steps on the row in hand, and what each makes of it.                *)
PumpRow == \/ Unavailable \/ MarkSent \/ Query \/ QueryRaises \/ Answered \/ NextRow
           \/ MarkFailed
RowStep == PumpRow \/ TryRaises

LEMMA RowSteps ==
  ASSUME CommandsTyped, RowsArePending, RowStep
  PROVE  /\ rows # <<>> /\ Row \in Cmds
         /\ cmd' \in [Cmds -> Command] /\ \A i \in Cmds : i # Row => cmd'[i] = cmd[i]
         /\ Unavailable \/ MarkFailed =>
              Became(Row, "failed", cmd[Row].runs, cmd[Row].told, cmd[Row].hits)
         /\ MarkSent => Became(Row, "sent", cmd[Row].runs, cmd[Row].told, cmd[Row].hits)
         /\ Query => Became(Row, cmd[Row].st, cmd[Row].runs + 1, TRUE, cmd[Row].hits)
         /\ QueryRaises => \E wrote \in {0, 1} :
              Became(Row, cmd[Row].st, cmd[Row].runs + wrote, cmd[Row].told, cmd[Row].hits)
         /\ Answered => Became(Row, "done", cmd[Row].runs, cmd[Row].told, cmd[Row].hits)
         /\ NextRow => cmd' = cmd
         /\ TryRaises => \E wrote \in {0, 1} :
              /\ wrote = 1 => pc = "query"
              /\ Became(Row, cmd[Row].st, cmd[Row].runs + wrote, cmd[Row].told, cmd[Row].hits + 1)
<1>1. rows # <<>> /\ Row \in Cmds
  <2>1. rows # <<>>
    BY DEF RowStep, PumpRow, Unavailable, MarkSent, Query, QueryRaises, Answered, NextRow,
           MarkFailed, TryRaises, InTry, OnRow
  <2> QED
    BY <2>1, RowTyped
<1>2. Unavailable \/ MarkFailed =>
        Became(Row, "failed", cmd[Row].runs, cmd[Row].told, cmd[Row].hits)
  BY <1>1, FinishBecomes DEF Unavailable, MarkFailed
<1>3. MarkSent => Became(Row, "sent", cmd[Row].runs, cmd[Row].told, cmd[Row].hits)
  BY <1>1, FinishBecomes DEF MarkSent
<1>4. Query => Became(Row, cmd[Row].st, cmd[Row].runs + 1, TRUE, cmd[Row].hits)
  BY <1>1, AnswerBecomes DEF Query
<1>5. QueryRaises => \E wrote \in {0, 1} :
        Became(Row, cmd[Row].st, cmd[Row].runs + wrote, cmd[Row].told, cmd[Row].hits)
  BY <1>1, RunBecomes DEF QueryRaises
<1>6. Answered => Became(Row, "done", cmd[Row].runs, cmd[Row].told, cmd[Row].hits)
  BY <1>1, FinishBecomes DEF Answered
<1>7. NextRow => cmd' = cmd
  BY DEF NextRow
<1>8. TryRaises => \E wrote \in {0, 1} :
        /\ wrote = 1 => pc = "query"
        /\ Became(Row, cmd[Row].st, cmd[Row].runs + wrote, cmd[Row].told, cmd[Row].hits + 1)
  <2>1. ASSUME TryRaises
        PROVE  \E wrote \in {0, 1} :
                 /\ wrote = 1 => pc = "query"
                 /\ cmd' = [cmd EXCEPT ![Row].hits = @ + 1, ![Row].runs = @ + wrote]
    <3>1. PICK wrote \in IF pc = "query" THEN {0, 1} ELSE {0} :
            cmd' = [cmd EXCEPT ![Row].hits = @ + 1, ![Row].runs = @ + wrote]
      BY <2>1 DEF TryRaises
    <3>2. wrote \in {0, 1} /\ (wrote = 1 => pc = "query")
      OBVIOUS
    <3> QED
      BY <3>1, <3>2
  <2> QED
    BY <1>1, <2>1, HitBecomes
<1>9. cmd' \in [Cmds -> Command] /\ \A i \in Cmds : i # Row => cmd'[i] = cmd[i]
  BY <1>2, <1>3, <1>4, <1>5, <1>6, <1>7, <1>8 DEF RowStep, PumpRow, Became, CommandsTyped
<1> QED
  BY <1>1, <1>2, <1>3, <1>4, <1>5, <1>6, <1>7, <1>8, <1>9

(* What the end of a pass, or of the process, leaves of the row in hand.   *)
LEMMA EndSteps ==
  ASSUME CommandsTyped, RowsArePending, PassRaises \/ Crash
  PROVE  \/ cmd' = cmd /\ (pc \in InHand => PassRaises /\ pc # "except")
         \/ /\ pc \in InHand /\ rows # <<>> /\ Row \in Cmds
            /\ \E wrote \in {0, 1} :
                 /\ wrote = 1 => pc = "query"
                 /\ Became(Row, cmd[Row].st, cmd[Row].runs + wrote, cmd[Row].told,
                           cmd[Row].hits + 1)
<1>1. pc \in InHand => rows # <<>> /\ Row \in Cmds
  BY RowTyped DEF RowsArePending
<1>2. CASE PassRaises
  <2>1. CASE pc = "except"
    <3>1. cmd' = [cmd EXCEPT ![Row].hits = @ + 1] /\ pc \in InHand
      BY <1>2, <2>1 DEF PassRaises, InHand
    <3>2. Became(Row, cmd[Row].st, cmd[Row].runs + 0, cmd[Row].told, cmd[Row].hits + 1)
      BY <1>1, <3>1, HitBecomes
    <3> QED
      BY <1>1, <3>1, <3>2
  <2>2. CASE pc # "except"
    BY <1>2, <2>2 DEF PassRaises
  <2> QED
    BY <2>1, <2>2
<1>3. CASE Crash
  <2>1. CASE pc \in InHand
    <3>1. \E wrote \in {0, 1} :
            /\ wrote = 1 => pc = "query"
            /\ cmd' = [cmd EXCEPT ![Row].hits = @ + 1, ![Row].runs = @ + wrote]
      BY <1>3, <2>1 DEF Crash, InHand
    <3> QED
      BY <1>1, <2>1, <3>1, HitBecomes
  <2>2. CASE pc \notin InHand
    BY <1>3, <2>2 DEF Crash, InHand
  <2> QED
    BY <2>1, <2>2
<1> QED
  BY <1>2, <1>3

LEMMA PumpingTyped ==
  ASSUME Typed, RowsArePending, Pumping
  PROVE  Typed'
<1> CommandsTyped
  BY DEF Typed
<1>1. UNCHANGED <<config, archivists, todo, chosen, stopping, asking, requests, faults>>
  BY DEF Pumping, PassBegins, ReadCommands, RowsDone, Unavailable, MarkSent, Query, QueryRaises,
         Answered, NextRow, MarkFailed, OnRow
<1>2. /\ pc' \in {"pump", "row", "sync", "wait", "query", "answer", "finished", "except"}
      /\ avail' \subseteq Nets
  BY DEF Pumping, PassBegins, ReadCommands, RowsDone, Unavailable, MarkSent, Query, QueryRaises,
         Answered, NextRow, MarkFailed, OnRow, Typed, MainTyped, Enabled
<1>3. MainTyped'
  BY <1>1, <1>2 DEF Typed, MainTyped, Place
<1>4. cmd' \in [Cmds -> Command]
  <2>1. CASE ReadCommands
    <3>1. NoCmd \in Command
      BY DEF NoCmd, Command
    <3> QED
      BY <2>1, <3>1 DEF ReadCommands, CommandsTyped
  <2>2. CASE PassBegins \/ RowsDone
    BY <2>2 DEF PassBegins, RowsDone, CommandsTyped
  <2>3. CASE PumpRow
    BY <2>3, RowSteps DEF RowStep
  <2> QED
    BY <2>1, <2>2, <2>3 DEF Pumping, PumpRow
<1> QED
  BY <1>1, <1>3, <1>4 DEF Typed, config, archivists, ConfigTyped, SlotsTyped, CommandsTyped,
                          CountersTyped

(* Whatever raises leaves the tables and the slots alone.                  *)
LEMMA RaisesTyped ==
  ASSUME Typed, RowsArePending, TryRaises \/ PassRaises, stopping' \in BOOLEAN,
         faults' = faults + 1
  PROVE  Typed'
<1> CommandsTyped
  BY DEF Typed
<1>1. UNCHANGED <<config, archivists, asking, requests>>
  BY DEF TryRaises, PassRaises
<1>2. MainTyped'
  <2>1. CASE TryRaises
    <3>1. UNCHANGED <<todo, chosen, avail>> /\ pc' = "except"
      BY <2>1 DEF TryRaises
    <3> QED
      BY <3>1 DEF Typed, MainTyped, Place
  <2>2. CASE PassRaises
    <3>1. todo' = <<>> /\ chosen' = {} /\ avail' = {} /\ pc' = "wait"
      BY <2>2 DEF PassRaises
    <3> QED
      BY <3>1 DEF MainTyped, Place
  <2> QED
    BY <2>1, <2>2
<1>3. cmd' \in [Cmds -> Command]
  BY RowSteps, EndSteps DEF RowStep, Became, CommandsTyped
<1> QED
  BY <1>1, <1>2, <1>3 DEF Typed, config, archivists, ConfigTyped, SlotsTyped, CommandsTyped,
                          CountersTyped

LEMMA EndTyped ==
  ASSUME Typed, RowsArePending, Exit \/ Crash
  PROVE  Typed'
<1> CommandsTyped
  BY DEF Typed
<1>1. Restarted /\ faults' \in {faults, faults + 1}
  BY DEF Exit, Crash
<1>2. SlotsTyped'
  BY <1>1 DEF Restarted, SlotsTyped, Slot, Empty
<1>3. MainTyped'
  <2>1. todo' = <<>> /\ chosen' = {} /\ avail' = {} /\ pc' = "off" /\ stopping' = FALSE
    BY <1>1 DEF Restarted
  <2>2. pc' \in Place /\ pc' \notin {"start", "channels2", "start2"}
    BY <2>1 DEF Place
  <2>3. todo' \in Seq(Nets) /\ chosen' \subseteq Chans /\ avail' \subseteq Nets
    BY <2>1
  <2>4. stopping' \in BOOLEAN
    BY <2>1
  <2> QED
    BY <2>2, <2>3, <2>4 DEF MainTyped
<1>4. cmd' \in [Cmds -> Command]
  BY EndSteps DEF Exit, Became, CommandsTyped
<1> QED
  BY <1>1, <1>2, <1>3, <1>4 DEF Restarted, Typed, config, ConfigTyped, CommandsTyped,
                                CountersTyped

LEMMA FaultTyped ==
  ASSUME Typed, RowsArePending, WriteFails \/ Stop \/ StopRaises
  PROVE  Typed'
<1>1. stopping' \in BOOLEAN /\ faults' = faults + 1
  BY DEF WriteFails, Stop, StopRaises, ShutsDown, Typed, MainTyped
<1>2. CASE TryRaises \/ PassRaises
  BY <1>1, <1>2, RaisesTyped
<1>3. CASE UNCHANGED <<config, archivists, pc, todo, chosen, rows, avail, cmd, asking, requests>>
  BY <1>1, <1>3 DEF Typed, config, archivists, ConfigTyped, SlotsTyped, MainTyped, CommandsTyped,
                    CountersTyped
<1> QED
  BY <1>2, <1>3 DEF WriteFails, Stop, StopRaises

LEMMA StepTyped ==
  ASSUME Typed, RowsArePending, [Next]_vars
  PROVE  Typed'
<1>1. CASE UNCHANGED vars
  BY <1>1 DEF vars, config, archivists, main, Typed, ConfigTyped, SlotsTyped, MainTyped,
              CommandsTyped, CountersTyped
<1>2. CASE Next
  BY <1>2, StartingTyped, PumpingTyped, SyncingTyped, ThreadTyped, OwnerTyped, MemberTyped,
     FaultTyped, EndTyped DEF Next, Thread, Fault
<1> QED
  BY <1>1, <1>2

-----------------------------------------------------------------------------
(* One archivist each.                                                     *)

LEMMA SlotsInit == Init => SlotsAreKept
<1>1. Init => /\ slot = [n \in Nets |-> Empty] /\ starting = [n \in Nets |-> <<>>]
              /\ alive = [n \in Nets |-> 0] /\ pc = "off"
  BY DEF Init
<1> QED
  BY <1>1 DEF SlotsAreKept, OneArchivistEach, Empty

(* Who does not touch the table and starts nobody keeps this.              *)
LEMMA SlotsFrame ==
  ASSUME SlotsAreKept, UNCHANGED <<slot, starting, alive>>,
         \/ pc' = pc /\ todo' = todo
         \/ pc' \notin {"off", "boot", "channels", "start", "channels2", "start2"}
  PROVE  SlotsAreKept'
BY DEF SlotsAreKept, OneArchivistEach

LEMMA StartReadsKeepsSlots ==
  ASSUME Typed, SlotsAreKept, NEW here, NEW there, NEW after, StartReads(here, there, after),
         <<here, there, after>> \in {<<"channels", "start", "channels">>,
                                     <<"channels2", "start2", "resume">>}
  PROVE  SlotsAreKept'
<1>1. UNCHANGED <<slot, starting, alive>> /\ pc = here /\ todo # <<>> /\ todo \in Seq(Nets)
  BY DEF StartReads, archivists, Typed, MainTyped
<1>2. OneArchivistEach' /\ \A n \in Nets : slot'[n].st = "none" => starting'[n] = <<>> /\ alive'[n] = 0
  BY <1>1 DEF SlotsAreKept, OneArchivistEach
<1>3. \/ pc' = after /\ todo' = Tail(todo)
      \/ pc' = there /\ todo' = todo
  BY DEF StartReads
<1>4. CASE here = "channels"
  <2>1. there = "start" /\ after = "channels"
    BY <1>4
  <2>2. NoRepeats(todo) /\ \A k \in DOMAIN todo : slot[todo[k]].st = "none"
    BY <1>1, <1>4 DEF SlotsAreKept
  <2>3. NoRepeats(Tail(todo)) /\ \A k \in DOMAIN Tail(todo) : slot[Tail(todo)[k]].st = "none"
    BY <1>1, <2>2, TailLists
  <2> QED
    BY <1>1, <1>2, <1>3, <2>1, <2>2, <2>3 DEF SlotsAreKept
<1>5. CASE here = "channels2"
  <2>1. there = "start2" /\ after = "resume"
    BY <1>5
  <2>2. slot[Head(todo)].st = "none"
    BY <1>1, <1>5 DEF SlotsAreKept
  <2> QED
    BY <1>1, <1>2, <1>3, <2>1, <2>2 DEF SlotsAreKept
<1> QED
  BY <1>4, <1>5

(* The network in hand has no slot, so that nobody is starting for it.     *)
LEMMA StartsThreadKeepsSlots ==
  ASSUME Typed, SlotsAreKept, NEW here, NEW after, StartsThread(here, after),
         <<here, after>> \in {<<"start", "channels">>, <<"start2", "resume">>}
  PROVE  SlotsAreKept'
<1> DEFINE n == Head(todo)
           T == SUBSET Chans
<1>1. pc = here /\ todo # <<>> /\ todo \in Seq(Nets) /\ n \in Nets /\ chosen \in T
  BY TailLists DEF StartsThread, Typed, MainTyped
<1>2. slot[n].st = "none"
  BY <1>1, TailLists DEF SlotsAreKept
<1>3. starting \in [Nets -> Seq(T)] /\ slot \in [Nets -> Slot] /\ alive \in [Nets -> Nat]
  BY DEF Typed, SlotsTyped
<1>4. /\ slot' = [slot EXCEPT ![n] = Reserved]
      /\ starting' = [starting EXCEPT ![n] = Append(@, chosen)]
      /\ alive' = alive /\ todo' = Tail(todo) /\ pc' = after
  BY <1>2 DEF StartsThread
<1> HIDE DEF n, T
<1>5. starting[n] = <<>> /\ alive[n] = 0
  BY <1>1, <1>2 DEF SlotsAreKept
<1>6. Len(starting'[n]) = 1
  BY <1>1, <1>3, <1>4, <1>5
<1>7. OneArchivistEach'
  BY <1>1, <1>3, <1>4, <1>5, <1>6 DEF SlotsAreKept, OneArchivistEach
<1>8. slot'[n].st = "reserved" /\ \A m \in Nets : m # n => slot'[m] = slot[m]
  BY <1>1, <1>3, <1>4 DEF Reserved
<1>9. \A m \in Nets : slot'[m].st = "none" => starting'[m] = <<>> /\ alive'[m] = 0
  BY <1>1, <1>3, <1>4, <1>8 DEF SlotsAreKept
<1>10. CASE here = "start"
  <2>1. NoRepeats(todo) /\ \A k \in DOMAIN todo : slot[todo[k]].st = "none"
    BY <1>1, <1>10 DEF SlotsAreKept
  <2>2. NoRepeats(Tail(todo))
    BY <1>1, <2>1, TailLists
  <2>3. \A k \in DOMAIN Tail(todo) : slot'[Tail(todo)[k]].st = "none"
    <3> TAKE k \in DOMAIN Tail(todo)
    <3>1. k + 1 \in DOMAIN todo /\ Tail(todo)[k] = todo[k + 1] /\ Tail(todo)[k] # n
      BY <1>1, <2>1, TailLists DEF n
    <3>2. Tail(todo)[k] \in Nets
      BY <1>1, <3>1
    <3> QED
      BY <1>8, <2>1, <3>1, <3>2
  <2> QED
    BY <1>4, <1>7, <1>9, <1>10, <2>2, <2>3 DEF SlotsAreKept
<1>11. CASE here = "start2"
  BY <1>4, <1>7, <1>9, <1>11 DEF SlotsAreKept
<1> QED
  BY <1>10, <1>11

(* A thread that fills its slot has it, and one that dies leaves it.       *)
LEMMA ThreadKeepsSlots ==
  ASSUME Typed, SlotsAreKept, NEW n \in Nets, ThreadRuns(n) \/ ThreadDies(n)
  PROVE  SlotsAreKept'
<1> DEFINE T == SUBSET Chans
<1>1. starting \in [Nets -> Seq(T)] /\ slot \in [Nets -> Slot] /\ alive \in [Nets -> Nat]
  BY DEF Typed, SlotsTyped
<1> HIDE DEF T
<1>2. starting[n] # <<>> /\ starting' = [starting EXCEPT ![n] = Tail(@)] /\ UNCHANGED <<pc, todo>>
  BY DEF ThreadRuns, ThreadDies, main
<1>3. Len(starting'[n]) = Len(starting[n]) - 1 /\ Len(starting[n]) \in Nat
  BY <1>1, <1>2
<1>4. slot[n].st # "none"
  BY <1>2 DEF SlotsAreKept
<1>5. alive' = [alive EXCEPT ![n] = @ + 1] \/ alive' = alive
  BY DEF ThreadRuns, ThreadDies
<1>6. OneArchivistEach'
  <2> SUFFICES ASSUME NEW m \in Nets
               PROVE  Len(starting'[m]) + alive'[m] <= 1
    BY DEF OneArchivistEach
  <2>1. Len(starting[m]) + alive[m] <= 1
    BY DEF SlotsAreKept, OneArchivistEach
  <2>2. m # n => starting'[m] = starting[m] /\ alive'[m] = alive[m]
    BY <1>1, <1>2, <1>5
  <2>3. alive'[n] <= alive[n] + 1 /\ alive[n] \in Nat /\ alive'[n] \in Nat
    BY <1>1, <1>5
  <2> QED
    BY <1>3, <2>1, <2>2, <2>3
<1>7. \A m \in Nets : slot'[m].st = "none" <=> slot[m].st = "none"
  <2>1. CASE slot' = slot
    BY <2>1
  <2>2. CASE slot' = [slot EXCEPT ![n] = [st |-> "bot", wish |-> Head(starting[n])]]
    <3>1. slot'[n].st = "bot" /\ \A m \in Nets : m # n => slot'[m] = slot[m]
      BY <1>1, <2>2
    <3> QED
      BY <1>4, <3>1
  <2> QED
    BY <2>1, <2>2 DEF ThreadRuns, ThreadDies
<1>8. \A m \in Nets : slot'[m].st = "none" => starting'[m] = <<>> /\ alive'[m] = 0
  BY <1>1, <1>2, <1>4, <1>5, <1>7 DEF SlotsAreKept
<1>9. todo \in Seq(Nets) /\ (pc \in {"channels2", "start2"} => Head(todo) \in Nets)
  BY TailLists DEF Typed, MainTyped
<1>10. \A k \in DOMAIN todo : todo[k] \in Nets
  BY <1>9
<1> QED
  BY <1>2, <1>6, <1>7, <1>8, <1>9, <1>10 DEF SlotsAreKept

LEMMA SlotsStep ==
  ASSUME Typed, SlotsAreKept, [Next]_vars
  PROVE  SlotsAreKept'
<1>1. CASE UNCHANGED vars
  BY <1>1, SlotsFrame DEF vars, archivists, main
<1>2. CASE Owner
  <2>1. UNCHANGED <<archivists, main>>
    BY <1>2 DEF Owner, AddNetwork, ToggleNetwork, DeleteNetwork, AddChannel, DeleteChannel,
                ArchiveChannel, ImportChannel, Detach, Edit
  <2> QED
    BY <2>1, SlotsFrame DEF archivists, main
<1>3. CASE Member
  <2>1. UNCHANGED <<archivists, main>>
    BY <1>3 DEF Member, Ask, Queue
  <2> QED
    BY <2>1, SlotsFrame DEF archivists, main
<1>4. CASE Pumping \/ WriteFails \/ Stop \/ StopRaises
  <2>1. UNCHANGED archivists
    BY <1>4 DEF Pumping, PassBegins, ReadCommands, RowsDone, Unavailable, MarkSent, Query,
                QueryRaises, Answered, NextRow, MarkFailed, OnRow, WriteFails, Stop, StopRaises,
                TryRaises, PassRaises
  <2>2. \/ pc' = pc /\ todo' = todo
        \/ pc' \in {"pump", "row", "sync", "wait", "query", "answer", "finished", "except"}
    BY <1>4 DEF Pumping, PassBegins, ReadCommands, RowsDone, Unavailable, MarkSent, Query,
                QueryRaises, Answered, NextRow, MarkFailed, WriteFails, Stop, StopRaises,
                TryRaises, PassRaises
  <2> QED
    BY <2>1, <2>2, SlotsFrame DEF archivists
<1>5. CASE Boot
  BY <1>5 DEF Boot, archivists, SlotsAreKept, OneArchivistEach
<1>6. CASE BootNetworks
  <2>1. todo' \in Seq(Nets) /\ NoRepeats(todo')
    BY <1>6, NetsInOrder DEF BootNetworks, Enabled
  <2>2. \A n \in Nets : slot[n].st = "none"
    BY <1>6 DEF BootNetworks, SlotsAreKept
  <2>3. \A k \in DOMAIN todo' : slot[todo'[k]].st = "none"
    BY <2>1, <2>2
  <2> QED
    BY <1>6, <2>1, <2>3 DEF BootNetworks, archivists, SlotsAreKept, OneArchivistEach
<1>7. CASE BootDone
  BY <1>7, SlotsFrame DEF BootDone, archivists
<1>8. CASE StartReads("channels", "start", "channels") \/ StartReads("channels2", "start2", "resume")
  BY <1>8, StartReadsKeepsSlots
<1>9. CASE StartsThread("start", "channels") \/ StartsThread("start2", "resume")
  BY <1>9, StartsThreadKeepsSlots
<1>10. CASE SyncReads \/ SyncSkips \/ SyncResumes
  BY <1>10 DEF SyncReads, SyncSkips, SyncNext, SyncResumes, archivists, SlotsAreKept,
               OneArchivistEach
<1>11. CASE SyncStarts
  BY <1>11 DEF SyncStarts, archivists, SlotsAreKept, OneArchivistEach
<1>12. CASE SyncWants
  <2>1. \A n \in Nets : slot'[n].st = slot[n].st
    <3>1. slot \in [Nets -> Slot] /\ slot' = [slot EXCEPT ![Head(todo)].wish = Archived(Head(todo))]
      BY <1>12 DEF SyncWants, Typed, SlotsTyped
    <3> QED
      BY <3>1 DEF Slot
  <2> QED
    BY <1>12, <2>1 DEF SyncWants, SyncNext, SlotsAreKept, OneArchivistEach
<1>13. ASSUME NEW n \in Nets, ThreadRuns(n) \/ ThreadDies(n) PROVE SlotsAreKept'
  BY <1>13, ThreadKeepsSlots
<1>14. CASE Exit \/ Crash
  BY <1>14 DEF Exit, Crash, Restarted, SlotsAreKept, OneArchivistEach, Empty
<1> QED
  BY <1>1, <1>2, <1>3, <1>4, <1>5, <1>6, <1>7, <1>8, <1>9, <1>10, <1>11, <1>12, <1>13, <1>14
     DEF Next, Starting, Syncing, Thread, Fault

-----------------------------------------------------------------------------
(* The rows in hand.                                                       *)

LEMMA RowsInit == Init => RowsArePending
<1>1. Init => rows = <<>> /\ pc = "off"
  BY DEF Init
<1> QED
  BY <1>1 DEF RowsArePending, NoRepeats, InHand

LEMMA RowsFrame ==
  ASSUME RowsArePending, UNCHANGED <<rows, cmd>>, stopping => stopping',
         \/ pc' = pc
         \/ pc \notin InHand \cup {"row"} /\ pc' \notin InHand \cup {"row"}
  PROVE  RowsArePending'
BY DEF RowsArePending, Pending, Row, InHand

LEMMA NoRows ==
  ASSUME rows' = <<>>, pc' \notin InHand
  PROVE  RowsArePending'
BY DEF RowsArePending, NoRepeats, InHand

(* What a step makes of the row in hand leaves the others as they are.     *)
LEMMA RestOfRows ==
  ASSUME CommandsTyped, RowsArePending, rows # <<>>, rows' = Tail(rows), pc' = "row",
         \A i \in Cmds : i # Row => cmd'[i] = cmd[i]
  PROVE  RowsArePending'
<1>1. rows \in Seq(Cmds) /\ NoRepeats(rows) /\ Row = Head(rows)
  BY DEF RowsArePending, Row
<1>2. rows' \in Seq(Cmds) /\ NoRepeats(rows')
  BY <1>1, TailLists
<1>3. \A k \in DOMAIN rows' : rows'[k] \in Pending'
  <2> TAKE k \in DOMAIN rows'
  <2>1. k + 1 \in DOMAIN rows /\ rows'[k] = rows[k + 1] /\ rows'[k] # Row /\ k + 1 # 1
    BY <1>1, TailLists
  <2>2. rows'[k] \in Cmds /\ rows'[k] \in Pending
    BY <1>2, <2>1 DEF RowsArePending
  <2> QED
    BY <2>1, <2>2 DEF Pending
<1>4. rows' # <<>> => cmd'[Head(rows')].st \in {"queued", "sent"}
  <2>1. rows' # <<>> => 1 \in DOMAIN rows' /\ Head(rows') = rows'[1]
    BY <1>2
  <2> QED
    BY <1>3, <2>1 DEF Pending
<1> QED
  BY <1>2, <1>3, <1>4 DEF RowsArePending, Row, InHand, Stage

(* The row in hand changes and stays in hand.                              *)
LEMMA SameRow ==
  ASSUME CommandsTyped, RowsArePending, rows # <<>>, rows' = rows,
         \A i \in Cmds : i # Row => cmd'[i] = cmd[i],
         pc' \in InHand, cmd'[Row].st \in Stage(pc'),
         pc' = "except" /\ cmd'[Row].st = "done" => stopping' /\ cmd'[Row].hits > 0
  PROVE  RowsArePending'
<1>1. rows \in Seq(Cmds) /\ Row' = Row /\ \A k \in DOMAIN rows : rows[k] \in Cmds
  BY DEF RowsArePending, Row
<1>2. NoRepeats(rows) /\ Row = rows[1] /\ 1 \in DOMAIN rows
  BY RowTyped DEF RowsArePending
<1>3. \A k \in DOMAIN rows : k # 1 => rows[k] \in Pending'
  <2> TAKE k \in DOMAIN rows
  <2>1. k # 1 => rows[k] # Row /\ rows[k] \in Pending
    BY <1>2 DEF NoRepeats, RowsArePending
  <2> QED
    BY <1>1, <2>1 DEF Pending
<1> QED
  BY <1>1, <1>2, <1>3 DEF RowsArePending

LEMMA ReadRows ==
  ASSUME Typed, ReadCommands
  PROVE  RowsArePending'
<1>1. rows' = FirstOf(Pending, Batch) /\ pc' = "row" /\ \A i \in Pending : cmd'[i] = cmd[i]
  BY DEF ReadCommands, Pending
<1>2. Pending \in SUBSET Nat /\ IsFiniteSet(Pending)
  <2>1. MaxCommands \in Nat /\ IsFiniteSet(Cmds)
    BY ManagerAssumption, FS_Interval DEF Cmds
  <2>2. Pending \subseteq Cmds /\ Cmds \in SUBSET Nat
    BY <2>1 DEF Pending, Cmds
  <2> QED
    BY <2>1, <2>2, FS_Subset
<1>3. rows' \in Seq(Pending) /\ NoRepeats(rows')
  BY <1>1, <1>2, FirstOfLists, ManagerAssumption
<1>4. Pending \subseteq Pending' /\ Pending \subseteq Cmds
  BY <1>1 DEF Pending
<1>5. rows' \in Seq(Cmds) /\ \A k \in DOMAIN rows' : rows'[k] \in Pending'
  BY <1>3, <1>4
<1>6. rows' # <<>> => Row' \in Pending
  BY <1>3 DEF Row
<1>7. rows' # <<>> => cmd'[Row'].st \in {"queued", "sent"}
  BY <1>1, <1>6 DEF Pending
<1> QED
  BY <1>1, <1>3, <1>5, <1>7 DEF RowsArePending, InHand, Stage

(* A new command gets an id that is not in hand.                           *)
LEMMA QueueTakesFresh ==
  ASSUME CommandsTyped, NEW h \in Handlers, Queue(h)
  PROVE  \/ cmd' = cmd
         \/ \E i \in Cmds : /\ cmd[i].st = "none" /\ asking[h] \in Nets
                            /\ cmd' = [cmd EXCEPT ![i] = [NoCmd EXCEPT !.st = "queued",
                                                                       !.net = asking[h]]]
<1>1. asking[h] \in Nets
  BY DEF Queue, CommandsTyped
<1>2. ASSUME NEW i \in Cmds, IsNextId(i, {j \in Cmds : cmd[j].st # "none"})
      PROVE  cmd[i].st = "none"
  <2>1. i \in Nat /\ ~(i < i)
    BY DEF Cmds
  <2>2. CASE {j \in Cmds : cmd[j].st # "none"} = {}
    BY <2>2
  <2>3. CASE {j \in Cmds : cmd[j].st # "none"} # {}
    BY <1>2, <2>1, <2>3 DEF IsNextId
  <2> QED
    BY <2>2, <2>3
<1> QED
  BY <1>1, <1>2 DEF Queue

LEMMA QueueKeepsRows ==
  ASSUME CommandsTyped, RowsArePending, NEW h \in Handlers, Queue(h)
  PROVE  RowsArePending'
<1>1. \A i \in Cmds : cmd[i].st # "none" => cmd'[i] = cmd[i]
  BY QueueTakesFresh DEF CommandsTyped
<1>2. UNCHANGED <<rows, pc, stopping>> /\ Row' = Row
  BY DEF Queue, main, Row
<1>3. rows # <<>> => Row \in Cmds /\ cmd'[Row] = cmd[Row]
  BY <1>1, RowTyped DEF Stage
<1>4. \A k \in DOMAIN rows : k # 1 => rows[k] \in Pending'
  BY <1>1 DEF RowsArePending, Pending
<1> QED
  BY <1>2, <1>3, <1>4 DEF RowsArePending, InHand

LEMMA RowStepKeepsRows ==
  ASSUME CommandsTyped, RowsArePending,
         \/ PumpRow
         \/ TryRaises /\ (pc = "finished" => stopping')
  PROVE  RowsArePending'
<1> RowStep
  BY DEF RowStep
<1>1. /\ rows # <<>> /\ Row \in Cmds /\ \A i \in Cmds : i # Row => cmd'[i] = cmd[i]
      /\ cmd[Row] \in Command /\ cmd[Row].st \in Stage(pc) /\ cmd[Row].hits \in Nat
  BY RowSteps, RowTyped DEF Command
<1>2. CASE Unavailable \/ MarkFailed \/ NextRow
  <2>1. rows' = Tail(rows) /\ pc' = "row"
    BY <1>2 DEF Unavailable, MarkFailed, NextRow
  <2> QED
    BY <1>1, <2>1, RestOfRows
<1>3. CASE MarkSent
  <2>1. rows' = rows /\ pc' = "query" /\ cmd'[Row].st = "sent"
    BY <1>3, RowSteps DEF MarkSent, Became
  <2> QED
    BY <1>1, <2>1, SameRow DEF InHand, Stage
<1>4. CASE Query
  <2>1. rows' = rows /\ pc = "query" /\ pc' = "answer" /\ cmd'[Row].st = cmd[Row].st
    BY <1>4, RowSteps DEF Query, OnRow, Became
  <2> QED
    BY <1>1, <2>1, SameRow DEF InHand, Stage
<1>5. CASE QueryRaises
  <2>1. rows' = rows /\ pc = "query" /\ pc' = "except" /\ cmd'[Row].st = cmd[Row].st
    BY <1>5, RowSteps DEF QueryRaises, OnRow, Became
  <2> QED
    BY <1>1, <2>1, SameRow DEF InHand, Stage
<1>6. CASE Answered
  <2>1. rows' = rows /\ pc' = "finished" /\ cmd'[Row].st = "done"
    BY <1>6, RowSteps DEF Answered, Became
  <2> QED
    BY <1>1, <2>1, SameRow DEF InHand, Stage
<1>7. CASE TryRaises /\ (pc = "finished" => stopping')
  <2>1. /\ rows' = rows /\ pc \in {"row", "query", "answer", "finished"} /\ pc' = "except"
        /\ cmd'[Row].st = cmd[Row].st /\ cmd'[Row].hits = cmd[Row].hits + 1
    BY <1>7, RowSteps DEF TryRaises, InTry, Became
  <2>2. cmd[Row].st = "done" => pc = "finished"
    BY <1>1, <2>1 DEF Stage
  <2> QED
    BY <1>1, <1>7, <2>1, <2>2, SameRow DEF InHand, Stage
<1> QED
  BY <1>2, <1>3, <1>4, <1>5, <1>6, <1>7 DEF PumpRow

LEMMA FaultKeepsRows ==
  ASSUME CommandsTyped, RowsArePending, WriteFails \/ Stop \/ StopRaises
  PROVE  RowsArePending'
<1>1. /\ stopping => stopping'
      /\ pc = "finished" => stopping'
  BY DEF WriteFails, Stop, StopRaises, ShutsDown
<1>2. CASE TryRaises
  BY <1>1, <1>2, RowStepKeepsRows
<1>3. CASE PassRaises
  BY <1>3, NoRows DEF PassRaises, InHand
<1>4. CASE UNCHANGED <<config, archivists, pc, todo, chosen, rows, avail, cmd, asking, requests>>
  BY <1>1, <1>4, RowsFrame
<1> QED
  BY <1>2, <1>3, <1>4 DEF WriteFails, Stop, StopRaises

LEMMA RowsStep ==
  ASSUME Typed, RowsArePending, [Next]_vars
  PROVE  RowsArePending'
<1>0. CommandsTyped
  BY DEF Typed
<1>1. CASE UNCHANGED vars
  <2>1. UNCHANGED <<rows, cmd, stopping>> /\ pc' = pc
    BY <1>1 DEF vars, main
  <2> QED
    BY <2>1, RowsFrame
<1>2. CASE Owner \/ Thread \/ \E n \in Nets : ThreadDies(n)
  <2>1. UNCHANGED <<main, cmd>>
    BY <1>2 DEF Owner, AddNetwork, ToggleNetwork, DeleteNetwork, AddChannel, DeleteChannel,
                ArchiveChannel, ImportChannel, Detach, Edit, Thread, ThreadRuns, ThreadDies
  <2>2. UNCHANGED <<rows, cmd, stopping>> /\ pc' = pc
    BY <2>1 DEF main
  <2> QED
    BY <2>2, RowsFrame
<1>3. CASE Starting \/ Syncing \/ PassBegins
  <2>1. UNCHANGED <<rows, cmd, stopping>>
    BY <1>3 DEF Starting, Boot, BootNetworks, BootDone, StartReads, StartsThread, Syncing,
                SyncReads, SyncStarts, SyncSkips, SyncWants, SyncResumes, PassBegins
  <2>2. pc \notin InHand \cup {"row"} /\ pc' \notin InHand \cup {"row"}
    BY <1>3 DEF Starting, Boot, BootNetworks, BootDone, StartReads, StartsThread, Syncing, InHand,
                SyncReads, SyncStarts, SyncSkips, SyncWants, SyncResumes, SyncNext, PassBegins
  <2> QED
    BY <2>1, <2>2, RowsFrame
<1>4. ASSUME NEW h \in Handlers, NEW n \in Nets, Ask(h, n) PROVE RowsArePending'
  <2>1. UNCHANGED <<rows, cmd, stopping>> /\ pc' = pc
    BY <1>4 DEF Ask, main
  <2> QED
    BY <2>1, RowsFrame
<1>5. ASSUME NEW h \in Handlers, Queue(h) PROVE RowsArePending'
  BY <1>0, <1>5, QueueKeepsRows
<1>6. CASE ReadCommands
  BY <1>6, ReadRows
<1>7. CASE RowsDone
  BY <1>7, NoRows DEF RowsDone, InHand
<1>8. CASE PumpRow
  BY <1>0, <1>8, RowStepKeepsRows
<1>9. CASE WriteFails \/ Stop \/ StopRaises
  BY <1>0, <1>9, FaultKeepsRows
<1>10. CASE Exit \/ Crash
  BY <1>10, NoRows DEF Exit, Crash, Restarted, InHand
<1> QED
  BY <1>1, <1>2, <1>3, <1>4, <1>5, <1>6, <1>7, <1>8, <1>9, <1>10
     DEF Next, Pumping, PumpRow, Member, Fault

-----------------------------------------------------------------------------
(* How often a command is run.                                             *)

LEMMA RunsInit == Init => RunsAreCounted
<1> SUFFICES ASSUME Init, NEW i \in Cmds
             PROVE  History(i)
  BY DEF RunsAreCounted
<1>1. pc = "off"
  BY DEF Init
<1>2. cmd[i].runs = 0 /\ cmd[i].hits = 0 /\ cmd[i].told = FALSE /\ cmd[i].st \in {"none", "queued"}
  <2>1. CASE cmd = [j \in Cmds |-> NoCmd]
    BY <2>1 DEF NoCmd
  <2>2. ASSUME NEW n \in Nets,
               cmd = [j \in Cmds |-> IF j = 1 THEN [NoCmd EXCEPT !.st = "queued", !.net = n]
                                     ELSE NoCmd]
        PROVE  cmd[i].runs = 0 /\ cmd[i].hits = 0 /\ cmd[i].told = FALSE /\ cmd[i].st \in {"none", "queued"}
    BY <2>2 DEF NoCmd
  <2> QED
    BY <2>1, <2>2 DEF Init
<1> QED
  BY <1>1, <1>2 DEF History, Open

LEMMA HistoryFrame ==
  ASSUME NEW i, History(i), cmd'[i] = cmd[i],
         \/ /\ Open(i, "answer")' <=> Open(i, "answer")
            /\ Open(i, "except")' <=> Open(i, "except")
         \/ cmd[i].st # "sent"
         \/ ~Open(i, "answer") /\ ~Open(i, "except") /\ pc' \notin {"answer", "except"}
  PROVE  History(i)'
BY DEF History, Open

LEMMA RunsFrame ==
  ASSUME RunsAreCounted, UNCHANGED cmd,
         \/ pc' = pc /\ rows' = rows
         \/ pc \notin {"answer", "except"} /\ pc' \notin {"answer", "except"}
  PROVE  RunsAreCounted'
<1> SUFFICES ASSUME NEW i \in Cmds
             PROVE  History(i)'
  BY DEF RunsAreCounted
<1>1. History(i)
  BY DEF RunsAreCounted
<1> QED
  BY <1>1, HistoryFrame DEF Open, Row

(* A step on the row in hand, seen from the others.                        *)
LEMMA OthersHistory ==
  ASSUME NEW i \in Cmds, i # Row, History(i), cmd'[i] = cmd[i],
         pc' \in {"answer", "except"} => rows' = rows
  PROVE  History(i)'
<1>1. /\ ~Open(i, "answer") /\ ~Open(i, "except")
      /\ ~Open(i, "answer")' /\ ~Open(i, "except")'
  BY DEF Open, Row
<1> QED
  BY <1>1, HistoryFrame

(* The command in hand: it is sent before it is run and run before it is   *)
(* shown as answered; what interrupts it is counted.                       *)
LEMMA RowHistory ==
  ASSUME CommandsTyped, RowsArePending, RunsAreCounted, RowStep, NEW i \in Cmds, i = Row
  PROVE  History(i)'
<1>1. /\ cmd[i].runs \in Nat /\ cmd[i].hits \in Nat /\ cmd[i].told \in BOOLEAN
      /\ cmd[i].st \in {"none", "queued", "sent", "done", "failed"}
  BY DEF CommandsTyped, Command
<1>2. History(i) /\ rows # <<>> /\ cmd[i].st \in Stage(pc)
  BY RowSteps, RowTyped DEF RunsAreCounted
<1>3. CASE Unavailable
  <2>1. Became(i, "failed", cmd[i].runs, cmd[i].told, cmd[i].hits) /\ pc = "row"
    BY <1>3, RowSteps DEF Unavailable, OnRow
  <2>2. cmd[i].st \in {"queued", "sent"} /\ ~Open(i, "answer") /\ ~Open(i, "except")
    BY <1>2, <2>1 DEF Stage, Open
  <2> QED
    BY <1>1, <1>2, <2>1, <2>2 DEF History, Became
<1>4. CASE MarkSent
  <2>1. /\ Became(i, "sent", cmd[i].runs, cmd[i].told, cmd[i].hits) /\ pc = "row"
        /\ pc' = "query"
    BY <1>4, RowSteps DEF MarkSent, OnRow
  <2>2. cmd[i].st \in {"queued", "sent"} /\ ~Open(i, "answer") /\ ~Open(i, "except")
    BY <1>2, <2>1 DEF Stage, Open
  <2> QED
    BY <1>1, <1>2, <2>1, <2>2 DEF History, Became, Open
<1>5. CASE Query
  <2>1. /\ Became(i, cmd[i].st, cmd[i].runs + 1, TRUE, cmd[i].hits) /\ pc = "query"
        /\ pc' = "answer"
    BY <1>5, RowSteps DEF Query, OnRow
  <2>2. cmd[i].st = "sent" /\ ~Open(i, "answer") /\ ~Open(i, "except")
    BY <1>2, <2>1 DEF Stage, Open
  <2>3. cmd'[i].runs <= 1 + cmd'[i].hits /\ cmd'[i].st = "sent" /\ cmd'[i].told = TRUE
    BY <1>1, <1>2, <2>1, <2>2 DEF History, Became
  <2>4. Open(i, "answer")'
    BY <1>5, <2>1 DEF Query, Open, Row
  <2> QED
    BY <2>1, <2>3, <2>4 DEF History, Open
<1>6. CASE QueryRaises
  <2>1. PICK wrote \in {0, 1} :
          Became(i, cmd[i].st, cmd[i].runs + wrote, cmd[i].told, cmd[i].hits)
    BY <1>6, RowSteps
  <2>2. pc = "query" /\ pc' = "except" /\ rows' = rows
    BY <1>6 DEF QueryRaises, OnRow
  <2>3. cmd[i].st = "sent" /\ ~Open(i, "answer") /\ ~Open(i, "except")
    BY <1>2, <2>2 DEF Stage, Open
  <2>4. /\ cmd'[i].runs <= 1 + cmd'[i].hits /\ cmd'[i].st = "sent"
        /\ cmd'[i].told => cmd'[i].hits > 0
    BY <1>1, <1>2, <2>1, <2>3 DEF History, Became
  <2>5. Open(i, "except")' /\ ~Open(i, "answer")'
    BY <2>2 DEF Open, Row
  <2> QED
    BY <2>4, <2>5 DEF History
<1>7. CASE Answered
  <2>1. Became(i, "done", cmd[i].runs, cmd[i].told, cmd[i].hits) /\ pc = "answer"
    BY <1>7, RowSteps DEF Answered, OnRow
  <2>2. cmd[i].st = "sent" /\ Open(i, "answer")
    BY <1>2, <2>1 DEF Stage, Open
  <2> QED
    BY <1>1, <1>2, <2>1, <2>2 DEF History, Became
<1>8. CASE NextRow
  <2>1. cmd' = cmd /\ pc = "finished"
    BY <1>8 DEF NextRow, OnRow
  <2>2. cmd[i].st = "done"
    BY <1>2, <2>1 DEF Stage
  <2> QED
    BY <1>2, <2>1, <2>2, HistoryFrame
<1>9. CASE MarkFailed
  <2>1. Became(i, "failed", cmd[i].runs, cmd[i].told, cmd[i].hits) /\ pc = "except"
    BY <1>9, RowSteps DEF MarkFailed, OnRow
  <2>2. cmd[i].st \in {"queued", "sent", "done"} /\ Open(i, "except") /\ ~Open(i, "answer")
    BY <1>2, <2>1 DEF Stage, Open
  <2>3. cmd[i].told => cmd[i].hits > 0
    BY <1>2, <2>1, <2>2 DEF History, RowsArePending
  <2> QED
    BY <1>1, <1>2, <2>1, <2>3 DEF History, Became
<1>10. CASE TryRaises
  <2>1. PICK wrote \in {0, 1} :
          /\ wrote = 1 => pc = "query"
          /\ Became(i, cmd[i].st, cmd[i].runs + wrote, cmd[i].told, cmd[i].hits + 1)
    BY <1>10, RowSteps
  <2>2. pc' = "except" /\ rows' = rows
    BY <1>10 DEF TryRaises
  <2>3. Open(i, "except")' /\ ~Open(i, "answer")' /\ cmd'[i].hits > 0
    BY <1>1, <2>1, <2>2 DEF Open, Row, Became
  <2>4. cmd'[i].runs <= 1 + cmd'[i].hits /\ (cmd'[i].st = "queued" => cmd'[i].runs = 0)
    BY <1>1, <1>2, <2>1 DEF History, Stage, Became
  <2>5. /\ cmd'[i].st = cmd[i].st /\ cmd'[i].told = cmd[i].told
    BY <2>1 DEF Became
  <2> QED
    BY <1>2, <2>3, <2>4, <2>5 DEF History
<1> QED
  BY <1>3, <1>4, <1>5, <1>6, <1>7, <1>8, <1>9, <1>10 DEF RowStep, PumpRow

(* What ends with a command in hand is counted, so that the next pass may  *)
(* run it again.                                                           *)
LEMMA EndKeepsRuns ==
  ASSUME CommandsTyped, RowsArePending, RunsAreCounted, PassRaises \/ Crash,
         pc \in InHand /\ PassRaises => pc = "except"
  PROVE  RunsAreCounted'
<1>1. pc' \notin {"answer", "except"}
  BY DEF PassRaises, Crash, Restarted
<1>2. CASE cmd' = cmd /\ pc \notin InHand
  BY <1>1, <1>2, RunsFrame DEF InHand
<1>3. ASSUME pc \in InHand, rows # <<>>, Row \in Cmds, NEW wrote \in {0, 1}, wrote = 1 => pc = "query",
             Became(Row, cmd[Row].st, cmd[Row].runs + wrote, cmd[Row].told, cmd[Row].hits + 1)
      PROVE  RunsAreCounted'
  <2> SUFFICES ASSUME NEW i \in Cmds
               PROVE  History(i)'
    BY DEF RunsAreCounted
  <2>1. /\ cmd[i].runs \in Nat /\ cmd[i].hits \in Nat /\ cmd[i].told \in BOOLEAN
        /\ History(i)
    BY DEF CommandsTyped, Command, RunsAreCounted
  <2>2. CASE i # Row
    BY <1>1, <1>3, <2>1, <2>2, OthersHistory DEF Became
  <2>3. CASE i = Row
    <3>1. cmd[i].st \in Stage(pc)
      BY <1>3, <2>3, RowTyped
    <3>2. /\ cmd'[i].st = cmd[i].st /\ cmd'[i].told = cmd[i].told
          /\ cmd'[i].hits = cmd[i].hits + 1 /\ cmd'[i].runs = cmd[i].runs + wrote
      BY <1>3, <2>3 DEF Became
    <3>3. wrote = 1 => /\ cmd[i].st = "sent" /\ ~Open(i, "answer") /\ ~Open(i, "except")
      BY <1>3, <3>1 DEF Stage, Open
    <3>4. cmd'[i].runs <= cmd'[i].hits /\ cmd'[i].hits > 0
      <4>1. CASE wrote = 0
        BY <2>1, <3>2, <4>1 DEF History
      <4>2. CASE wrote = 1
        BY <2>1, <3>2, <3>3, <4>2 DEF History
      <4> QED
        BY <4>1, <4>2
    <3>5. cmd'[i].runs \in Nat /\ cmd'[i].hits \in Nat
      BY <2>1, <3>2
    <3>6. cmd'[i].st = "queued" => cmd'[i].runs = 0
      BY <2>1, <3>2, <3>3 DEF History
    <3> QED
      BY <1>1, <2>1, <3>2, <3>4, <3>5, <3>6 DEF History, Open
  <2> QED
    BY <2>2, <2>3
<1> QED
  BY <1>2, <1>3, EndSteps

LEMMA RunsStep ==
  ASSUME Typed, RowsArePending, RunsAreCounted, [Next]_vars
  PROVE  RunsAreCounted'
<1>0. /\ cmd \in [Cmds -> Command] /\ CommandsTyped /\ \A i \in Cmds : History(i)
  BY DEF Typed, CommandsTyped, RunsAreCounted
<1>1. CASE UNCHANGED vars
  <2>1. UNCHANGED <<cmd, pc, rows>>
    BY <1>1 DEF vars, main
  <2> QED
    BY <2>1, RunsFrame
<1>2. CASE Owner \/ Thread \/ \E n \in Nets : ThreadDies(n)
  <2>1. UNCHANGED <<main, cmd>>
    BY <1>2 DEF Owner, AddNetwork, ToggleNetwork, DeleteNetwork, AddChannel, DeleteChannel,
                ArchiveChannel, ImportChannel, Detach, Edit, Thread, ThreadRuns, ThreadDies
  <2>2. UNCHANGED <<cmd, pc, rows>>
    BY <2>1 DEF main
  <2> QED
    BY <2>2, RunsFrame
<1>3. CASE Starting \/ Syncing \/ PassBegins \/ RowsDone \/ Exit
  <2>1. UNCHANGED cmd
    BY <1>3 DEF Starting, Boot, BootNetworks, BootDone, StartReads, StartsThread, Syncing,
                SyncReads, SyncStarts, SyncSkips, SyncWants, SyncResumes, PassBegins, RowsDone, Exit
  <2>2. pc \notin {"answer", "except"} /\ pc' \notin {"answer", "except"}
    BY <1>3 DEF Starting, Boot, BootNetworks, BootDone, StartReads, StartsThread, Syncing,
                SyncReads, SyncStarts, SyncSkips, SyncWants, SyncResumes, SyncNext, PassBegins,
                RowsDone, Exit, Restarted
  <2> QED
    BY <1>0, <2>1, <2>2, RunsFrame
<1>4. ASSUME NEW h \in Handlers, NEW n \in Nets, Ask(h, n) PROVE RunsAreCounted'
  <2>1. UNCHANGED <<cmd, pc, rows>>
    BY <1>4 DEF Ask, main
  <2> QED
    BY <1>0, <2>1, RunsFrame
<1>5. ASSUME NEW h \in Handlers, Queue(h) PROVE RunsAreCounted'
  <2>1. UNCHANGED <<pc, rows>>
    BY <1>5 DEF Queue, main
  <2>2. CASE cmd' = cmd
    BY <1>0, <2>1, <2>2, RunsFrame
  <2>3. ASSUME NEW i \in Cmds, cmd[i].st = "none", asking[h] \in Nets,
               cmd' = [cmd EXCEPT ![i] = [NoCmd EXCEPT !.st = "queued", !.net = asking[h]]],
               NEW j \in Cmds
        PROVE  History(j)'
    <3>1. CASE j = i
      <4>1. /\ cmd'[j].st = "queued" /\ cmd'[j].runs = 0 /\ cmd'[j].told = FALSE
            /\ cmd'[j].hits = 0
        BY <1>0, <2>3, <3>1 DEF NoCmd
      <4> QED
        BY <4>1 DEF History
    <3>2. CASE j # i
      <4>1. cmd'[j] = cmd[j] /\ \A p : Open(j, p)' <=> Open(j, p)
        BY <1>0, <2>1, <2>3, <3>2 DEF Open, Row
      <4> QED
        BY <1>0, <4>1, HistoryFrame
    <3> QED
      BY <3>1, <3>2
  <2> QED
    BY <1>0, <1>5, <2>2, <2>3, QueueTakesFresh DEF RunsAreCounted
<1>6. CASE ReadCommands
  <2>1. pc = "pump" /\ pc' = "row"
    BY <1>6 DEF ReadCommands
  <2>2. ASSUME NEW i \in Cmds PROVE History(i)'
    <3>1. CASE cmd'[i] = cmd[i]
      BY <1>0, <2>1, <3>1, HistoryFrame DEF Open
    <3>2. CASE cmd'[i] = NoCmd
      <4>1. cmd'[i].st = "none" /\ cmd'[i].runs = 0 /\ cmd'[i].hits = 0
        BY <3>2 DEF NoCmd
      <4> QED
        BY <4>1 DEF History
    <3> QED
      BY <1>6, <3>1, <3>2 DEF ReadCommands
  <2> QED
    BY <2>2 DEF RunsAreCounted
<1>7. CASE RowStep
  <2>1. \A i \in Cmds : i # Row => cmd'[i] = cmd[i]
    BY <1>0, <1>7, RowSteps
  <2>2. pc' \in {"answer", "except"} => rows' = rows
    BY <1>7 DEF RowStep, PumpRow, Unavailable, MarkSent, Query, QueryRaises, Answered, NextRow,
                MarkFailed, TryRaises
  <2>3. ASSUME NEW i \in Cmds PROVE History(i)'
    <3>1. CASE i = Row
      BY <1>0, <1>7, <3>1, RowHistory
    <3>2. CASE i # Row
      BY <1>0, <2>1, <2>2, <3>2, OthersHistory
    <3> QED
      BY <3>1, <3>2
  <2> QED
    BY <2>3 DEF RunsAreCounted
<1>8. CASE Crash
  <2>1. ~PassRaises
    BY <1>8 DEF Crash, Restarted, PassRaises
  <2> QED
    BY <1>0, <1>8, <2>1, EndKeepsRuns
<1>9. CASE Stop
  BY <1>9, RunsFrame DEF Stop
<1>10. CASE WriteFails \/ StopRaises
  <2>1. CASE TryRaises
    BY <1>7, <2>1 DEF RowStep
  <2>2. CASE PassRaises /\ (pc \in InHand => pc = "except")
    BY <1>0, <2>2, EndKeepsRuns
  <2>3. CASE UNCHANGED <<config, archivists, pc, todo, chosen, rows, avail, cmd, asking, requests>>
    BY <2>3, RunsFrame
  <2> QED
    BY <1>10, <2>1, <2>2, <2>3 DEF WriteFails, StopRaises, InHand
<1> QED
  BY <1>1, <1>2, <1>3, <1>4, <1>5, <1>6, <1>7, <1>8, <1>9, <1>10
     DEF Next, Pumping, RowStep, PumpRow, Member, Fault

-----------------------------------------------------------------------------
(* The limit on commands under way.                                        *)

LEMMA LimitSets ==
  /\ IsFiniteSet(Pending) /\ Cardinality(Pending) \in Nat
  /\ IsFiniteSet(Asking) /\ Cardinality(Asking) \in Nat
  /\ Cardinality(Handlers) \in Nat /\ Cardinality(Asking) <= Cardinality(Handlers)
<1>1. IsFiniteSet(Cmds) /\ IsFiniteSet(Handlers)
  BY ManagerAssumption, FS_Interval DEF Cmds
<1>2. Pending \subseteq Cmds /\ Asking \subseteq Handlers
  BY DEF Pending, Asking
<1> QED
  BY <1>1, <1>2, FS_Subset, FS_CardinalityType

LEMMA LimitFrame ==
  ASSUME LimitHolds, Pending' \subseteq Pending, Asking' \subseteq Asking
  PROVE  LimitHolds'
<1>1. /\ Cardinality(Pending') \in Nat /\ Cardinality(Pending') <= Cardinality(Pending)
      /\ Cardinality(Asking') \in Nat /\ Cardinality(Asking') <= Cardinality(Asking)
  BY LimitSets, FS_Subset, FS_CardinalityType
<1> QED
  BY <1>1, LimitSets, ManagerAssumption DEF LimitHolds

LEMMA LimitInit == Init => LimitHolds
<1> SUFFICES ASSUME Init
             PROVE  LimitHolds
  OBVIOUS
<1>1. asking = [h \in Handlers |-> 0]
  BY DEF Init
<1>2. Asking = {}
  BY <1>1 DEF Asking
<1>3. Pending \subseteq {1}
  <2>1. CASE cmd = [j \in Cmds |-> NoCmd]
    BY <2>1 DEF NoCmd, Pending
  <2>2. ASSUME NEW n \in Nets,
               cmd = [j \in Cmds |-> IF j = 1 THEN [NoCmd EXCEPT !.st = "queued", !.net = n]
                                     ELSE NoCmd]
        PROVE  Pending \subseteq {1}
    BY <2>2 DEF NoCmd, Pending
  <2> QED
    BY <2>1, <2>2 DEF Init
<1>4. IsFiniteSet({1}) /\ Cardinality({1}) = 1
  BY FS_Singleton
<1>5. Cardinality(Asking) = 0 /\ Cardinality(Pending) <= 1
  <2>1. Cardinality(Pending) <= Cardinality({1})
    BY <1>3, <1>4, FS_Subset
  <2> QED
    BY <1>2, <1>4, <2>1, FS_EmptySet
<1>6. Cardinality(Handlers) >= 1
  BY LimitSets, ManagerAssumption, FS_EmptySet
<1> QED
  BY <1>5, <1>6, LimitSets, ManagerAssumption DEF LimitHolds

(* A handler that counted below the limit is one of the handlers.          *)
LEMMA AskKeepsLimit ==
  ASSUME CommandsTyped, NEW h \in Handlers, NEW n \in Nets, Ask(h, n)
  PROVE  LimitHolds'
<1>1. Cardinality(Pending) < PendingMax /\ Pending' = Pending
  BY DEF Ask, Pending
<1>2. /\ Cardinality(Pending') \in Nat /\ Cardinality(Asking') \in Nat
      /\ Cardinality(Asking') <= Cardinality(Handlers) /\ Cardinality(Handlers) \in Nat
  <2>1. Asking' \subseteq Handlers
    BY DEF Asking
  <2> QED
    BY <1>1, <2>1, LimitSets, ManagerAssumption, FS_Subset, FS_CardinalityType
<1> QED
  BY <1>1, <1>2, ManagerAssumption DEF LimitHolds

(* What it inserts was counted as asked for.                               *)
LEMMA QueueKeepsLimit ==
  ASSUME CommandsTyped, LimitHolds, NEW h \in Handlers, Queue(h)
  PROVE  LimitHolds'
<1>1. Asking' = Asking \ {h} /\ h \in Asking
  BY DEF Queue, Asking, CommandsTyped
<1>2. Cardinality(Asking \ {h}) = Cardinality(Asking) - 1
  BY <1>1, LimitSets, FS_RemoveElement
<1>3. CASE cmd' = cmd
  <2>1. Pending' \subseteq Pending /\ Asking' \subseteq Asking
    BY <1>1, <1>3 DEF Pending
  <2> QED
    BY <2>1, LimitFrame
<1>4. ASSUME NEW i \in Cmds,
             cmd' = [cmd EXCEPT ![i] = [NoCmd EXCEPT !.st = "queued", !.net = asking[h]]]
      PROVE  LimitHolds'
  <2>1. Pending' \subseteq Pending \cup {i}
    BY <1>4 DEF Pending, CommandsTyped
  <2>2. /\ IsFiniteSet(Pending \cup {i}) /\ Cardinality(Pending \cup {i}) \in Nat
        /\ Cardinality(Pending \cup {i}) <= Cardinality(Pending) + 1
    <3>1. IsFiniteSet(Pending)
      BY LimitSets
    <3>2. /\ IsFiniteSet(Pending \cup {i})
          /\ Cardinality(Pending \cup {i}) =
               IF i \in Pending THEN Cardinality(Pending) ELSE Cardinality(Pending) + 1
      BY <3>1, FS_AddElement
    <3> QED
      BY <3>2, LimitSets
  <2>3. Cardinality(Pending') \in Nat /\ Cardinality(Pending') <= Cardinality(Pending \cup {i})
    BY <2>1, <2>2, FS_Subset, FS_CardinalityType
  <2>4. Cardinality(Asking') = Cardinality(Asking) - 1
    BY <1>1, <1>2
  <2> QED
    BY <2>2, <2>3, <2>4, LimitSets, ManagerAssumption DEF LimitHolds
<1> QED
  BY <1>3, <1>4, QueueTakesFresh

(* Nobody else makes a command pending, or asks.                           *)
LEMMA LimitStep ==
  ASSUME Typed, RowsArePending, LimitHolds, [Next]_vars
  PROVE  LimitHolds'
<1>0. CommandsTyped
  BY DEF Typed
<1>1. CASE UNCHANGED <<cmd, asking>>
  BY <1>1, LimitFrame DEF Pending, Asking
<1>2. CASE UNCHANGED vars
  BY <1>1, <1>2 DEF vars
<1>3. CASE Owner \/ Thread \/ \E n \in Nets : ThreadDies(n)
  BY <1>1, <1>3 DEF Owner, AddNetwork, ToggleNetwork, DeleteNetwork, AddChannel, DeleteChannel,
                    ArchiveChannel, ImportChannel, Detach, Edit, Thread, ThreadRuns, ThreadDies
<1>4. CASE Starting \/ Syncing \/ PassBegins \/ RowsDone \/ Exit \/ Stop
  BY <1>1, <1>4 DEF Starting, Boot, BootNetworks, BootDone, StartReads, StartsThread, Syncing,
                    SyncReads, SyncStarts, SyncSkips, SyncWants, SyncResumes, PassBegins, RowsDone,
                    Exit, Restarted, Stop
<1>5. ASSUME NEW h \in Handlers, NEW n \in Nets, Ask(h, n) PROVE LimitHolds'
  BY <1>0, <1>5, AskKeepsLimit
<1>6. ASSUME NEW h \in Handlers, Queue(h) PROVE LimitHolds'
  BY <1>0, <1>6, QueueKeepsLimit
<1>7. CASE ReadCommands
  <2>1. asking' = asking /\ \A i \in Cmds : cmd'[i] \in {cmd[i], NoCmd}
    BY <1>7 DEF ReadCommands
  <2>2. Pending' \subseteq Pending
    BY <2>1 DEF Pending, NoCmd
  <2> QED
    BY <2>1, <2>2, LimitFrame DEF Asking
<1>8. CASE RowStep
  <2>1. asking' = asking
    BY <1>8 DEF RowStep, PumpRow, Unavailable, MarkSent, Query, QueryRaises, Answered, NextRow,
                MarkFailed, TryRaises, OnRow
  <2>2. rows # <<>> /\ Row \in Cmds /\ \A i \in Cmds : i # Row => cmd'[i] = cmd[i]
    BY <1>0, <1>8, RowSteps
  <2>3. cmd'[Row].st \in {"queued", "sent"} => Row \in Pending
    <3>1. Unavailable \/ MarkFailed \/ Answered => cmd'[Row].st \in {"failed", "done"}
      BY <1>0, <1>8, RowSteps DEF Became
    <3>2. MarkSent => cmd[Row].st \in {"queued", "sent"}
      BY <1>0, <2>2, RowTyped DEF MarkSent, OnRow, Stage
    <3>3. Query \/ QueryRaises \/ NextRow \/ TryRaises => cmd'[Row].st = cmd[Row].st
      BY <1>0, <1>8, RowSteps DEF Became
    <3> QED
      BY <1>8, <2>2, <3>1, <3>2, <3>3 DEF RowStep, PumpRow, Pending
  <2>4. Pending' \subseteq Pending
    BY <2>2, <2>3 DEF Pending
  <2> QED
    BY <2>1, <2>4, LimitFrame DEF Asking
<1>9. CASE PassRaises \/ Crash
  <2>1. asking' = asking
    BY <1>9 DEF PassRaises, Crash, Restarted
  <2>2. \A i \in Cmds : cmd'[i].st = cmd[i].st
    BY <1>0, <1>9, EndSteps DEF Became
  <2>3. Pending' = Pending
    BY <2>2 DEF Pending
  <2> QED
    BY <2>1, <2>3, LimitFrame DEF Asking
<1>10. CASE WriteFails \/ StopRaises
  BY <1>1, <1>8, <1>9, <1>10 DEF WriteFails, StopRaises, RowStep
<1> QED
  BY <1>2, <1>3, <1>4, <1>5, <1>6, <1>7, <1>8, <1>9, <1>10
     DEF Next, Pumping, RowStep, PumpRow, Member, Fault

-----------------------------------------------------------------------------
(* The theorems.                                                           *)

(* What the properties rest on: who has a slot, which rows are in hand,    *)
(* how often a command was run and who may still queue one.                *)
THEOREM ManagerInvariant == Spec => []IInv
<1>1. Init => IInv
  BY InitTyped, SlotsInit, RowsInit, RunsInit, LimitInit DEF IInv
<1>2. IInv /\ [Next]_vars => IInv'
  BY StepTyped, SlotsStep, RowsStep, RunsStep, LimitStep DEF IInv
<1> QED
  BY <1>1, <1>2, PTL DEF Spec

(* The state keeps its type.                                               *)
THEOREM TypeCorrect == Spec => []TypeOK
<1>1. IInv => TypeOK
  BY DEF IInv, Typed, ConfigTyped, SlotsTyped, Slot, MainTyped, Place, CommandsTyped, Command,
         CountersTyped, RowsArePending, TypeOK
<1> QED
  BY <1>1, ManagerInvariant, PTL

(* "Each gets exactly one always-on archivist connection": never two, for  *)
(* any networks and edits and however the threads interleave.              *)
THEOREM NeverTwoArchivists == Spec => []OneArchivistEach
<1>1. IInv => OneArchivistEach
  BY DEF IInv, SlotsAreKept
<1> QED
  BY <1>1, ManagerInvariant, PTL

(* The limit on a member's commands is missed by at most one for each      *)
(* handler that counted at the same time.                                  *)
THEOREM CommandsAreLimited == Spec => []PendingIsBounded
<1>1. IInv => PendingIsBounded
  BY LimitSets, ManagerAssumption DEF IInv, LimitHolds, PendingIsBounded
<1> QED
  BY <1>1, ManagerInvariant, PTL

(* A command is run at most once more than it was interrupted in hand, and *)
(* what it shows is what became of it.                                     *)
THEOREM CommandsAreRunOnce == Spec => []AnswerMatchesRun
<1>1. IInv => AnswerMatchesRun
  BY DEF IInv, RunsAreCounted, History, AnswerMatchesRun
<1> QED
  BY <1>1, ManagerInvariant, PTL

(* A command that was answered or failed is not touched again until it is  *)
(* deleted, although the passes read the table anew; only a shutdown that  *)
(* raises before its try is left turns an answer into an error.            *)
THEOREM FinishedStaysFinished == Spec => FinishedIsFinal
<1> DEFINE Final == \A i \in Cmds : cmd[i].st \in {"done", "failed"} =>
                      \/ cmd'[i].st = cmd[i].st \/ cmd'[i] = NoCmd
                      \/ Overwritten(i)
<1>1. IInv /\ [Next]_vars => [Final]_vars
  <2> SUFFICES ASSUME IInv, Next, NEW i \in Cmds, cmd[i].st \in {"done", "failed"}
               PROVE  cmd'[i].st = cmd[i].st \/ cmd'[i] = NoCmd \/ Overwritten(i)
    BY DEF IInv
  <2>0. CommandsTyped /\ RowsArePending
    BY DEF IInv, Typed
  <2>1. CASE Owner \/ Thread \/ \E n \in Nets : ThreadDies(n)
    BY <2>1 DEF Owner, AddNetwork, ToggleNetwork, DeleteNetwork, AddChannel, DeleteChannel,
                ArchiveChannel, ImportChannel, Detach, Edit, Thread, ThreadRuns, ThreadDies
  <2>2. CASE Starting \/ Syncing \/ PassBegins \/ RowsDone \/ Exit \/ Stop
    BY <2>2 DEF Starting, Boot, BootNetworks, BootDone, StartReads, StartsThread, Syncing,
                SyncReads, SyncStarts, SyncSkips, SyncWants, SyncResumes, PassBegins, RowsDone,
                Exit, Restarted, Stop
  <2>3. ASSUME NEW h \in Handlers, NEW n \in Nets, Ask(h, n) PROVE cmd'[i] = cmd[i]
    BY <2>3 DEF Ask
  <2>4. ASSUME NEW h \in Handlers, Queue(h) PROVE cmd'[i] = cmd[i]
    BY <2>0, <2>4, QueueTakesFresh DEF CommandsTyped
  <2>5. CASE ReadCommands
    BY <2>5 DEF ReadCommands
  <2>6. CASE RowStep
    <3>1. rows # <<>> /\ (i # Row => cmd'[i] = cmd[i])
      BY <2>0, <2>6, RowSteps
    <3>2. CASE i = Row
      <4>1. cmd[i].st \in Stage(pc)
        BY <2>0, <3>1, <3>2, RowTyped
      <4>2. cmd[i].st = "done" /\ pc \in {"finished", "except"}
        BY <4>1 DEF Stage
      <4>3. NextRow \/ TryRaises => cmd'[i].st = cmd[i].st
        BY <2>0, <2>6, <3>2, RowSteps DEF Became
      <4>4. MarkFailed => Overwritten(i)
        <5>1. MarkFailed => cmd'[i].st = "failed" /\ pc = "except"
          BY <2>0, <2>6, <3>2, RowSteps DEF Became, MarkFailed, OnRow
        <5> QED
          BY <2>0, <3>2, <4>2, <5>1 DEF RowsArePending, Overwritten
      <4>5. ~(Unavailable \/ MarkSent \/ Query \/ QueryRaises \/ Answered)
        BY <4>2 DEF Unavailable, MarkSent, Query, QueryRaises, Answered, OnRow
      <4> QED
        BY <2>6, <4>3, <4>4, <4>5 DEF RowStep, PumpRow
    <3> QED
      BY <3>1, <3>2
  <2>7. CASE PassRaises \/ Crash
    BY <2>0, <2>7, EndSteps DEF Became
  <2>8. CASE WriteFails \/ StopRaises
    BY <2>6, <2>7, <2>8 DEF WriteFails, StopRaises, RowStep
  <2> QED
    BY <2>1, <2>2, <2>3, <2>4, <2>5, <2>6, <2>7, <2>8
       DEF Next, Pumping, RowStep, PumpRow, Member, Fault
<1> QED
  BY <1>1, ManagerInvariant, PTL DEF Spec, FinishedIsFinal
=============================================================================
