--------------------------- MODULE ArchivePromise ---------------------------
(***************************************************************************)
(* What the archive is for those who search it: for each channel a bag of  *)
(* the lines that were said there.  A line enters it one at a time, as it  *)
(* is said, or with a log, and a log never makes two of one: the bag is    *)
(* raised to what the log has.  Storage shows how the live process and the *)
(* imports implement it.                                                   *)
(***************************************************************************)
EXTENDS Integers

CONSTANTS Names, Lines

VARIABLES
  said,      \* how often each line was said in each channel
  kept,      \* how often the archive has it, by channel, channel of origin and line
  imported,  \* how often a log has had it
  ahead,     \* a log was ahead of the archivist, or a channel was deleted
  holes,     \* the lines of which one was dropped
  lost       \* the channels of which nothing is promised any more

pvars == <<said, kept, imported, ahead, holes, lost>>

Nobody == [c \in Names |-> [l \in Lines |-> 0]]
PInit == /\ said = Nobody /\ imported = Nobody
         /\ kept = [c \in Names |-> [k \in Names \X Lines |-> 0]]
         /\ ahead = FALSE /\ holes = {} /\ lost = {}

(* Somebody says a line.                                                   *)
PSay(c, l) == /\ said' = [said EXCEPT ![c][l] = @ + 1]
              /\ UNCHANGED <<kept, imported, ahead, holes, lost>>

(* The archivist records one under the channel it was said in.             *)
PRecord(c, l) ==
  /\ c \notin lost /\ ~ahead => kept[c][<<c, l>>] < said[c][l]
  /\ \A d \in Names \ lost, k \in Names \X Lines :
       kept'[d][k] = IF d = c /\ k = <<c, l>> THEN kept[d][k] + 1 ELSE kept[d][k]
  /\ UNCHANGED <<said, imported, ahead, holes, lost>>

(* Logs are imported, and the archive has each line as often as one of     *)
(* them, or as it had.  Numbers that were dropped are made up for.         *)
Merged(c, l) ==
  LET before == kept[c][<<c, l>>]
      after == kept'[c][<<c, l>>]
      log == imported'[c][l] IN
  /\ after >= before /\ after >= log
  /\ <<c, l>> \notin holes => after \in {before, log}
  /\ log = imported[c][l] => after = before
  /\ ~ahead => after <= said[c][l]

PImport ==
  /\ \A c \in Names, l \in Lines : imported'[c][l] >= imported[c][l]
  /\ \A c \in Names \ lost, k \in Names \X Lines :
       IF k[1] = c THEN Merged(c, k[2]) ELSE kept'[c][k] = kept[c][k]
  /\ UNCHANGED <<said, ahead, holes, lost>>

(* A line is dropped, a log is ahead of the archivist, a channel deleted.  *)
PExcuse ==
  /\ holes \subseteq holes' /\ lost \subseteq lost' /\ (ahead => ahead')
  /\ \A c \in Names \ lost' : kept'[c] = kept[c]
  /\ UNCHANGED <<said, imported>>

PNext == \/ \E c \in Names, l \in Lines : PSay(c, l) \/ PRecord(c, l)
         \/ PImport \/ PExcuse

PSpec == PInit /\ [][PNext]_pvars
=============================================================================
