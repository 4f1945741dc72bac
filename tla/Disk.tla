-------------------------------- MODULE Disk --------------------------------
(***************************************************************************)
(* What libfat's cache promises to the file system: a card whose sectors   *)
(* can be read and written, with the reply of the last call.  Writes may   *)
(* reach the card in any order until a flush; a loss of power brings back  *)
(* what has reached it.                                                    *)
(***************************************************************************)
EXTENDS Integers, Sequences

CONSTANTS Sectors, Values

VARIABLES
    content,            \* what the file system has written
    card,               \* what is on the card
    reply               \* of the last call: whether it succeeded, and what was read

diskVars == <<content, card, reply>>

\* The card takes over some sectors of c.
Reaches(c) ==
    /\ card' \in [Sectors -> Values]
    /\ \A s \in Sectors : card'[s] \in {card[s], c[s]}

DiskInit ==
    /\ card \in [Sectors -> Values]
    /\ content = card
    /\ reply = [ok |-> TRUE, read |-> << >>]

Done(read) == reply' = [ok |-> TRUE, read |-> read]

\* A call that fails changes nothing.
Fail ==
    /\ reply' = [ok |-> FALSE, read |-> << >>]
    /\ Reaches(content)
    /\ UNCHANGED content

Read(from, to) ==
    /\ Len(reply'.read) = to - from + 1
    /\ Done([i \in 1 .. to - from + 1 |-> content[from + i - 1]])
    /\ Reaches(content)
    /\ UNCHANGED content

Write(from, to, v) ==
    /\ Done(<< >>)
    /\ content' = [s \in Sectors |-> IF from <= s /\ s <= to THEN v ELSE content[s]]
    /\ Reaches(content)

\* After a flush that succeeds nothing can be lost.
Flush ==
    /\ Done(<< >>)
    /\ card' = content
    /\ UNCHANGED content

LosePower ==
    /\ Done(<< >>)
    /\ UNCHANGED card
    /\ content' = card

DiskNext ==
    \/ \E from, to \in Sectors : from <= to /\ (Read(from, to) \/ \E v \in Values : Write(from, to, v))
    \/ Flush
    \/ Fail
    \/ LosePower

DiskSpec == DiskInit /\ [][DiskNext]_diskVars
=============================================================================
