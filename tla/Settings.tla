------------------------------ MODULE Settings ------------------------------
(***************************************************************************)
(* The reader of config.ini (src/settings/settings.c): an automaton that   *)
(* is fed one character at a time, so where a read of the file ends does   *)
(* not matter.  The names of the category and of the two settings are one  *)
(* character each, NUL is left out, and an address has OCTETS octets.      *)
(***************************************************************************)
EXTENDS Integers, Sequences, FiniteSetsExt, Functions

CONSTANTS
    Chars,              \* the characters the file is made of
    MaxLine,            \* bound: characters in a line
    BUFFER,             \* sizeof(state->buffer)
    OCTETS,             \* octets of an address, 4 in the code
    IntHalf             \* an int is in -IntHalf .. IntHalf - 1, IntHalf is 2^31 in the code

ASSUME SettingsAssumption ==
    /\ MaxLine \in Nat /\ BUFFER \in Nat \ {0}
    /\ OCTETS \in Nat \ {0} /\ IntHalf \in Nat \ {0}

\* network_settings: port is given no min and no max, so both are 0.
Settings_ == {"host_ip", "port"}
Name == [host_ip |-> <<"h">>, port |-> <<"p">>]
Type == [host_ip |-> "ip", port |-> "int"]
Limit == [min |-> 0, max |-> 0]
Default == [host_ip |-> 0, port |-> 0]

Blank == " "             \* or a tab
NoCategory == "none"
NoValue == "none"
Category(name) == IF name = <<"n">> THEN "network" ELSE NoCategory

VARIABLES
    category,           \* state->category
    value,              \* state->value
    mode,               \* state->state & 3: "text", "comment", "aborted", "category"
    space,              \* state->state & 4
    buffer,             \* the bufferLocation characters of state->buffer
    settings,           \* the variables that the settings are stored in
    line,               \* the characters of this line so far
    done                \* the end of the file was reached

settingsVars == <<category, value, mode, space, buffer, settings, line, done>>

SettingsInit ==
    /\ category = NoCategory
    /\ value = NoValue
    /\ mode = "text"
    /\ space = FALSE
    /\ buffer = << >>
    /\ settings = Default
    /\ line = << >>
    /\ done = FALSE

-----------------------------------------------------------------------------
(* settings_commit: the conversions.  Bad, which no text converts to, is   *)
(* the result for a text that is not accepted.                             *)

Bad == -2 * IntHalf
Digits == <<"0", "1", "2", "3", "4", "5", "6", "7", "8", "9", "a", "b", "c", "d", "e", "f">>
IsDigit(c, radix) == \E i \in 0 .. radix - 1 : Digits[i + 1] = c
DigitOf(c) == CHOOSE i \in 0 .. 15 : Digits[i + 1] = c
At(s, i) == IF i <= Len(s) THEN s[i] ELSE "end"
Sign(s) == IF At(s, 1) = "-" THEN -1 ELSE 1

Wrap(v) == ((v + IntHalf) % (2 * IntHalf)) - IntHalf

\* The value of the digits in s.
Number(s, radix) ==
    LET value_[i \in 0 .. Len(s)] == IF i = 0 THEN 0 ELSE Wrap(value_[i - 1] * radix + DigitOf(s[i]))
    IN  value_[Len(s)]

ParseInt(s) ==
    LET first == IF At(s, 1) \in {"+", "-"} THEN 2 ELSE 1
        radix == IF At(s, first) = "0" /\ At(s, first + 1) = "x" THEN 16
                 ELSE IF At(s, first) = "b" THEN 2
                 ELSE IF At(s, first) = "0" THEN 8 ELSE 10
        start == first + (CASE radix = 16 -> 2 [] radix \in {2, 8} -> 1 [] OTHER -> 0)
    IN  IF start > Len(s) \/ \E i \in start .. Len(s) : ~IsDigit(s[i], radix)
        THEN Bad
        ELSE Wrap(Sign(s) * Number(SubSeq(s, start, Len(s)), radix))

\* What is known of an address after some of its characters: the octet it is in, the octet's digits.
NoAddress == [ok |-> TRUE, octet |-> 1, digits |-> 0, address |-> 0]

\* A dot after the last octet is taken for one more octet, of 0, and ends the text.
OctetStep(r, c) ==
    IF ~r.ok \/ r.octet > OCTETS THEN r
    ELSE IF r.digits < 3 /\ IsDigit(c, 10)
    THEN [r EXCEPT !.digits = @ + 1,
                   !.address = ((@ \div 256) * 256) + (((@ % 256) * 10 + DigitOf(c)) % 256)]
    ELSE IF r.digits > 0 /\ c = "."
    THEN [r EXCEPT !.octet = @ + 1, !.digits = 0, !.address = (@ * 256) % (2 * IntHalf)]
    ELSE [r EXCEPT !.ok = FALSE]

\* The same after the first n characters of s.
Octets(s, n) ==
    LET read_[i \in 0 .. n] == IF i = 0 THEN NoAddress ELSE OctetStep(read_[i - 1], s[i])
    IN  read_[n]

ParseIp(s) ==
    LET r == Octets(s, Len(s))
    IN  IF r.ok /\ (r.octet > OCTETS \/ (r.octet = OCTETS /\ r.digits > 0)) THEN r.address ELSE Bad

Convert(s, text) ==
    IF Type[s] = "ip" THEN ParseIp(text)
    ELSE LET v == ParseInt(text)
         IN  IF v = Bad \/ v < Limit.min \/ v > Limit.max THEN Bad ELSE v

\* settings_commit
Commit ==
    settings' = IF value = NoValue \/ mode # "text" \/ Convert(value, buffer) = Bad
                THEN settings
                ELSE [settings EXCEPT ![value] = Convert(value, buffer)]

-----------------------------------------------------------------------------
(* settings_parseUpdate: one action for each kind of character. *)

Read(c) ==
    /\ ~done
    /\ c \in Chars
    /\ Len(line) < MaxLine
    /\ line' = Append(line, c)
    /\ UNCHANGED done

Abort == mode' = "aborted" /\ space' = FALSE

\* Mutant: the text before a comment is not committed.
Hash_NoCommit ==
    /\ Read("#")
    /\ CASE mode = "text"     -> mode' = "comment" /\ space' = FALSE
         [] mode = "category" -> Abort
         [] OTHER             -> UNCHANGED <<mode, space>>
    /\ UNCHANGED <<category, value, buffer, settings>>

Hash ==
    /\ Read("#")
    /\ CASE mode = "text"     -> Commit /\ mode' = "comment" /\ space' = FALSE
         [] mode = "category" -> Abort /\ UNCHANGED settings
         [] OTHER             -> UNCHANGED <<mode, space, settings>>
    /\ UNCHANGED <<category, value, buffer>>

\* Mutant: the value of the line before is still selected on the next line.
NewLine_KeepValue ==
    /\ ~done
    /\ IF mode = "text" THEN Commit ELSE UNCHANGED settings
    /\ mode' = "text"
    /\ space' = FALSE
    /\ buffer' = << >>
    /\ line' = << >>
    /\ UNCHANGED <<category, value, done>>

NewLine ==
    /\ ~done
    /\ IF mode = "text" THEN Commit ELSE UNCHANGED settings
    /\ value' = NoValue
    /\ mode' = "text"
    /\ space' = FALSE
    /\ buffer' = << >>
    /\ line' = << >>
    /\ UNCHANGED <<category, done>>

OpenBracket ==
    /\ Read("[")
    /\ IF buffer # << >> \/ value # NoValue \/ mode # "text"
       THEN Abort
       ELSE mode' = "category" /\ space' = FALSE
    /\ UNCHANGED <<category, value, buffer, settings>>

\* settings_parseCategory
CloseBracket ==
    /\ Read("]")
    /\ CASE mode = "category" -> /\ category' = Category(buffer)
                                 /\ mode' = "text"
                                 /\ space' = FALSE
                                 /\ buffer' = << >>
         [] mode = "text"     -> Abort /\ UNCHANGED <<category, buffer>>
         [] OTHER             -> UNCHANGED <<category, mode, space, buffer>>
    /\ UNCHANGED <<value, settings>>

Named(name) == {s \in Settings_ : Name[s] = name}

\* settings_parseName
Equals ==
    /\ Read("=")
    /\ CASE mode = "text" /\ category = NoCategory ->
                /\ Abort
                /\ UNCHANGED <<value, buffer>>
         [] mode = "text" /\ category # NoCategory ->
                /\ value' = IF Named(buffer) = {} THEN NoValue ELSE CHOOSE s \in Named(buffer) : TRUE
                /\ mode' = IF Named(buffer) = {} THEN "aborted" ELSE "text"
                /\ space' = FALSE
                /\ buffer' = << >>
         [] mode = "category" -> Abort /\ UNCHANGED <<value, buffer>>
         [] OTHER -> UNCHANGED <<value, mode, space, buffer>>
    /\ UNCHANGED <<category, settings>>

Space ==
    /\ Read(Blank)
    /\ CASE mode = "text" /\ buffer # << >> -> space' = TRUE /\ UNCHANGED mode
         [] mode = "category"               -> Abort
         [] OTHER                           -> UNCHANGED <<mode, space>>
    /\ UNCHANGED <<category, value, buffer, settings>>

Special == {"#", "[", "]", "=", Blank}

\* Mutant: the space is not counted when the room in the buffer is tested.
Text_NoRoom(c) ==
    /\ Read(c)
    /\ c \notin Special
    /\ LET text == IF space THEN <<Blank, c>> ELSE <<c>>
       IN  CASE mode \notin {"text", "category"} -> UNCHANGED <<mode, space, buffer>>
             [] mode \in {"text", "category"} /\ Len(buffer) < BUFFER - 1 ->
                    buffer' = buffer \o text /\ UNCHANGED <<mode, space>>
             [] OTHER -> Abort /\ UNCHANGED buffer
    /\ UNCHANGED <<category, value, settings>>

\* The space flag is left set: every later character gets a space too.
Text(c) ==
    /\ Read(c)
    /\ c \notin Special
    /\ LET text == IF space THEN <<Blank, c>> ELSE <<c>>
       IN  CASE mode \notin {"text", "category"} -> UNCHANGED <<mode, space, buffer>>
             [] mode \in {"text", "category"} /\ Len(buffer) + Len(text) < BUFFER ->
                    buffer' = buffer \o text /\ UNCHANGED <<mode, space>>
             [] OTHER ->
                    /\ buffer' = buffer \o SubSeq(text, 1, BUFFER - 1 - Len(buffer))
                    /\ Abort
    /\ UNCHANGED <<category, value, settings>>

\* settings_load at the end of the file.  A read that fails is not modelled: its -1 is taken for a length.
EndOfFile ==
    /\ ~done
    /\ done' = TRUE
    /\ IF mode = "text" THEN Commit ELSE UNCHANGED settings
    /\ UNCHANGED <<category, value, mode, space, buffer, line>>

SettingsNext ==
    \/ Hash \/ NewLine \/ OpenBracket \/ CloseBracket \/ Equals \/ Space
    \/ \E c \in Chars : Text(c)
    \/ EndOfFile

SettingsSpec == SettingsInit /\ [][SettingsNext]_settingsVars

-----------------------------------------------------------------------------
(* Properties *)

Texts == Seq(Chars)

\* Type invariant.
SettingsTypeOK ==
    /\ category \in {NoCategory, "network"}
    /\ value \in Settings_ \cup {NoValue}
    /\ mode \in {"text", "comment", "aborted", "category"}
    /\ space \in BOOLEAN
    /\ buffer \in Texts /\ Len(buffer) < BUFFER
    /\ settings \in [Settings_ -> Int]
    /\ line \in Texts /\ Len(line) <= MaxLine
    /\ done \in BOOLEAN

\* A text without the blanks at its ends.
Strip(s) ==
    LET ink == {i \in 1 .. Len(s) : s[i] # Blank}
    IN  IF ink = {} THEN << >> ELSE SubSeq(s, Min(ink), Max(ink))

\* The line, up to a comment, is "name = text" and nothing else.
Assigns(s, text) ==
    \E i \in 1 .. Len(line) :
        /\ line[i] = "="
        /\ Strip(SubSeq(line, 1, i - 1)) = Name[s]
        /\ Strip(SubSeq(line, i + 1, Len(line))) = text
        /\ Range(text) \cap Special = {}
        /\ Len(text) < BUFFER

LineEnds == line' = << >> \/ line' = Append(line, "#") \/ done'

(***************************************************************************)
(* In a known category a line "host_ip = address", with any blanks and     *)
(* with or without a comment, sets the address when the line ends.         *)
(***************************************************************************)
AddressHonoured ==
    [][\A k \in 1 .. MaxLine :
          LET text == Strip(SubSeq(line, k, Len(line)))
          IN  LineEnds /\ ~done /\ category # NoCategory /\ Assigns("host_ip", text)
                  /\ ParseIp(text) # Bad
              => settings'["host_ip"] = ParseIp(text)]_settingsVars

(***************************************************************************)
(* A setting only changes when a line ends that has its name, "=" and the  *)
(* text of the new value in this order, outside a comment.                 *)
(***************************************************************************)
OnlyAssignments ==
    [][\A s \in Settings_ : settings'[s] # settings[s] =>
          /\ LineEnds
          /\ "#" \notin Range(line)
          /\ \E i, j \in 1 .. Len(line) :
                /\ i < j /\ line[j] = "="
                /\ "=" \notin Range(SubSeq(line, j + 1, Len(line)))
                /\ SubSeq(line, i, i) = Name[s]
                /\ Range(SubSeq(line, i + 1, j - 1)) \subseteq {Blank}
                /\ Convert(s, Strip(SubSeq(line, j + 1, Len(line)))) = settings'[s]]_settingsVars

(***************************************************************************)
(* "All settings, including host IP and port, should be set manually in    *)
(* the ... config.ini file." (main.c): the same for the port.              *)
(***************************************************************************)
PortHonoured ==
    [][\A k \in 1 .. MaxLine :
          LET text == Strip(SubSeq(line, k, Len(line)))
          IN  LineEnds /\ ~done /\ category # NoCategory /\ Assigns("port", text)
                  /\ ParseInt(text) # Bad
              => settings'["port"] = ParseInt(text)]_settingsVars

=============================================================================
