------------------------------ MODULE TextPath ------------------------------
(***************************************************************************)
(* The way of a title from the adapter into a status message: cb_timeout   *)
(* trims it, takes out what cannot be printed and, if told to, the words   *)
(* on the user's list; generate_status then puts the fields into a format. *)
(* Texts are sequences of characters, or of tokens standing for a text of  *)
(* which only the place matters.                                           *)
(***************************************************************************)
EXTENDS Integers, Sequences, SequencesExt

CONSTANTS
  Titles,       \* what players report
  Lists,        \* word lists of the preferences, split at their commas
  Masks,        \* mask characters
  Patterns,     \* status formats
  Artists,      \* artists, as the filters leave them
  SavedTexts,   \* status messages selected through the UI
  Clocks,       \* << currentSecs, totalSecs >>
  Letters,      \* characters that are part of a word
  Lower,        \* the lower case of those that have one
  Bytes         \* how many bytes each unprintable character has

ASSUME TextPathAssumption ==
  /\ \A t \in Titles \cup Patterns \cup Artists \cup SavedTexts : t \in Seq(Range(t))
  /\ \A l \in Lists : l \in Seq(Range(l)) /\ \A e \in Range(l) : e \in Seq(Range(e))
  /\ \A c \in Clocks : c[1] \in Nat /\ c[2] \in Int
  /\ \A c \in DOMAIN Bytes : Bytes[c] \in Nat
  /\ \A m \in Masks : m \notin DOMAIN Bytes

VARIABLES
  place,    \* the function the title is in, "exited" when the program is gone
  text,     \* ti.track
  mask,     \* the mask character of the preferences
  list,     \* filter_profanity: the words
  entry,    \* filter_profanity: the one at p
  given,    \* filter_profanity: the text it was called with
  request,  \* generate_status: what it was called with beside the title
  status,   \* generate_status: its buffer
  field     \* generate_status: the field that is put in next

vars == << place, text, mask, list, entry, given, request, status, field >>

-----------------------------------------------------------------------------
(***************************************************************************)
(* utils.c and filter.c                                                    *)
(***************************************************************************)

(* Spaces at both ends go, other blanks stay.                              *)
trim(t) ==
  LET Solid == {i \in 1 .. Len(t) : t[i] # " "}
  IN IF Solid = {} THEN << >> ELSE SubSeq(t, Min(Solid), Max(Solid))

(* Every byte of an unprintable character becomes a mask.                  *)
filter_printable(t) ==
  FlattenSeq([i \in 1 .. Len(t) |->
    IF t[i] \in DOMAIN Bytes THEN [b \in 1 .. Bytes[t[i]] |-> mask] ELSE << t[i] >>])

Fold(c) == IF c \in DOMAIN Lower THEN Lower[c] ELSE c

InWord(t, i) == i \in 1 .. Len(t) /\ t[i] \in Letters

(* \b before position i                                                    *)
Boundary(t, i) == InWord(t, i - 1) # InWord(t, i)

(* Where the pattern \b(e)\b matches, whatever the case.                   *)
Occurrences(e, t) ==
  {i \in 1 .. Len(t) - Len(e) + 1 :
     /\ Boundary(t, i) /\ Boundary(t, i + Len(e))
     /\ \A k \in 1 .. Len(e) : Fold(t[i + k - 1]) = Fold(e[k])}

(* Mutant of Masked: the last character of the word is left.               *)
Masked_short(t, first, length) ==
  [i \in 1 .. Len(t) |-> IF i \in first .. first + length - 2 THEN mask ELSE t[i]]

Masked(t, first, length) ==
  [i \in 1 .. Len(t) |-> IF i \in first .. first + length - 1 THEN mask ELSE t[i]]

(* An entry is taken for a regular expression; one with an open            *)
(* parenthesis is none.  All others are words that stand for themselves    *)
(* here; the operators of expressions are not modelled.                    *)
IllFormed(e) == "(" \in Range(e)

(* Mutant of put_field: the identifier is copied after its field.          *)
put_field_kept(buf, identifier, value) ==
  LET rest[i \in 1 .. Len(buf) + 1] ==
        IF i > Len(buf) THEN << >>
        ELSE IF i < Len(buf) /\ buf[i] = "%" /\ buf[i + 1] = identifier
             THEN value \o rest[i + 1]
             ELSE << buf[i] >> \o rest[i + 1]
  IN rest[1]

put_field(buf, identifier, value) ==
  LET rest[i \in 1 .. Len(buf) + 1] ==
        IF i > Len(buf) THEN << >>
        ELSE IF i < Len(buf) /\ buf[i] = "%" /\ buf[i + 1] = identifier
             THEN value \o rest[i + 2]
             ELSE << buf[i] >> \o rest[i + 1]
  IN rest[1]

-----------------------------------------------------------------------------
(***************************************************************************)
(* generate_status                                                         *)
(***************************************************************************)
Identifiers == << "p", "a", "t", "r", "d", "c", "b", "m", "s" >>

(* floor(currentSecs * 10.0 / totalSecs)                                   *)
Progress(c) ==
  IF c[2] = 0 THEN 0
  ELSE IF c[2] > 0 THEN (10 * c[1]) \div c[2] ELSE (-10 * c[1]) \div (-c[2])

(* A negative progress puts the mark before the buffer; what it overwrites *)
(* there is left open.                                                     *)
Bar(c) ==
  LET at == IF Progress(c) >= 10 THEN 9 ELSE Progress(c)
  IN [i \in 1 .. 10 |-> IF i = at + 1 THEN "|" ELSE "-"]

Value(identifier) ==
  CASE identifier = "p" -> request.artist
    [] identifier = "t" -> text
    [] identifier = "b" -> Bar(request.clock)
    [] identifier = "s" -> request.saved
    [] identifier = "a" -> << "album" >>
    [] identifier = "r" -> << "player" >>
    [] identifier = "d" -> << "duration" >>
    [] identifier = "c" -> << "elapsed" >>
    [] identifier = "m" -> << "note" >>

-----------------------------------------------------------------------------
(***************************************************************************)
(* The path.                                                               *)
(***************************************************************************)
NoRequest == [format |-> << >>, artist |-> << >>, saved |-> << >>, clock |-> << 0, 0 >>]

Init ==
  /\ place = "trim"
  /\ text \in Titles
  /\ mask \in Masks
  /\ list = << >>
  /\ entry = 1
  /\ given = << >>
  /\ request = NoRequest
  /\ status = << >>
  /\ field = 1

Trim ==
  /\ place = "trim"
  /\ text' = trim(text)
  /\ place' = "printable"
  /\ UNCHANGED << mask, list, entry, given, request, status, field >>

FilterPrintable ==
  /\ place = "printable"
  /\ text' = filter_printable(text)
  /\ place' = "printed"
  /\ UNCHANGED << mask, list, entry, given, request, status, field >>

(* filter_profanity is called if the user has switched it on.              *)
filter_profanity ==
  /\ place = "printed"
  /\ \E l \in Lists : list' = l
  /\ given' = text
  /\ place' = "profanity"
  /\ UNCHANGED << text, mask, entry, request, status, field >>

FilterIsOff ==
  /\ place = "printed"
  /\ place' = "format"
  /\ UNCHANGED << text, mask, list, entry, given, request, status, field >>

Word == list[entry]
AtWord == place = "profanity" /\ entry <= Len(list)

(* regex ends the program when a pattern does not compile.                 *)
ExitsOnPattern ==
  /\ AtWord
  /\ IllFormed(Word)
  /\ place' = "exited"
  /\ UNCHANGED << text, mask, list, entry, given, request, status, field >>

MasksWord ==
  /\ AtWord
  /\ ~ IllFormed(Word)
  /\ Word # << >> /\ Occurrences(Word, text) # {}
  /\ text' = Masked(text, Min(Occurrences(Word, text)), Len(Word))
  /\ UNCHANGED << place, mask, list, entry, given, request, status, field >>

(* Mutant of NextWord: the first match is enough.                          *)
NextWord_once ==
  /\ AtWord
  /\ ~ IllFormed(Word)
  /\ Word = << >> \/ Occurrences(Word, text) = {} \/ text # given
  /\ entry' = entry + 1
  /\ UNCHANGED << place, text, mask, list, given, request, status, field >>

NextWord ==
  /\ AtWord
  /\ ~ IllFormed(Word)
  /\ Word = << >> \/ Occurrences(Word, text) = {}
  /\ entry' = entry + 1
  /\ UNCHANGED << place, text, mask, list, given, request, status, field >>

(* The list is freed, and the title on its way.                            *)
LastWord ==
  /\ place = "profanity"
  /\ entry > Len(list)
  /\ place' = "format"
  /\ list' = << >>
  /\ entry' = 1
  /\ given' = << >>
  /\ UNCHANGED << text, mask, request, status, field >>

generate_status ==
  /\ place = "format"
  /\ \E f \in Patterns, a \in Artists, s \in SavedTexts, c \in Clocks :
       /\ request' = [format |-> f, artist |-> a, saved |-> s, clock |-> c]
       /\ status' = f
  /\ field' = 1
  /\ place' = "fields"
  /\ UNCHANGED << text, mask, list, entry, given >>

PutsField ==
  /\ place = "fields"
  /\ field <= Len(Identifiers)
  /\ status' = put_field(status, Identifiers[field], Value(Identifiers[field]))
  /\ field' = field + 1
  /\ UNCHANGED << place, text, mask, list, entry, given, request >>

Next ==
  \/ Trim
  \/ FilterPrintable
  \/ filter_profanity
  \/ FilterIsOff
  \/ ExitsOnPattern
  \/ MasksWord
  \/ NextWord
  \/ LastWord
  \/ generate_status
  \/ PutsField

Spec == Init /\ [][Next]_vars

(* The functions are called one after the other in one callback.           *)
FairSpec == Spec /\ WF_vars(Next)

(***************************************************************************)
(* Properties.                                                             *)
(***************************************************************************)

(* The mask is one of the characters of the list.                          *)
MaskListed == \E e \in Range(list) : \E c \in Range(e) : Fold(c) = Fold(mask)

(* "Filters out all black-listed words", and "whole words only": when the  *)
(* filter is through, no listed word is left standing for itself, in any   *)
(* case, next to any other or next to a mask that is itself a letter; and  *)
(* nothing has changed but characters of such words.                       *)
CensorsWholeWords ==
  place = "profanity" /\ entry > Len(list) /\ ~ MaskListed =>
    /\ \A e \in Range(list) \ {<< >>} : Occurrences(e, text) = {}
    /\ Len(text) = Len(given)
    /\ \A i \in 1 .. Len(text) : text[i] # given[i] =>
         \E e \in Range(list) : \E o \in Occurrences(e, given) : i \in o .. o + Len(e) - 1

(* The loop over the matches ends, unless a word consists of masks: then   *)
(* the masked word matches again.  That is of entries which are words: an  *)
(* expression that matches the empty string, like a*, matches at the edge  *)
(* of a word for ever, too, and there is none in Lists.                    *)
MasksOnly(e) == e # << >> /\ \A c \in Range(e) : Fold(c) = Fold(mask)

FilterEnds ==
  (place = "profanity" /\ ~ \E e \in Range(list) : MasksOnly(e)) ~> (place # "profanity")

(* The reference: all fields at once, and a bar of ten with its mark at    *)
(* the last tenth that has begun, the first if the length is not known.    *)
TenthBegun(c) ==
  IF c[2] <= 0 THEN 0 ELSE Max({k \in 0 .. 9 : k * c[2] <= 10 * c[1]})

Meant(identifier) ==
  IF identifier = "b"
  THEN [i \in 1 .. 10 |-> IF i = TenthBegun(request.clock) + 1 THEN "|" ELSE "-"]
  ELSE Value(identifier)

Replaced(format) ==
  LET from[i \in 1 .. Len(format) + 1] ==
        IF i > Len(format) THEN << >>
        ELSE IF i < Len(format) /\ format[i] = "%" /\ format[i + 1] \in Range(Identifiers)
             THEN Meant(format[i + 1]) \o from[i + 2]
             ELSE << format[i] >> \o from[i + 1]
  IN from[1]

(* Nothing but the format's own fields looks like one.                     *)
Unambiguous ==
  /\ \A k \in Range(Identifiers) : "%" \notin Range(Value(k))
  /\ \A i \in 1 .. Len(request.format) :
       request.format[i] = "%" => /\ i < Len(request.format)
                                  /\ request.format[i + 1] \in Range(Identifiers)

(* Nine passes over a buffer that already holds the fields of the passes   *)
(* before give what one replacement of all fields would, as long as no     *)
(* text brings a per cent sign along; and for every position in a track of *)
(* known length, also one past its end, and at the start of a stream, the  *)
(* bar has its mark.                                                       *)
FieldsInPlace ==
  place = "fields" /\ field > Len(Identifiers) /\ Unambiguous
    /\ (request.clock[2] >= 0 \/ request.clock[1] = 0)
      => status = Replaced(request.format)
=============================================================================
