------------------------------- MODULE Formatter -------------------------------
(***************************************************************************)
(* Inverse text normalisation (src/itn/formatter.cc, src/itn/converters.cc)*)
(* The recognized words become a byte string in which each word ends in a  *)
(* space that carries the word's time; the rewrite grammar maps the string *)
(* to another; and Convert() cuts that at its spaces into words again and  *)
(* works out their times from the weights it passes.                       *)
(*                                                                         *)
(* The composition of the two leaves one path.  The grammar, which is a    *)
(* file, writes the path an arc at a time, and Convert() reads each arc as *)
(* it is written.  An arc is what it takes from the recognized words, the  *)
(* bytes of a word ("bytes"), its space ("space") or nothing ("eps"), and  *)
(* what it puts out: a text, which may be empty, or a space.  Consecutive  *)
(* arcs that put out text count as one.                                    *)
(***************************************************************************)
EXTENDS TimingWeight, Sequences

CONSTANTS
  Texts,    \* what an arc can put out, the empty sequence included
  MaxEarly  \* bound: early spaces within a word

ASSUME FormatterAssumption ==
  <<>> \in Texts /\ (\A t \in Texts : t \in Seq(STRING)) /\ MaxEarly \in Nat

VARIABLES
  words,       \* the recognized words: the interval of time of each
  place,       \* of the path: before a word, in it, or in it behind an early space
  n_taken,     \* words whose space has been taken
  n_early,     \* early spaces within the word
  word_alis, current_ali, current_weight, last_ali_missing_time,  \* of Convert()
  last_taken,  \* history: for each word put out, the last recognized word it is from
  first_missed \* history: the first recognized word that Convert() cannot time, 0 if none

path_vars == <<words, place, n_taken, n_early, first_missed>>
convert_vars == <<word_alis, current_ali, current_weight, last_ali_missing_time, last_taken>>
format_vars == <<path_vars, convert_vars>>

FormatInit ==
  /\ words = <<>> /\ place = "off" /\ n_taken = 0 /\ n_early = 0
  /\ word_alis = <<>> /\ current_ali = <<>> /\ current_weight = One
  /\ last_ali_missing_time = FALSE /\ last_taken = <<>> /\ first_missed = 0

\* FormatWords(): the words become the byte FST.
StartFormat(alis) ==
  /\ words' = alis /\ place' = "before"
  /\ UNCHANGED <<n_taken, n_early, first_missed, convert_vars>>
-------------------------------------------------------------------------------
\* Convert(): the body of its loop, for an arc with this weight

Accumulated(weight) ==
  IF weight = One THEN current_weight
  ELSE IF current_weight = One THEN weight ELSE Times(current_weight, weight)

\* A space ends the word; "upto" is the last recognized word it is from.
ConvertSpace(weight, upto) ==
  /\ word_alis' = Append(word_alis, [text |-> current_ali, weight |-> Accumulated(weight)])
  /\ last_ali_missing_time' = (last_ali_missing_time \/ Accumulated(weight) = One)
  /\ current_ali' = <<>> /\ current_weight' = One
  /\ last_taken' = Append(last_taken, upto)

\* Seeded fault: a weight that arrives late is left to the next word.
ConvertTextNotBack(weight, text) ==
  /\ current_ali' = current_ali \o text
  /\ current_weight' = Accumulated(weight)
  /\ UNCHANGED <<word_alis, last_ali_missing_time, last_taken>>

\* Anything else: a weight that is met while the last word has none is that word's.
ConvertText(weight, text) ==
  /\ current_ali' = current_ali \o text
  /\ IF last_ali_missing_time /\ Accumulated(weight) # One
       THEN /\ word_alis' = [word_alis EXCEPT ![Len(word_alis)].weight = Accumulated(weight)]
            /\ current_weight' = One /\ last_ali_missing_time' = FALSE
       ELSE /\ current_weight' = Accumulated(weight)
            /\ UNCHANGED <<word_alis, last_ali_missing_time>>
  /\ UNCHANGED last_taken
-------------------------------------------------------------------------------
\* The path.  As FormatterConfig asks, output follows the input it belongs to and comes
\* before the next input.

\* Convert() takes the weight that comes next to be the one of a word that has none.  A
\* grammar can end a word where that is wrong: while a weight is held that is not all of
\* it, or where more of the same recognized word follows, whose weight is behind that.
Misses(wrong) == first_missed' = IF wrong /\ first_missed = 0 THEN n_taken + 1 ELSE first_missed

\* The bytes of the next word.
TakeBytes(text) ==
  /\ place = "before" /\ n_taken < Len(words)
  /\ ConvertText(One, text)
  /\ place' = "within" /\ n_early' = 0
  /\ UNCHANGED <<words, n_taken, first_missed>>

\* More output of the same word behind an early space.
PutText(text) ==
  /\ place = "late" /\ text # <<>>
  /\ ConvertText(One, text)
  /\ place' = "within"
  /\ Misses(TRUE)
  /\ UNCHANGED <<words, n_taken, n_early>>

\* A space before the word's own: it comes early, or one word is rewritten to several.
PutSpace ==
  /\ place \in {"within", "late"} /\ n_early < MaxEarly
  /\ ConvertSpace(One, n_taken + 1)
  /\ place' = "late" /\ n_early' = n_early + 1
  /\ Misses(place = "late" \/ current_weight # One)
  /\ UNCHANGED <<words, n_taken>>

\* The word's space is taken, with its weight, and put out.
TakeSpace ==
  /\ place \in {"within", "late"}
  /\ ConvertSpace(words[n_taken + 1], n_taken + 1)
  /\ n_taken' = n_taken + 1 /\ place' = "before"
  /\ Misses(place = "late")
  /\ UNCHANGED <<words, n_early>>

\* It is taken and not put out: the word is joined to the next, or deleted.  The string
\* ends in a space, if anything is put out at its end.
DropSpace ==
  /\ place \in {"within", "late"}
  /\ n_taken + 1 = Len(words) => current_ali = <<>>
  /\ ConvertText(words[n_taken + 1], <<>>)
  /\ n_taken' = n_taken + 1 /\ place' = "before"
  /\ UNCHANGED <<words, n_early, first_missed>>

Format ==
  \/ \E text \in Texts : TakeBytes(text) \/ PutText(text)
  \/ PutSpace \/ TakeSpace \/ DropSpace

Formatted == place = "before" /\ n_taken = Len(words)
-------------------------------------------------------------------------------
\* Properties

FormatType ==
  /\ words \in Seq(Weights) /\ place \in {"off", "before", "within", "late"}
  /\ n_taken \in 0 .. Len(words) /\ n_early \in Nat
  /\ word_alis \in Seq([text: Seq(STRING), weight: Weights])
  /\ current_ali \in Seq(STRING) /\ current_weight \in Weights
  /\ last_ali_missing_time \in BOOLEAN /\ last_taken \in Seq(Nat) /\ first_missed \in Nat

\* The recognized words that the i-th word put out is from.
FirstOf(i) == IF i = 1 THEN 1 ELSE last_taken[i - 1] + 1
LastOf(i) == last_taken[i]

\* It is put out before the first word that Convert() cannot time.
BeforeMissed(i) == first_missed = 0 \/ LastOf(i) < first_missed

\* The time of a word put out is from the start of the first to the end of the last
\* recognized word that it is rewritten from, words deleted before it included, although
\* the weights reach Convert() with the spaces, on either side of the word.  That holds up
\* to the first word that is split where Convert() cannot time the parts (Convert).
TimesAreHulls ==
  \A i \in 1 .. Len(word_alis) :
    (i < Len(word_alis) \/ place # "late") /\ BeforeMissed(i) =>
      /\ FirstOf(i) <= LastOf(i)
      /\ word_alis[i].weight = Weight(words[FirstOf(i)].start, words[LastOf(i)].end)

\* formatter.h: The time synchronization is preserved.  A word that is put out has a
\* time when Convert() returns.
WordsAreTimed ==
  Formatted => \A i \in 1 .. Len(word_alis) : word_alis[i].weight # One
===============================================================================
