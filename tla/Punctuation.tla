----------------------------- MODULE Punctuation -----------------------------
(***************************************************************************)
(* Word pieces and punctuation (src/itn/wordpiece.cc, src/itn/             *)
(* punctuation.cc).  A word is cut greedily into pieces of a vocabulary,   *)
(* pieces that go on with a word are marked "##", the network predicts a   *)
(* punctuation mark for each piece, and the mark of the first piece of a   *)
(* word is the word's.  The network is outside the program: the marks it   *)
(* predicts are left open.                                                 *)
(*                                                                         *)
(* The module keeps no variables.  Words are sequences of letters, "#"     *)
(* among them, for the algorithm tells pieces apart by their spelling.     *)
(***************************************************************************)
EXTENDS Integers, Sequences, SequencesExt

CONSTANTS
  Vocab,         \* the word pieces of the vocabulary
  UnkToken,      \* unk_token, which need not be one of them
  MaxWordChars   \* max_input_chars_per_word

ASSUME PunctuationAssumption == MaxWordChars \in Int /\ UnkToken \in Seq(STRING)
-------------------------------------------------------------------------------
\* WordPieceTokenizer

Mark == <<"#", "#">>

\* Seeded fault: pieces inside a word are looked up without the mark.
SubstrUnmarked(token, start, end) == SubSeq(token, start + 1, end)

Substr(token, start, end) ==
  (IF start > 0 THEN Mark ELSE <<>>) \o SubSeq(token, start + 1, end)

\* The longest piece of the vocabulary at this place, by where it ends.
PieceEnds(token, start) == {end \in start + 1 .. Len(token) : Substr(token, start, end) \in Vocab}
LongestEnd(token, start) ==
  CHOOSE end \in PieceEnds(token, start) : \A e \in PieceEnds(token, start) : e <= end

\* The pieces from each place on, up to one at which none fits.
PiecesFrom(token) ==
  LET Rest[start \in 0 .. Len(token)] ==
        IF start = Len(token) THEN <<>>
        ELSE IF PieceEnds(token, start) = {} THEN <<<<>>>>
        ELSE <<Substr(token, start, LongestEnd(token, start))>>
               \o Rest[LongestEnd(token, start)]
  IN Rest

\* The body of the loop over words of Tokenize(): a word that is too long, or has a
\* place at which no piece fits, is unknown; an empty word has no piece.
WordPieces(token) ==
  IF Len(token) > MaxWordChars \/ <<>> \in Range(PiecesFrom(token)[0])
    THEN <<UnkToken>> ELSE PiecesFrom(token)[0]

TokenizeUpTo(words) ==
  LET Cut[i \in 0 .. Len(words)] == IF i = 0 THEN <<>> ELSE Cut[i - 1] \o WordPieces(words[i])
  IN Cut
Tokenize(words) == TokenizeUpTo(words)[Len(words)]

IsSubword(piece) == Len(piece) > 2 /\ SubSeq(piece, 1, 2) = Mark

\* Merge() throws if the first piece is marked.
MergeThrows(pieces) == pieces # <<>> /\ IsSubword(pieces[1])
MergeUpTo(pieces) ==
  LET Merged[i \in 0 .. Len(pieces)] ==
        IF i = 0 THEN <<>>
        ELSE IF IsSubword(pieces[i])
          THEN [Merged[i - 1] EXCEPT
                  ![Len(Merged[i - 1])] = @ \o SubSeq(pieces[i], 3, Len(pieces[i]))]
          ELSE Append(Merged[i - 1], pieces[i])
  IN Merged
Merge(pieces) == MergeUpTo(pieces)[Len(pieces)]

\* TokensToIds() throws std::out_of_range for what is not in the vocabulary.
TokensToIdsThrows(pieces) == \E i \in DOMAIN pieces : pieces[i] \notin Vocab
-------------------------------------------------------------------------------
\* ElectraPunctuator.  A punctuated word is its text, whether Capitalize() was applied,
\* and the mark behind it.

\* Ids: nothing, comma, full stop, question mark; a greater one, which is suspicious,
\* is taken for nothing.
ShouldCapitalizeNext(id) == id \in {2, 3}
IdToChar(id) == IF id \in 1 .. 3 THEN id ELSE 0

\* The marks of the pieces that begin a word.
MarksUpTo(pieces, ids) ==
  LET Marks[i \in 0 .. Len(pieces)] ==
        IF i = 0 THEN <<>>
        ELSE IF IsSubword(pieces[i]) THEN Marks[i - 1] ELSE Append(Marks[i - 1], ids[i])
  IN Marks
WordMarks(pieces, ids) == MarksUpTo(pieces, ids)[Len(pieces)]

\* The loop over the words reads a mark for each.
MarksRunOut(words, marks) == Len(marks) < Len(words)

Punctuate(words, marks) ==
  [i \in DOMAIN words |->
     [text |-> words[i],
      capital |-> i > 1 /\ ShouldCapitalizeNext(marks[i - 1]) /\ words[i] # <<>>,
      mark |-> IdToChar(marks[i])]]

Capitalize(word) == [word EXCEPT !.capital = word.text # <<>>]

\* Of the left context only the last character of its last word is looked at, which is
\* undefined if the word has neither text nor mark.
ContextBreaks(context) ==
  context # <<>> /\ Last(context).text = <<>> /\ Last(context).mark = 0
EndsSentence(context) ==
  /\ context # <<>>
  /\ IF Last(context).mark # 0 THEN ShouldCapitalizeNext(Last(context).mark)
                               ELSE Last(Last(context).text) \in {".", "?", "!"}

\* PunctuateWithContext() after Punctuate(), and the capital that GetResults() gives the
\* first word of all.  Each throws if there is no word (.at(0)).
CapitalizeFirst(punctuated) ==
  [punctuated EXCEPT ![1] = Capitalize(punctuated[1])]
-------------------------------------------------------------------------------
\* Properties

\* Where the marks are the pieces themselves, each word has its own first one, unless a
\* word is empty, which the rewriting can make it, or is spelled like the inside of a
\* word, or unknown words are.
MarksMatch(words, marks) ==
  \/ /\ Len(marks) = Len(words)
     /\ \A i \in DOMAIN words :
          WordPieces(words[i]) # <<>> /\ marks[i] = WordPieces(words[i])[1]
  \/ /\ Len(marks) < Len(words)
     /\ \E i \in DOMAIN words : words[i] = <<>> \/ IsSubword(words[i]) \/ IsSubword(UnkToken)

\* Merging the pieces gives the words again, if no word is unknown (wordpiece.h: Merge).
PiecesMerge(words) ==
  (\A i \in DOMAIN words : words[i] # <<>> /\ ~IsSubword(words[i]))
    /\ UnkToken \notin Range(Tokenize(words)) =>
      ~MergeThrows(Tokenize(words)) /\ Merge(Tokenize(words)) = words
===============================================================================
