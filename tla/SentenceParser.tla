--------------------------- MODULE SentenceParser ---------------------------
(***************************************************************************)
(* Text and sentences as storage_server/sentence_parser.c sees them, and   *)
(* the edit that handle_write_session applies to them at commit.           *)
(*                                                                         *)
(* A text is a sequence of atoms: a delimiter (. ! ?), a white space, or a *)
(* letter. One letter stands for a run of characters the code never looks  *)
(* into, and two adjacent letters form one word, as in the code.           *)
(***************************************************************************)
EXTENDS Naturals, Sequences, FiniteSets, SequencesExt

CONSTANTS Letter,   \* everything that is neither a delimiter nor white space
          Stop,     \* is_delimiter(c)
          Space     \* isspace(c)

ASSUME AtomAssumption == /\ Stop # Space
                         /\ {Stop, Space} \cap Letter = {}

Atom == Letter \cup {Stop, Space}
Text == Seq(Atom)

\* has_delimiter
HasDelimiter(t) == \E i \in DOMAIN t : t[i] = Stop

\* The members of a finite set of numbers, in increasing order.
Ordered(S) ==
  [k \in 1 .. Cardinality(S) |-> CHOOSE i \in S : Cardinality({j \in S : j <= i}) = k]

\* The sentences of t end at its delimiters and at the end of t.
SentenceEnds(t) == Ordered({i \in DOMAIN t : t[i] = Stop \/ i = Len(t)})

\* Where sentence k ends, counted from 1; sentence 0 is what comes before the text.
EndOf(t, k) == IF k = 0 THEN 0 ELSE SentenceEnds(t)[k]

\* A sentence parser that does not keep the delimiter with its sentence.
ParseDropsDelimiter(t) ==
  [k \in DOMAIN SentenceEnds(t) |->
     SelectSeq(SubSeq(t, EndOf(t, k - 1) + 1, EndOf(t, k)), LAMBDA a : a # Stop)]

\* parse_sentences, and split_by_delimiters, which is the same loop.
ParseSentences(t) ==
  [k \in DOMAIN SentenceEnds(t) |-> SubSeq(t, EndOf(t, k - 1) + 1, EndOf(t, k))]

\* The words of t end before its white space and at the end of t.
WordEnds(t) ==
  Ordered({i \in DOMAIN t : t[i] # Space /\ (i < Len(t) => t[i + 1] = Space)})

\* The first position of the word that ends at e: the one after the last white space.
WordStart(t, e) == Max({0} \cup {i \in 1 .. e : t[i] = Space}) + 1

\* A word splitter that forgets the word at the end of its input.
ParseWordsMissesLast(t) ==
  LET ends == Ordered({i \in DOMAIN t : t[i] # Space /\ i < Len(t) /\ t[i + 1] = Space})
  IN [k \in DOMAIN ends |-> SubSeq(t, WordStart(t, ends[k]), ends[k])]

\* parse_words: the maximal runs without white space.
ParseWords(t) ==
  LET ends == WordEnds(t)
  IN [k \in DOMAIN ends |-> SubSeq(t, WordStart(t, ends[k]), ends[k])]

\* rebuild_file: the sentences follow one another with nothing in between.
RebuildFile(sentences) == FlattenSeq(sentences)

\* The new sentence of a commit: the session's words, one blank apart.
JoinWords(words) ==
  FlattenSeq([i \in DOMAIN words |->
                IF i < Len(words) THEN words[i] \o <<Space>> ELSE words[i]])

\* A commit that keeps the sentence it should replace.
KeepsOldSentence(t, n, words) ==
  LET s == ParseSentences(t)
  IN RebuildFile(SubSeq(s, 1, n) \o <<JoinWords(words)>> \o SubSeq(s, n + 1, Len(s)))

\* handle_write_session, OP_WRITE_COMMIT: replace sentence n (counted from 0) of t
\* by the sentences the new one splits into, or append them when n is the number
\* of sentences; an empty file is overwritten whatever n is.
CommitText(t, n, words) ==
  LET s == ParseSentences(t)
      new == JoinWords(words)
      parts == IF HasDelimiter(new) THEN ParseSentences(new) ELSE <<new>>
  IN IF s = <<>>
     THEN RebuildFile(parts)
     ELSE RebuildFile(SubSeq(s, 1, n) \o parts \o SubSeq(s, n + 2, Len(s)))

\* The branch of the commit that indexes past the sentence array (lines 528-541
\* and 568-569): an undefined behaviour of the program.
CommitOutOfBounds(t, n) ==
  LET count == Len(ParseSentences(t)) IN count > 0 /\ n > count

\* What a commit should be: the text before sentence n, the typed words, the text
\* after sentence n.
Splice(t, n, words) ==
  LET next == IF n < Len(SentenceEnds(t)) THEN EndOf(t, n + 1) ELSE Len(t)
  IN SubSeq(t, 1, EndOf(t, n)) \o JoinWords(words) \o SubSeq(t, next + 1, Len(t))
=============================================================================
