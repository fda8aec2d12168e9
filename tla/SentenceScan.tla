---------------------------- MODULE SentenceScan ----------------------------
(***************************************************************************)
(* The loops of storage_server/sentence_parser.c and of the commit in      *)
(* handle_write_session, iteration by iteration, to be compared with the   *)
(* closed forms of SentenceParser that the storage server uses. One        *)
(* document is edited by WRITE sessions, so that the texts compared are    *)
(* those that edits produce.                                               *)
(***************************************************************************)
EXTENDS SentenceParser

CONSTANTS Inserts,   \* what a client types after the word index
          MaxText,   \* bound on the length of a text
          MaxWords   \* bound on the number of words a session inserts

ASSUME InsertAssumption == Inserts \subseteq Text

VARIABLES text,      \* the file
          active,    \* write_session.active
          words,     \* write_session.words
          target     \* write_session.sentence_num

vars == <<text, active, words, target>>

\* One iteration of the loop of parse_sentences, at position p: s.start is where the
\* sentence begins, s.out what was found.
SentenceStep(t, p, s) ==
  IF t[p] = Stop
  THEN [start |-> p + 1, out |-> Append(s.out, SubSeq(t, s.start, p))]
  ELSE s

\* A scan that drops the text after the last delimiter.
ScanLosesTail(t) ==
  LET scan[p \in 0 .. Len(t)] == IF p = 0 THEN [start |-> 1, out |-> <<>>]
                                 ELSE SentenceStep(t, p, scan[p - 1])
  IN scan[Len(t)].out

\* parse_sentences and split_by_delimiters: start and ptr walk the string.
ScanSentences(t) ==
  LET scan[p \in 0 .. Len(t)] == IF p = 0 THEN [start |-> 1, out |-> <<>>]
                                 ELSE SentenceStep(t, p, scan[p - 1])
      end == scan[Len(t)]
  IN IF end.start <= Len(t)
     THEN Append(end.out, SubSeq(t, end.start, Len(t)))
     ELSE end.out

\* A word that is complete goes from s.buf, word_buf[0 .. word_len - 1], to s.out.
Flushed(s) == IF s.buf # <<>> THEN Append(s.out, s.buf) ELSE s.out

\* One iteration of the loop of parse_words.
WordStep(t, p, s) ==
  IF t[p] = Space THEN [buf |-> <<>>, out |-> Flushed(s)]
                  ELSE [buf |-> Append(s.buf, t[p]), out |-> s.out]

\* parse_words
ScanWords(t) ==
  LET scan[p \in 0 .. Len(t)] == IF p = 0 THEN [buf |-> <<>>, out |-> <<>>]
                                 ELSE WordStep(t, p, scan[p - 1])
  IN Flushed(scan[Len(t)])

\* The strcat loop over the session's words.
CatWords(ws) ==
  LET cat[i \in 0 .. Len(ws)] ==
        IF i = 0 THEN <<>>
        ELSE (cat[i - 1] \o ws[i]) \o (IF i < Len(ws) THEN <<Space>> ELSE <<>>)
  IN cat[Len(ws)]

\* A copy of the commit whose last loop starts at the sentence being replaced.
ScanCommitKeepsOld(t, n, ws) ==
  LET s == ScanSentences(t)
  IN FlattenSeq(SubSeq(s, 1, n) \o ScanSentences(CatWords(ws)) \o SubSeq(s, n + 1, Len(s)))

\* OP_WRITE_COMMIT from the second read to rebuild_file, branch by branch; a loop that
\* copies the strings from one index to another is a SubSeq.
ScanCommit(t, n, ws) ==
  LET s == ScanSentences(t)
      new == CatWords(ws)
      parts == ScanSentences(new)
      before == SubSeq(s, 1, IF n < Len(s) THEN n ELSE Len(s))
  IN FlattenSeq(
       IF s = <<>> THEN IF HasDelimiter(new) THEN parts ELSE <<new>>
       ELSE IF HasDelimiter(new) THEN before \o parts \o SubSeq(s, n + 2, Len(s))
       ELSE IF n = Len(s) THEN Append(s, new)
       ELSE [s EXCEPT ![n + 1] = new])

Init == /\ text = <<>>
        /\ active = FALSE
        /\ words = <<>>
        /\ target = 0

\* WRITE_START: every index from 0 to the number of sentences is accepted.
Start(n) ==
  LET s == ScanSentences(text)
  IN /\ ~active
     /\ n <= Len(s)
     /\ active' = TRUE
     /\ target' = n
     /\ words' = IF n = Len(s) THEN <<>> ELSE ScanWords(s[n + 1])
     /\ UNCHANGED text

\* WRITE_UPDATE: insert before word i, or after the last word.
Update(i, w) ==
  /\ active
  /\ i <= Len(words)
  /\ Len(words) < MaxWords
  /\ Len(text) + Len(CatWords(words)) + Len(w) < MaxText
  /\ words' = InsertAt(words, i + 1, w)
  /\ UNCHANGED <<text, active, target>>

\* ETIRW
Commit ==
  /\ active
  /\ text' = ScanCommit(text, target, words)
  /\ active' = FALSE
  /\ words' = <<>>
  /\ target' = 0

Next == \/ \E n \in 0 .. MaxText : Start(n)
        \/ \E i \in 0 .. MaxWords, w \in Inserts : Update(i, w)
        \/ Commit

Spec == Init /\ [][Next]_vars

-----------------------------------------------------------------------------
\* The loops compute what the closed forms say: the scan of parse_sentences, the
\* scan of parse_words and the strcat loop, on the file and on the words being typed
\* (sentence_parser.c:19-126, storage_server.c:495-501).
LoopsMatchClosedForms ==
  LET typed == CatWords(words)
  IN /\ ScanSentences(text) = ParseSentences(text)
     /\ ScanSentences(typed) = ParseSentences(typed)
     /\ ScanWords(text) = ParseWords(text)
     /\ typed = JoinWords(words)

\* Parsing loses nothing: rebuild_file puts back together exactly the file that
\* parse_sentences took apart, and every sentence but the last ends in its only
\* delimiter (sentence_parser.c:5, 31, 49).
ParseIsLossless ==
  LET s == ParseSentences(text)
  IN /\ RebuildFile(s) = text
     /\ \A k \in DOMAIN s :
          /\ s[k] # <<>>
          /\ \A i \in DOMAIN s[k] : s[k][i] = Stop => i = Len(s[k])
          /\ k < Len(s) => s[k][Len(s[k])] = Stop

\* The commit is the splice it should be: the text before sentence n, the typed
\* words, the text after sentence n, with no other character touched, whichever of
\* the four branches of storage_server.c:503-571 is taken.
CommitIsSplice ==
  active => ScanCommit(text, target, words) = Splice(text, target, words)

\* The closed form the storage server uses agrees with the code's commit.
CommitMatchesClosedForm ==
  active => ScanCommit(text, target, words) = CommitText(text, target, words)
=============================================================================
