--------------------------- MODULE MCSentenceScan ---------------------------
\* Edits of one document of at most MaxText atoms, typed from four strings: a
\* word, a sentence end, a sentence and the start of the next, a bare delimiter.
EXTENDS SentenceScan

CONSTANTS a, b

MCLetter == {a, b}
MCInserts == { <<a>>, <<b, Stop>>, <<a, Stop, Space, b>>, <<Stop>> }
=============================================================================
