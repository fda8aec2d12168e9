-------------------------- MODULE MCStorageHistory --------------------------
\* One document and the temporary file beside it; one letter.
EXTENDS StorageHistory
CONSTANTS doc, docTmp, chr, v1, dir
MCName == {doc, docTmp}
MCTmpOf == doc :> docTmp
MCKey == {doc} \X (0 .. MaxSentence)
MCLetter == {chr}
\* A word, and a word that ends its sentence.
MCInsert == {<<chr>>, <<chr, Stop>>}
\* An uninitialised buffer: empty, or a text the stack happens to hold.
MCGarbage == {<<>>, <<chr, Stop>>}
=============================================================================
