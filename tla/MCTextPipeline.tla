--------------------------- MODULE MCTextPipeline ---------------------------
(***************************************************************************)
(* Every article of up to four lines: headings of two levels, excluded and *)
(* not, blank lines, and text whose paragraphs, sentences and words are    *)
(* shorter and longer than a chunk.                                        *)
(***************************************************************************)
EXTENDS TextPipeline

Word(size) == [size |-> size, sentence |-> FALSE]
FirstWord(size) == [size |-> size, sentence |-> TRUE]

Title(level, excluded) ==
    [heading |-> TRUE, level |-> level, excluded |-> excluded, content |-> <<FirstWord(2)>>]
Text(content) == [heading |-> FALSE, level |-> 0, excluded |-> FALSE, content |-> content]

Lines ==
    {Title(level, excluded) : level \in {2, 3}, excluded \in BOOLEAN} \union
    {Text(<<>>),
     Text(<<FirstWord(1)>>),
     Text(<<FirstWord(2), Word(1), FirstWord(1)>>),
     Text(<<FirstWord(2), Word(7)>>),
     Text(<<FirstWord(12), Word(2)>>)}

MCLevels == {2, 3}
MCArticles == BoundedSeq(Lines, 4)
=============================================================================
