------------------------------ MODULE Chunking ------------------------------
(***************************************************************************)
(* TextChunker.split_text: paragraphs are split into pieces of at most     *)
(* ChunkSize characters, and pieces are packed into chunks that overlap by *)
(* at most ChunkOverlap characters (ingestion/chunking.py).                *)
(*                                                                         *)
(* A text is its words, each with the place of its first character and of  *)
(* the character after its last in the text with its white space           *)
(* normalised: two characters between paragraphs, one between words.       *)
(***************************************************************************)
EXTENDS Integers, Sequences, FiniteSetsExt

CONSTANTS ChunkSize, ChunkOverlap

(* The checks of TextChunker.__init__.                                     *)
ASSUME ChunkAssumption ==
    ChunkSize \in Nat \ {0} /\ ChunkOverlap \in 0 .. ChunkSize - 1

Separation(startsParagraph) == IF startsParagraph THEN 2 ELSE 1

WellFormed(text) ==
    /\ text \in Seq([from : Nat, to : Nat, break : {"paragraph", "sentence", "word"}])
    /\ \A i \in DOMAIN text :
          /\ text[i].from < text[i].to
          /\ i = 1 => text[i].break = "paragraph"
          /\ i > 1 => text[i].from =
                         text[i - 1].to + Separation(text[i].break = "paragraph")
          /\ \A j \in DOMAIN text : i < j => text[i].to < text[j].from

VARIABLES
    words,      \* the text
    mode,       \* where split_text is
    next,       \* the word that is next
    last,       \* the last word of the sentence that is split into words
    part,       \* current of _split_words: <<from, to>>, empty if equal
    rest,       \* where the word that is next begins, its cut parts gone
    pieces,     \* pieces; at is the place of a piece if all were joined
    lo, hi,     \* current of split_text: pieces[lo .. hi]
    chunks      \* chunks: <<first piece, last piece>>

splitVars == <<words, next, last, part, rest, pieces>>
packVars == <<lo, hi, chunks>>
chunkVars == <<mode, splitVars, packVars>>

ChunkInit ==
    /\ words = <<>>
    /\ mode = "idle"
    /\ next = 1 /\ last = 0 /\ part = <<0, 0>> /\ rest = 0
    /\ pieces = <<>>
    /\ lo = 1 /\ hi = 0
    /\ chunks = <<>>

(* split_text is called.                                                   *)
SplitText(text) ==
    /\ mode = "idle"
    /\ words' = text
    /\ mode' = "paragraph"
    /\ UNCHANGED <<next, last, part, rest, pieces, packVars>>

(***************************************************************************)
(* _pieces                                                                 *)
(***************************************************************************)
(* The last word before the next break of one of the kinds.                *)
LastBefore(kinds) ==
    Min({i \in next .. Len(words) : i = Len(words) \/ words[i + 1].break \in kinds})

(* Mutant: every part of a paragraph is taken for its first.               *)
StartsAnyPart(from) == \E i \in DOMAIN words : words[i].from = from

StartsParagraph(from) ==
    \E i \in DOMAIN words : words[i].from = from /\ words[i].break = "paragraph"

(* Where the next piece begins in the join of all pieces.                  *)
JoinedAt(from) ==
    IF pieces = <<>> THEN 0
    ELSE LET p == pieces[Len(pieces)]
         IN  p.at + (p.to - p.from) + Separation(StartsParagraph(from))

AppendPiece(from, to) ==
    pieces' = Append(pieces, [from |-> from, to |-> to, at |-> JoinedAt(from)])

(* Words that are a piece as they are.                                     *)
TakeWhole(end) ==
    /\ AppendPiece(words[next].from, words[end].to)
    /\ next' = end + 1
    /\ UNCHANGED <<words, last, part, rest, packVars>>

(* What follows a sentence of a paragraph that is split.                   *)
AfterSentence(end) ==
    IF end = Len(words) \/ words[end + 1].break = "paragraph" THEN "paragraph" ELSE "sentence"

(* Mutant: the limit is off by one.                                        *)
FitsButOne(from, to) == to - from <= ChunkSize + 1

Fits(from, to) == to - from <= ChunkSize

(* A paragraph that fits, or the start of _split_long.                     *)
SplitParagraph ==
    /\ mode = "paragraph" /\ next <= Len(words)
    /\ LET end == LastBefore({"paragraph"})
       IN  IF Fits(words[next].from, words[end].to)
           THEN TakeWhole(end) /\ UNCHANGED mode
           ELSE mode' = "sentence" /\ UNCHANGED <<splitVars, packVars>>

(* _split_long: a sentence that fits, or the start of _split_words.        *)
SplitSentence ==
    /\ mode = "sentence"
    /\ LET end == LastBefore({"paragraph", "sentence"})
       IN  IF Fits(words[next].from, words[end].to)
           THEN TakeWhole(end) /\ mode' = AfterSentence(end)
           ELSE /\ mode' = "words"
                /\ last' = end
                /\ part' = <<0, 0>>
                /\ rest' = words[next].from
                /\ UNCHANGED <<words, next, pieces, packVars>>

PartIsEmpty == part[1] = part[2]

(* A word longer than a chunk: what precedes it becomes a piece.           *)
FlushBeforeCut ==
    /\ mode = "words" /\ next <= last
    /\ words[next].to - rest > ChunkSize
    /\ ~PartIsEmpty
    /\ AppendPiece(part[1], part[2])
    /\ part' = <<0, 0>>
    /\ UNCHANGED <<mode, words, next, last, rest, packVars>>

(* Then it is cut.                                                         *)
CutWord ==
    /\ mode = "words" /\ next <= last
    /\ words[next].to - rest > ChunkSize
    /\ PartIsEmpty
    /\ AppendPiece(rest, rest + ChunkSize)
    /\ rest' = rest + ChunkSize
    /\ UNCHANGED <<mode, words, next, last, part, packVars>>

(* A word joins the part, or begins the next one.                          *)
AddWord ==
    /\ mode = "words" /\ next <= last
    /\ words[next].to - rest <= ChunkSize
    /\ IF PartIsEmpty \/ Fits(part[1], words[next].to)
       THEN /\ part' = <<IF PartIsEmpty THEN rest ELSE part[1], words[next].to>>
            /\ UNCHANGED pieces
       ELSE /\ AppendPiece(part[1], part[2])
            /\ part' = <<rest, words[next].to>>
    /\ next' = next + 1
    /\ rest' = IF next < last THEN words[next + 1].from ELSE rest
    /\ UNCHANGED <<mode, words, last, packVars>>

(* The last part of the sentence.                                          *)
EndSentence ==
    /\ mode = "words" /\ next > last
    /\ IF PartIsEmpty THEN UNCHANGED pieces ELSE AppendPiece(part[1], part[2])
    /\ mode' = AfterSentence(last)
    /\ UNCHANGED <<words, next, last, part, rest, packVars>>

EndPieces ==
    /\ mode = "paragraph" /\ next > Len(words)
    /\ mode' = "packing"
    /\ UNCHANGED <<splitVars, packVars>>

(***************************************************************************)
(* split_text                                                              *)
(***************************************************************************)
(* _length(pieces[first .. end]).                                          *)
Length(first, end) ==
    IF first > end THEN 0
    ELSE pieces[end].at + (pieces[end].to - pieces[end].from) - pieces[first].at

(* Mutant: the whole chunk is carried over.                                *)
WholeTail(first, end) == first

(* _overlap_tail: from the end as many pieces as stay within the overlap.  *)
OverlapTail(first, end) ==
    Min({i \in first .. end + 1 : \A j \in i .. end : Length(j, end) <= ChunkOverlap})

(* Mutant: the overlap stays whatever comes after it.                      *)
KeepOverlap(first, piece) == first

(* Pieces of the overlap are dropped until the next piece fits.            *)
DropUntilFits(first, piece) ==
    Min({i \in first .. piece : i = piece \/ Length(i, piece) <= ChunkSize})

(* The next piece goes to the chunk, or ends it and begins the next.       *)
PackPiece ==
    /\ mode = "packing" /\ hi < Len(pieces)
    /\ IF lo <= hi /\ Length(lo, hi + 1) > ChunkSize
       THEN /\ chunks' = Append(chunks, <<lo, hi>>)
            /\ lo' = DropUntilFits(OverlapTail(lo, hi), hi + 1)
       ELSE UNCHANGED <<chunks, lo>>
    /\ hi' = hi + 1
    /\ UNCHANGED <<mode, splitVars>>

(* Mutant: the pieces after the last full chunk are forgotten.             *)
EndPackingEarly ==
    /\ mode = "packing" /\ hi = Len(pieces)
    /\ mode' = "done"
    /\ UNCHANGED <<splitVars, packVars>>

(* What is left is the last chunk.                                         *)
EndPacking ==
    /\ mode = "packing" /\ hi = Len(pieces)
    /\ chunks' = IF lo <= hi THEN Append(chunks, <<lo, hi>>) ELSE chunks
    /\ mode' = "done"
    /\ UNCHANGED <<splitVars, lo, hi>>

ChunkNext ==
    \/ SplitParagraph \/ SplitSentence \/ FlushBeforeCut \/ CutWord \/ AddWord
    \/ EndSentence \/ EndPieces \/ PackPiece \/ EndPacking

ChunkSpec ==
    /\ ChunkInit
    /\ [][ChunkNext \/ \E text : WellFormed(text) /\ SplitText(text)]_chunkVars

Modes == {"idle", "empty", "paragraph", "sentence", "words", "packing", "done"}

ChunkTypeOK ==
    /\ WellFormed(words)
    /\ mode \in Modes
    /\ next \in 1 .. Len(words) + 1
    /\ last \in 0 .. Len(words)
    /\ part \in Nat \X Nat
    /\ rest \in Nat
    /\ pieces \in Seq([from : Nat, to : Nat, at : Nat])
    /\ lo \in 1 .. Len(pieces) + 1
    /\ hi \in 0 .. Len(pieces)
    /\ chunks \in Seq((1 .. Len(pieces)) \X (1 .. Len(pieces)))

(* No chunk is longer than chunk_size, the blank lines and spaces that     *)
(* join its pieces and the overlap it begins with included.                *)
ChunksFit == \A c \in DOMAIN chunks : Length(chunks[c][1], chunks[c][2]) <= ChunkSize

(* Every chunk brings text the one before it has not, and repeats no more  *)
(* than chunk_overlap characters of it; nothing between them is lost.      *)
ChunksAdvance ==
    \A c \in DOMAIN chunks :
        /\ chunks[c][1] <= chunks[c][2]
        /\ c = 1 => chunks[c][1] = 1
        /\ c > 1 => LET before == chunks[c - 1]
                    IN  /\ before[2] < chunks[c][2]
                        /\ chunks[c][1] <= before[2] + 1
                        /\ Length(chunks[c][1], before[2]) <= ChunkOverlap

(* A chunk is a stretch of the text as it stands: the spaces that join     *)
(* pieces are those of the text, and no space is put into a word that was  *)
(* cut.                                                                    *)
ChunksAreVerbatim ==
    \A c \in DOMAIN chunks :
        Length(chunks[c][1], chunks[c][2]) =
            pieces[chunks[c][2]].to - pieces[chunks[c][1]].from

(* Every character of every word is in a chunk at the end.                 *)
EveryCharacterIsInAChunk ==
    mode = "done" =>
        \A i \in DOMAIN words : \A place \in words[i].from .. words[i].to - 1 :
            \E c \in DOMAIN chunks :
                /\ pieces[chunks[c][1]].from <= place
                /\ place < pieces[chunks[c][2]].to

(***************************************************************************)
(* The inductive invariant                                                 *)
(***************************************************************************)
Size(k) == pieces[k].to - pieces[k].from

(* Pieces fit, are in order, and are as far apart in the join as in the    *)
(* text, unless they are too far apart for a chunk anyway.                 *)
PieceInv ==
    /\ \A k \in DOMAIN pieces :
          pieces[k].from < pieces[k].to /\ Size(k) <= ChunkSize
    /\ \A k, j \in DOMAIN pieces : k < j =>
          /\ pieces[k].at + Size(k) < pieces[j].at
          /\ pieces[k].to <= pieces[j].from
          /\ \/ pieces[j].at - pieces[k].at = pieces[j].from - pieces[k].from
             \/ pieces[j].at - pieces[k].at >= ChunkSize

(* A piece that begins here follows the pieces there are: by what separates*)
(* them, or at the cut of a word.                                          *)
Follows(from) ==
    pieces # <<>> =>
        LET p == pieces[Len(pieces)]
        IN  \/ from = p.to + Separation(StartsParagraph(from))
            \/ from = p.to /\ p.to - p.from = ChunkSize

(* What of the current sentence is not a piece yet.                        *)
SplitInv ==
    /\ mode = "idle" => next = 1 /\ last = 0 /\ pieces = <<>>
    /\ mode = "sentence" => next <= Len(words)
    /\ mode \in {"paragraph", "sentence"} /\ next <= Len(words) => Follows(words[next].from)
    /\ mode = "words" =>
          /\ last >= 1 /\ next <= last + 1
          /\ \A i \in next + 1 .. last : words[i].break = "word"
          /\ next <= last => words[next].from <= rest /\ rest < words[next].to
          /\ PartIsEmpty => next <= last /\ Follows(rest)
          /\ ~PartIsEmpty =>
                /\ part[1] < part[2] /\ part[2] - part[1] <= ChunkSize
                /\ Follows(part[1])
                /\ next > 1 /\ part[2] = words[next - 1].to
                /\ next <= last => words[next].break = "word" /\ rest = words[next].from

(* The chunk that is being packed, after the chunks before it.             *)
PackInv ==
    /\ mode \notin {"packing", "done"} => lo = 1 /\ hi = 0 /\ chunks = <<>>
    /\ lo <= hi + 1
    /\ hi > 0 => lo <= hi
    /\ Length(lo, hi) <= ChunkSize
    /\ mode = "packing" =>
          IF chunks = <<>> THEN lo = 1
          ELSE LET before == chunks[Len(chunks)]
               IN  /\ before[2] < hi
                   /\ lo <= before[2] + 1
                   /\ Length(lo, before[2]) <= ChunkOverlap

ChunkInv ==
    /\ ChunkTypeOK
    /\ PieceInv
    /\ SplitInv
    /\ PackInv
    /\ ChunksFit
    /\ ChunksAdvance

(* What of the text is no piece yet: from here to its end.                 *)
ToSplit(place) ==
    \/ mode \in {"paragraph", "sentence"} /\ next <= Len(words) /\ words[next].from <= place
    \/ mode = "words" /\ (IF PartIsEmpty THEN rest ELSE part[1]) <= place

InPiece(k, place) == pieces[k].from <= place /\ place < pieces[k].to

InChunk(c, k) == chunks[c][1] <= k /\ k <= chunks[c][2]

(* No character is lost on its way into a piece.                           *)
SplitCovers ==
    /\ mode = "idle" => words = <<>>
    /\ \A i \in DOMAIN words : \A place \in words[i].from .. words[i].to - 1 :
          ToSplit(place) \/ \E k \in DOMAIN pieces : InPiece(k, place)

(* No piece is lost on its way into a chunk.                               *)
PackCovers ==
    /\ \A k \in 1 .. hi :
          (mode # "done" /\ lo <= k) \/ \E c \in DOMAIN chunks : InChunk(c, k)
    /\ mode = "done" => hi = Len(pieces)

CoverInv == SplitCovers /\ PackCovers
=============================================================================
