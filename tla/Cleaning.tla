------------------------------ MODULE Cleaning ------------------------------
(***************************************************************************)
(* TextCleaner.clean_text: a pass over the lines of an article that leaves *)
(* out the excluded sections (references, notes, ...) with all that is     *)
(* below them (ingestion/cleaning.py).                                     *)
(***************************************************************************)
EXTENDS Integers, Sequences

CONSTANTS
    Levels,     \* of headings: 2 to 6
    Articles    \* sequences of lines: [heading, level, excluded, ...]

(* A line that is no heading has neither a level nor an excluded name.     *)
ASSUME ArticlesAssumption ==
    /\ Levels \subseteq Nat \ {0}
    /\ \A article \in Articles :
          /\ article \in Seq({article[i] : i \in DOMAIN article})
          /\ \A i \in DOMAIN article :
                /\ article[i].heading \in BOOLEAN
                /\ article[i].excluded \in BOOLEAN
                /\ article[i].heading => article[i].level \in Levels
                /\ article[i].excluded => article[i].heading

VARIABLES
    lines,      \* text.splitlines()
    line,       \* the line that is next
    skipBelow,  \* skip_below; 0 for None
    kept        \* the lines that are kept, in order

cleanVars == <<lines, line, skipBelow, kept>>

CleanInit ==
    /\ lines \in Articles
    /\ line = 1
    /\ skipBelow = 0
    /\ kept = <<>>

Heading == line <= Len(lines) /\ lines[line].heading

NextLine == line' = line + 1 /\ UNCHANGED lines

(* Mutant: a subsection of the same level is taken for a nested one.       *)
NestedOrEqual == skipBelow # 0 /\ lines[line].level >= skipBelow

Nested == skipBelow # 0 /\ lines[line].level > skipBelow

(* A heading below the section that is skipped.                            *)
SkipNested ==
    /\ Heading /\ Nested
    /\ NextLine
    /\ UNCHANGED <<skipBelow, kept>>

(* The heading of an excluded section.                                     *)
SkipSection ==
    /\ Heading /\ ~Nested
    /\ lines[line].excluded
    /\ skipBelow' = lines[line].level
    /\ NextLine
    /\ UNCHANGED kept

(* Any other heading ends the skipping and stays, as a paragraph.          *)
KeepHeading ==
    /\ Heading /\ ~Nested
    /\ ~lines[line].excluded
    /\ skipBelow' = 0
    /\ kept' = Append(kept, line)
    /\ NextLine

(* A line of text, with its spaces and math markup collapsed.              *)
TextLine ==
    /\ line <= Len(lines) /\ ~lines[line].heading
    /\ kept' = IF skipBelow = 0 THEN Append(kept, line) ELSE kept
    /\ NextLine
    /\ UNCHANGED skipBelow

CleanNext == SkipNested \/ SkipSection \/ KeepHeading \/ TextLine

CleanSpec == CleanInit /\ [][CleanNext]_cleanVars

Cleaned == line > Len(lines)

(* Heading h governs line i: no heading of its level or above in between.  *)
Governs(h, i) ==
    \A j \in h + 1 .. i : lines[j].heading => lines[j].level > lines[h].level

(* In the section tree, line i is in an excluded section or heads one.     *)
InExcludedSection(i) == \E h \in 1 .. i : lines[h].excluded /\ Governs(h, i)

IsKept(i) == \E k \in DOMAIN kept : kept[k] = i

(* With one number for its memory, the pass leaves out exactly the lines   *)
(* that the section tree of the article puts in excluded sections, however *)
(* sections nest and follow each other.                                    *)
SkipsExcludedSectionsOnly ==
    \A i \in 1 .. line - 1 : IsKept(i) <=> ~InExcludedSection(i)

(***************************************************************************)
(* The inductive invariant                                                 *)
(***************************************************************************)
CleanTypeOK ==
    /\ lines \in Articles
    /\ line \in 1 .. Len(lines) + 1
    /\ skipBelow \in Levels \union {0}
    /\ kept \in Seq(1 .. Len(lines))
    /\ \A k \in DOMAIN kept : kept[k] < line

(* skip_below is the level of the outermost excluded section that is open. *)
SkipInv ==
    /\ \A h \in 1 .. line - 1 :
          lines[h].excluded /\ Governs(h, line - 1) =>
              skipBelow # 0 /\ lines[h].level >= skipBelow
    /\ skipBelow # 0 =>
          \E h \in 1 .. line - 1 :
              lines[h].excluded /\ lines[h].level = skipBelow /\ Governs(h, line - 1)

CleanInv == CleanTypeOK /\ SkipInv /\ SkipsExcludedSectionsOnly
=============================================================================
