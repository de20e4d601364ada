------------------------- MODULE TextPipeline_proofs -------------------------
(***************************************************************************)
(* For every article, size, overlap and batch: one number is all the       *)
(* memory that the section tree asks of the cleaner; chunks fit, advance,  *)
(* quote the text and cover all of it; vectors are in the order of the     *)
(* texts.                                                                  *)
(***************************************************************************)
EXTENDS TextPipeline, FiniteSetTheorems, SequenceTheorems, WellFoundedInduction, TLAPS

(***************************************************************************)
(* Cleaning                                                                *)
(***************************************************************************)
(* The lines of an article, one after the other.                           *)
LEMMA Line ==
  ASSUME CleanTypeOK
  PROVE  /\ Len(lines) \in Nat /\ DOMAIN lines = 1 .. Len(lines)
         /\ \A i \in 1 .. Len(lines) :
               /\ lines[i].heading \in BOOLEAN /\ lines[i].excluded \in BOOLEAN
               /\ lines[i].heading => lines[i].level \in Nat \ {0}
               /\ lines[i].excluded => lines[i].heading
<1>1. /\ lines \in Seq({lines[i] : i \in DOMAIN lines})
      /\ \A i \in DOMAIN lines :
            /\ lines[i].heading \in BOOLEAN
            /\ lines[i].excluded \in BOOLEAN
            /\ lines[i].heading => lines[i].level \in Levels
            /\ lines[i].excluded => lines[i].heading
  BY ArticlesAssumption DEF CleanTypeOK
<1>2. Len(lines) \in Nat /\ DOMAIN lines = 1 .. Len(lines)
  BY <1>1
<1> QED
  BY <1>1, <1>2, ArticlesAssumption

(* Whether a line is in a section does not depend on what follows.         *)
LEMMA GovernsNext ==
  ASSUME CleanTypeOK, NEW h \in 1 .. line - 1, line <= Len(lines)
  PROVE  Governs(h, line) <=>
            Governs(h, line - 1) /\ (lines[line].heading => lines[line].level > lines[h].level)
  BY DEF CleanTypeOK, Governs

(* What is kept stays, and only the current line may join it.              *)
LEMMA KeptNext ==
  ASSUME CleanTypeOK, NEW now, now = line, line <= Len(lines)
  PROVE  /\ kept' = Append(kept, now) =>
               /\ kept' \in Seq(1 .. Len(lines))
               /\ \A k \in DOMAIN kept' : kept'[k] < now + 1
               /\ IsKept(now)'
               /\ \A i \in 1 .. now - 1 : IsKept(i)' <=> IsKept(i)
         /\ kept' = kept =>
               /\ ~IsKept(now)'
               /\ \A i \in 1 .. now - 1 : IsKept(i)' <=> IsKept(i)
<1> USE DEF CleanTypeOK, IsKept
<1>1. /\ kept \in Seq(1 .. Len(lines)) /\ now \in Nat /\ now \in 1 .. Len(lines)
      /\ DOMAIN kept = 1 .. Len(kept) /\ Len(kept) \in Nat
      /\ \A k \in 1 .. Len(kept) : kept[k] \in Nat /\ kept[k] < now
  <2>1. Len(lines) \in Nat /\ line \in Nat
    BY Line
  <2> QED
    BY <2>1
<1>2. ASSUME kept' = Append(kept, now)
      PROVE  /\ kept' \in Seq(1 .. Len(lines))
             /\ \A k \in DOMAIN kept' : kept'[k] < now + 1
             /\ IsKept(now)'
             /\ \A i \in 1 .. now - 1 : IsKept(i)' <=> IsKept(i)
  <2>1. /\ kept' \in Seq(1 .. Len(lines))
        /\ DOMAIN kept' = 1 .. Len(kept) + 1
        /\ kept'[Len(kept) + 1] = now
        /\ \A k \in 1 .. Len(kept) : kept'[k] = kept[k]
    BY <1>1, <1>2
  <2>2. \A k \in 1 .. Len(kept) + 1 : k \in 1 .. Len(kept) \/ k = Len(kept) + 1
    BY <1>1
  <2>3. \A k \in DOMAIN kept' : kept'[k] < now + 1
    BY <1>1, <2>1, <2>2
  <2>4. Len(kept) + 1 \in 1 .. Len(kept) + 1 /\ \A k \in 1 .. Len(kept) : k \in 1 .. Len(kept) + 1
    BY <1>1
  <2>5. IsKept(now)'
    BY <2>1, <2>4
  <2>6. \A i \in 1 .. now - 1 : i # now
    BY <1>1
  <2> QED
    BY <1>1, <2>1, <2>2, <2>3, <2>4, <2>5, <2>6
<1>3. \A k \in DOMAIN kept : kept[k] # now
  BY <1>1
<1> QED
  BY <1>2, <1>3

LEMMA CleanInitInv == CleanInit => CleanInv
<1> SUFFICES ASSUME CleanInit PROVE CleanInv
  OBVIOUS
<1>1. lines \in Seq({lines[i] : i \in DOMAIN lines})
  BY ArticlesAssumption DEF CleanInit
<1>2. CleanTypeOK
  BY <1>1 DEF CleanInit, CleanTypeOK
<1>3. SkipInv /\ SkipsExcludedSectionsOnly
  BY DEF CleanInit, SkipInv, SkipsExcludedSectionsOnly
<1> QED
  BY <1>2, <1>3 DEF CleanInv

(* Whatever the line is: the invariant holds afterwards if the line is     *)
(* kept exactly when it is in no excluded section, and skip_below fits.    *)
LEMMA CleanStepInv ==
  ASSUME CleanInv, line <= Len(lines), NextLine,
         skipBelow' \in Levels \union {0},
         kept' = Append(kept, line) \/ kept' = kept,
         kept' = Append(kept, line) <=> ~InExcludedSection(line),
         \A h \in 1 .. line :
            lines[h].excluded /\ Governs(h, line) =>
                skipBelow' # 0 /\ lines[h].level >= skipBelow',
         skipBelow' # 0 =>
            \E h \in 1 .. line :
                lines[h].excluded /\ lines[h].level = skipBelow' /\ Governs(h, line)
  PROVE  CleanInv'
<1>1. PICK now : now = line
  OBVIOUS
<1>2. /\ lines' = lines /\ line' = now + 1 /\ now \in Nat
      /\ Len(lines) \in Nat /\ now \in 1 .. Len(lines)
  BY <1>1, Line DEF CleanInv, CleanTypeOK, NextLine
<1>3. CleanTypeOK'
  <2>1. \A k \in DOMAIN kept : kept[k] < now + 1
    <3>1. \A k \in DOMAIN kept : kept[k] \in Nat /\ kept[k] < now
      BY <1>1, <1>2 DEF CleanInv, CleanTypeOK
    <3> QED
      BY <1>2, <3>1
  <2>2. kept' \in Seq(1 .. Len(lines)) /\ \A k \in DOMAIN kept' : kept'[k] < now + 1
    BY <1>1, <2>1, KeptNext DEF CleanInv, CleanTypeOK
  <2>3. lines' \in Articles /\ skipBelow' \in Levels \union {0}
    BY <1>2 DEF CleanInv, CleanTypeOK
  <2>4. line' \in 1 .. Len(lines') + 1
    BY <1>2
  <2>5. kept' \in Seq(1 .. Len(lines')) /\ \A k \in DOMAIN kept' : kept'[k] < line'
    BY <1>2, <2>2
  <2> QED
    BY <2>3, <2>4, <2>5 DEF CleanTypeOK
<1>4. \A h, i : Governs(h, i)' <=> Governs(h, i)
  BY <1>2 DEF Governs
<1>5. \A i : InExcludedSection(i)' <=> InExcludedSection(i)
  BY <1>2, <1>4 DEF InExcludedSection
<1>6. line' - 1 = now
  BY <1>2
<1>7. SkipInv'
  <2>1. \A h : Governs(h, line - 1)' <=> Governs(h, now)
    BY <1>2, <1>6 DEF Governs
  <2>2. /\ \A h \in 1 .. line' - 1 :
            lines'[h].excluded /\ Governs(h, line - 1)' =>
                skipBelow' # 0 /\ lines'[h].level >= skipBelow'
        /\ skipBelow' # 0 =>
            \E h \in 1 .. line' - 1 :
                lines'[h].excluded /\ lines'[h].level = skipBelow' /\ Governs(h, line - 1)'
    BY <1>1, <1>2, <1>6, <2>1
  <2> QED
    BY <2>2 DEF SkipInv
<1>8. SkipsExcludedSectionsOnly'
  <2>1. \A i \in 1 .. now - 1 : IsKept(i)' <=> ~InExcludedSection(i)
    BY <1>1, KeptNext DEF CleanInv, SkipsExcludedSectionsOnly
  <2>2. IsKept(now)' <=> ~InExcludedSection(now)
    <3>1. CASE kept' = Append(kept, now)
      BY <1>1, <3>1, KeptNext DEF CleanInv
    <3>2. CASE kept' = kept /\ kept' # Append(kept, now)
      BY <1>1, <3>2, KeptNext DEF CleanInv
    <3> QED
      BY <1>1, <3>1, <3>2
  <2>3. \A i \in 1 .. line' - 1 : i \in 1 .. now - 1 \/ i = now
    BY <1>2, <1>6
  <2> QED
    BY <1>5, <2>1, <2>2, <2>3 DEF SkipsExcludedSectionsOnly
<1> QED
  BY <1>3, <1>7, <1>8 DEF CleanInv

(* Appending to a sequence changes it.                                     *)
LEMMA AppendChanges ==
  ASSUME NEW S, NEW s \in Seq(S), NEW e PROVE Append(s, e) # s
<1>1. Len(s) \in Nat /\ Len(Append(s, e)) = Len(s) + 1
  OBVIOUS
<1> QED
  BY <1>1

LEMMA CleanNextInv == ASSUME CleanInv, [CleanNext]_cleanVars PROVE CleanInv'
<1> DEFINE Open(h) == lines[h].excluded /\ Governs(h, line - 1)
<1>1. ASSUME CleanNext PROVE CleanInv'
  <2>1. line \in 1 .. Len(lines) /\ line \in Nat /\ Len(lines) \in Nat
    BY <1>1, Line
       DEF CleanInv, CleanTypeOK, CleanNext, SkipNested, SkipSection, KeepHeading, TextLine,
           Heading
  <2>2. /\ CleanTypeOK
        /\ \A h \in 1 .. line - 1 :
              Open(h) => skipBelow # 0 /\ lines[h].level >= skipBelow
        /\ skipBelow # 0 => \E h \in 1 .. line - 1 : Open(h) /\ lines[h].level = skipBelow
        /\ skipBelow \in Nat
    BY ArticlesAssumption DEF CleanInv, SkipInv, CleanTypeOK
  <2>3. \A h \in 1 .. line : h \in 1 .. line - 1 \/ h = line
    BY <2>1
  <2>4. Append(kept, line) # kept
    BY <2>2, AppendChanges DEF CleanTypeOK
  <2>5. \A h \in 1 .. line - 1 : lines[h].excluded => lines[h].level \in Nat \ {0}
    BY <2>1, <2>2, Line
  <2>6. Governs(line, line)
    BY <2>1 DEF Governs
  <2>7. \A h \in 1 .. line - 1 : Governs(h, line) <=>
            Governs(h, line - 1) /\ (lines[line].heading => lines[line].level > lines[h].level)
    BY <2>1, <2>2, GovernsNext
  <2>8. \A h \in 1 .. line - 1 : h \in 1 .. line
    BY <2>1
  <2>9. line \in 1 .. line
    BY <2>1
  <2> HIDE DEF Open
  <2>10. CASE SkipNested
    <3>1. /\ lines[line].heading /\ skipBelow # 0 /\ lines[line].level > skipBelow
          /\ skipBelow' = skipBelow /\ kept' = kept /\ NextLine
      BY <2>10 DEF SkipNested, Heading, Nested
    <3>2. lines[line].level \in Nat
      BY <2>1, <2>2, <3>1, Line
    <3>3. PICK h \in 1 .. line - 1 : Open(h) /\ lines[h].level = skipBelow
      BY <2>2, <3>1
    <3>4. lines[h].excluded /\ Governs(h, line)
      BY <2>7, <3>1, <3>3 DEF Open
    <3>5. InExcludedSection(line)
      BY <2>8, <3>4 DEF InExcludedSection
    <3>6. \A g \in 1 .. line - 1 : lines[g].excluded /\ Governs(g, line) =>
              skipBelow # 0 /\ lines[g].level >= skipBelow
      BY <2>2, <2>7 DEF Open
    <3>7. \A g \in 1 .. line : lines[g].excluded /\ Governs(g, line) =>
              skipBelow' # 0 /\ lines[g].level >= skipBelow'
      BY <2>2, <2>3, <3>1, <3>2, <3>6
    <3>8. skipBelow' # 0 => \E g \in 1 .. line :
              lines[g].excluded /\ lines[g].level = skipBelow' /\ Governs(g, line)
      BY <2>8, <3>1, <3>3, <3>4
    <3>9. skipBelow' \in Levels \union {0}
      BY <2>2, <3>1 DEF CleanTypeOK
    <3> QED
      BY <2>1, <2>4, <3>1, <3>5, <3>7, <3>8, <3>9, CleanStepInv
  <2>11. ASSUME Heading, ~Nested
         PROVE  \A h \in 1 .. line - 1 : ~(lines[h].excluded /\ Governs(h, line))
    <3> SUFFICES ASSUME NEW h \in 1 .. line - 1, lines[h].excluded, Governs(h, line)
                 PROVE  FALSE
      OBVIOUS
    <3>1. lines[line].heading /\ lines[line].level > lines[h].level
      BY <2>7, <2>11 DEF Heading
    <3>2. skipBelow # 0 /\ lines[h].level >= skipBelow
      BY <2>2, <2>7 DEF Open
    <3>3. lines[line].level \in Nat
      BY <2>1, <2>2, <3>1, Line
    <3> QED
      BY <2>2, <2>5, <2>11, <3>1, <3>2, <3>3 DEF Nested
  <2>12. CASE SkipSection
    <3>1. /\ lines[line].heading /\ lines[line].excluded /\ NextLine
          /\ skipBelow' = lines[line].level /\ kept' = kept
      BY <2>12 DEF SkipSection, Heading
    <3>2. lines[line].level \in Nat \ {0} /\ lines[line].level \in Levels
      BY <2>1, <2>2, <3>1, Line, ArticlesAssumption DEF CleanTypeOK
    <3>3. InExcludedSection(line)
      BY <2>6, <2>9, <3>1 DEF InExcludedSection
    <3>4. \A g \in 1 .. line : lines[g].excluded /\ Governs(g, line) => g = line
      BY <2>3, <2>11, <2>12 DEF SkipSection
    <3>5. lines[line].level >= lines[line].level
      BY <3>2
    <3> QED
      BY <2>1, <2>4, <2>6, <2>9, <3>1, <3>2, <3>3, <3>4, <3>5, CleanStepInv
  <2>13. CASE KeepHeading
    <3>1. /\ ~lines[line].excluded /\ NextLine
          /\ skipBelow' = 0 /\ kept' = Append(kept, line)
      BY <2>13 DEF KeepHeading
    <3>2. \A g \in 1 .. line : ~(lines[g].excluded /\ Governs(g, line))
      BY <2>3, <2>11, <2>13, <3>1 DEF KeepHeading
    <3>3. ~InExcludedSection(line)
      BY <3>2 DEF InExcludedSection
    <3> QED
      BY <2>1, <3>1, <3>2, <3>3, CleanStepInv
  <2>14. CASE TextLine
    <3>1. /\ ~lines[line].heading /\ NextLine /\ skipBelow' = skipBelow
          /\ kept' = IF skipBelow = 0 THEN Append(kept, line) ELSE kept
      BY <2>14 DEF TextLine
    <3>2. ~lines[line].excluded
      BY <2>1, <2>2, <3>1, Line
    <3>3. \A g \in 1 .. line - 1 : Governs(g, line) <=> Governs(g, line - 1)
      BY <2>7, <3>1
    <3>4. \A g \in 1 .. line : lines[g].excluded /\ Governs(g, line) =>
              skipBelow' # 0 /\ lines[g].level >= skipBelow'
      BY <2>2, <2>3, <3>1, <3>2, <3>3 DEF Open
    <3>5. skipBelow' # 0 => \E g \in 1 .. line :
              lines[g].excluded /\ lines[g].level = skipBelow' /\ Governs(g, line)
      BY <2>2, <2>8, <3>1, <3>3 DEF Open
    <3>6. InExcludedSection(line) <=> skipBelow # 0
      BY <3>1, <3>4, <3>5 DEF InExcludedSection
    <3>7. skipBelow' \in Levels \union {0}
      BY <2>2, <3>1 DEF CleanTypeOK
    <3> QED
      BY <2>1, <2>4, <3>1, <3>4, <3>5, <3>6, <3>7, CleanStepInv
  <2> QED
    BY <1>1, <2>10, <2>12, <2>13, <2>14 DEF CleanNext
<1>2. CASE UNCHANGED cleanVars
  <2>1. UNCHANGED <<lines, line, skipBelow, kept>>
    BY <1>2 DEF cleanVars
  <2>2. /\ CleanTypeOK' <=> CleanTypeOK
        /\ \A h, i : Governs(h, i)' <=> Governs(h, i)
        /\ \A h : Governs(h, line - 1)' <=> Governs(h, line - 1)
        /\ \A i : IsKept(i)' <=> IsKept(i)
    BY <2>1 DEF CleanTypeOK, Governs, IsKept
  <2>3. \A i : InExcludedSection(i)' <=> InExcludedSection(i)
    BY <2>1, <2>2 DEF InExcludedSection
  <2> QED
    BY <2>1, <2>2, <2>3 DEF CleanInv, SkipInv, SkipsExcludedSectionsOnly
<1> QED
  BY <1>1, <1>2

(* clean_text leaves out the excluded sections and nothing else.           *)
THEOREM CleanedAsTheSectionsSay == CleanSpec => []SkipsExcludedSectionsOnly
<1>1. CleanInit => CleanInv
  BY CleanInitInv
<1>2. CleanInv /\ [CleanNext]_cleanVars => CleanInv'
  BY CleanNextInv
<1>3. CleanInv => SkipsExcludedSectionsOnly
  BY DEF CleanInv
<1> QED
  BY <1>1, <1>2, <1>3, PTL DEF CleanSpec

(***************************************************************************)
(* Minima and the breaks of a text                                         *)
(***************************************************************************)
LEMMA MinOfNaturals ==
  ASSUME NEW S \in SUBSET Nat, S # {}
  PROVE  Min(S) \in S /\ \A y \in S : Min(S) <= y
<1>1. \E x \in S : \A y \in S : ~(<<y, x>> \in OpToRel(<, Nat))
  BY NatLessThanWellFounded, WFMin
<1>2. PICK x \in S : \A y \in S : ~(<<y, x>> \in OpToRel(<, Nat))
  BY <1>1
<1>3. \A y \in S : x <= y
  <2> TAKE y \in S
  <2>1. x \in Nat /\ y \in Nat
    OBVIOUS
  <2>2. y < x => <<y, x>> \in OpToRel(<, Nat)
    BY <2>1, Zenon DEF OpToRel
  <2>3. ~(y < x)
    BY <1>2, <2>2, Zenon
  <2> QED
    BY <2>1, <2>3
<1> QED
  BY <1>2, <1>3 DEF Min

LEMMA SeqElement ==
  ASSUME NEW S, NEW s \in Seq(S)
  PROVE  /\ Len(s) \in Nat /\ DOMAIN s = 1 .. Len(s)
         /\ \A i \in 1 .. Len(s) : s[i] \in S
         /\ s # <<>> => Len(s) \in 1 .. Len(s)
  OBVIOUS

(* The words of the text: places and order.                                *)
LEMMA Words ==
  ASSUME ChunkTypeOK
  PROVE  /\ Len(words) \in Nat /\ DOMAIN words = 1 .. Len(words)
         /\ \A i \in 1 .. Len(words) :
               /\ words[i].from \in Nat /\ words[i].to \in Nat /\ words[i].from < words[i].to
               /\ i > 1 => words[i].from =
                              words[i - 1].to + Separation(words[i].break = "paragraph")
         /\ \A i, j \in 1 .. Len(words) : i < j => words[i].to < words[j].from
<1> DEFINE W == [from : Nat, to : Nat, break : {"paragraph", "sentence", "word"}]
<1>1. words \in Seq(W) /\ WellFormed(words)
  BY DEF ChunkTypeOK, WellFormed
<1>2. Len(words) \in Nat /\ DOMAIN words = 1 .. Len(words)
  BY <1>1, SeqElement
<1>3. \A i \in 1 .. Len(words) : words[i] \in W
  <2> HIDE DEF W
  <2> QED
    BY <1>1, SeqElement
<1>4. \A i \in 1 .. Len(words) : words[i].from \in Nat /\ words[i].to \in Nat
  BY <1>3
<1> QED
  BY <1>1, <1>2, <1>4 DEF WellFormed

(* A word begins a paragraph if its break says so, and what separates it   *)
(* from the word before it follows.                                        *)
LEMMA Breaks ==
  ASSUME ChunkTypeOK, NEW i \in 1 .. Len(words)
  PROVE  /\ StartsParagraph(words[i].from) <=> words[i].break = "paragraph"
         /\ i > 1 => words[i].from =
                        words[i - 1].to + Separation(StartsParagraph(words[i].from))
<1>1. ASSUME NEW j \in 1 .. Len(words), words[j].from = words[i].from PROVE j = i
  <2>1. /\ words[i].from \in Nat /\ words[i].to \in Nat /\ words[i].from < words[i].to
        /\ words[j].from \in Nat /\ words[j].to \in Nat /\ words[j].from < words[j].to
        /\ i < j => words[i].to < words[j].from
        /\ j < i => words[j].to < words[i].from
        /\ Len(words) \in Nat
    BY Words
  <2>2. ~(i < j) /\ ~(j < i)
    BY <1>1, <2>1
  <2> QED
    BY <2>1, <2>2
<1>2. StartsParagraph(words[i].from) <=> words[i].break = "paragraph"
  BY <1>1, Words DEF StartsParagraph
<1> QED
  BY <1>2, Words DEF Separation

(* The end of a paragraph or sentence, and no break of its kind before it. *)
LEMMA LastBeforeBreak ==
  ASSUME ChunkTypeOK, next <= Len(words), NEW kinds
  PROVE  /\ LastBefore(kinds) \in next .. Len(words)
         /\ \A i \in next + 1 .. LastBefore(kinds) : words[i].break \notin kinds
         /\ LastBefore(kinds) < Len(words) =>
               words[LastBefore(kinds) + 1].break \in kinds
<1> DEFINE Ends == {i \in next .. Len(words) : i = Len(words) \/ words[i + 1].break \in kinds}
<1>1. Len(words) \in Nat /\ next \in 1 .. Len(words)
  BY Words DEF ChunkTypeOK
<1>2. Ends \in SUBSET Nat /\ Len(words) \in Ends
  BY <1>1
<1>3. LastBefore(kinds) = Min(Ends)
  BY DEF LastBefore
<1>4. LastBefore(kinds) \in Ends /\ \A y \in Ends : LastBefore(kinds) <= y
  BY <1>2, <1>3, MinOfNaturals
<1>5. ASSUME NEW i \in next + 1 .. LastBefore(kinds), words[i].break \in kinds PROVE FALSE
  <2>1. i - 1 \in next .. Len(words) /\ i - 1 < LastBefore(kinds) /\ (i - 1) + 1 = i
    BY <1>1, <1>4
  <2>2. i - 1 \in Ends
    BY <1>5, <2>1
  <2> QED
    BY <1>1, <1>4, <2>1, <2>2
<1> QED
  BY <1>1, <1>4, <1>5

(***************************************************************************)
(* Pieces                                                                  *)
(***************************************************************************)
LEMMA SeparationIs == ASSUME NEW s PROVE Separation(s) \in {1, 2}
  BY DEF Separation

(* The places of the last piece, l, and of one that follows it.            *)
LEMMA NextPlace ==
  ASSUME NEW lf \in Nat, NEW lt \in Nat, NEW la \in Nat, lf < lt, lt - lf <= ChunkSize,
         NEW s \in {1, 2}, NEW pf \in Nat, NEW pa \in Nat,
         pa = la + (lt - lf) + s,
         pf = lt + s \/ (pf = lt /\ lt - lf = ChunkSize)
  PROVE  /\ la + (lt - lf) < pa /\ lt <= pf
         /\ pa - la = pf - lf \/ pa - la >= ChunkSize
  BY ChunkAssumption

(* A piece that follows the others keeps them in order, and what follows   *)
(* it follows the longer sequence.                                         *)
LEMMA AppendPieceInv ==
  ASSUME ChunkTypeOK, PieceInv, NEW from \in Nat, NEW to \in Nat,
         from < to, to - from <= ChunkSize, Follows(from),
         AppendPiece(from, to), words' = words
  PROVE  /\ pieces' \in Seq([from : Nat, to : Nat, at : Nat])
         /\ Len(pieces') = Len(pieces) + 1
         /\ PieceInv'
         /\ \A f : f = to + Separation(StartsParagraph(f)) => Follows(f)'
         /\ to - from = ChunkSize => Follows(to)'
<1> DEFINE n == Len(pieces) + 1
           p == [from |-> from, to |-> to, at |-> JoinedAt(from)]
           l == pieces[Len(pieces)]
<1>1. /\ pieces \in Seq([from : Nat, to : Nat, at : Nat])
      /\ Len(pieces) \in Nat /\ DOMAIN pieces = 1 .. Len(pieces)
      /\ \A k \in 1 .. Len(pieces) :
            pieces[k].from \in Nat /\ pieces[k].to \in Nat /\ pieces[k].at \in Nat
      /\ ChunkSize \in Nat \ {0}
  <2> DEFINE P == [from : Nat, to : Nat, at : Nat]
  <2>1. pieces \in Seq(P)
    BY DEF ChunkTypeOK
  <2>2. Len(pieces) \in Nat /\ DOMAIN pieces = 1 .. Len(pieces)
    BY <2>1, SeqElement
  <2>3. \A k \in 1 .. Len(pieces) : pieces[k] \in P
    <3> HIDE DEF P
    <3> QED
      BY <2>1, SeqElement
  <2> QED
    BY <2>1, <2>2, <2>3, ChunkAssumption
<1>2. pieces # <<>> => Len(pieces) \in 1 .. Len(pieces)
  BY <1>1
<1>3. JoinedAt(from) \in Nat
  <2>1. CASE pieces = <<>>
    BY <2>1 DEF JoinedAt
  <2>2. CASE pieces # <<>>
    <3>1. l.from \in Nat /\ l.to \in Nat /\ l.at \in Nat /\ l.from < l.to
      BY <1>1, <1>2, <2>2 DEF PieceInv
    <3>2. JoinedAt(from) = l.at + (l.to - l.from) + Separation(StartsParagraph(from))
      BY <2>2 DEF JoinedAt
    <3>3. Separation(StartsParagraph(from)) \in {1, 2}
      BY SeparationIs
    <3> HIDE DEF l
    <3> QED
      BY <3>1, <3>2, <3>3
  <2> QED
    BY <2>1, <2>2
<1>4. p \in [from : Nat, to : Nat, at : Nat] /\ p.from = from /\ p.to = to /\ p.at = JoinedAt(from)
  BY <1>3
<1>5. pieces' = Append(pieces, p)
  BY DEF AppendPiece
<1>6. /\ pieces' \in Seq([from : Nat, to : Nat, at : Nat])
      /\ Len(pieces') = n
      /\ DOMAIN pieces' = 1 .. n
      /\ pieces'[n] = p
      /\ \A k \in 1 .. Len(pieces) : pieces'[k] = pieces[k]
  BY <1>1, <1>4, <1>5
<1>7. \A k \in 1 .. n : k \in 1 .. Len(pieces) \/ k = n
  BY <1>1
<1>8. pieces' # <<>>
  BY <1>1, <1>6
<1> HIDE DEF n, p
<1>9. \A k \in DOMAIN pieces' : pieces'[k].from < pieces'[k].to /\ Size(k)' <= ChunkSize
  <2> SUFFICES ASSUME NEW k \in 1 .. n
               PROVE  pieces'[k].from < pieces'[k].to /\ pieces'[k].to - pieces'[k].from <= ChunkSize
    BY <1>6 DEF Size
  <2>1. CASE k \in 1 .. Len(pieces)
    BY <1>1, <1>6, <2>1 DEF PieceInv, Size
  <2>2. CASE k = n
    BY <1>4, <1>6, <2>2
  <2> QED
    BY <1>7, <2>1, <2>2
<1>10. ASSUME NEW k \in 1 .. Len(pieces)
       PROVE  /\ pieces[k].at + Size(k) < p.at
              /\ pieces[k].to <= p.from
              /\ \/ p.at - pieces[k].at = p.from - pieces[k].from
                 \/ p.at - pieces[k].at >= ChunkSize
  <2>1. pieces # <<>> /\ Len(pieces) \in 1 .. Len(pieces) /\ (k < Len(pieces) \/ k = Len(pieces))
    <3> HIDE DEF l
    <3>1. k \in Nat /\ k >= 1 /\ k <= Len(pieces) /\ Len(pieces) \in Nat
      BY <1>1
    <3>2. pieces = <<>> => Len(pieces) = 0
      OBVIOUS
    <3>3. pieces # <<>>
      BY <3>1, <3>2
    <3> QED
      BY <3>1, <3>3
  <2>2. PICK s \in {1, 2} : s = Separation(StartsParagraph(from))
    BY SeparationIs
  <2>3. p.at = l.at + (l.to - l.from) + s /\ p.from = from
    BY <1>4, <2>1, <2>2 DEF JoinedAt
  <2>4. from = l.to + s \/ (from = l.to /\ l.to - l.from = ChunkSize)
    BY <2>1, <2>2 DEF Follows
  <2>5. /\ l.from \in Nat /\ l.to \in Nat /\ l.at \in Nat
        /\ l.from < l.to /\ l.to - l.from <= ChunkSize
        /\ pieces[k].from \in Nat /\ pieces[k].to \in Nat /\ pieces[k].at \in Nat
        /\ pieces[k].from < pieces[k].to
    BY <1>1, <2>1 DEF PieceInv, Size
  <2>6. p.at \in Nat /\ p.from \in Nat
    BY <1>3, <1>4
  <2>7. /\ l.at + (l.to - l.from) < p.at /\ l.to <= p.from
        /\ p.at - l.at = p.from - l.from \/ p.at - l.at >= ChunkSize
    <3>1. PICK lf \in Nat, lt \in Nat, la \in Nat, pf \in Nat, pa \in Nat :
             lf = l.from /\ lt = l.to /\ la = l.at /\ pf = p.from /\ pa = p.at
      BY <2>5, <2>6
    <3>2. /\ lf < lt /\ lt - lf <= ChunkSize
          /\ pa = la + (lt - lf) + s
          /\ pf = lt + s \/ (pf = lt /\ lt - lf = ChunkSize)
      BY <2>3, <2>4, <2>5, <3>1
    <3>3. /\ la + (lt - lf) < pa /\ lt <= pf
          /\ pa - la = pf - lf \/ pa - la >= ChunkSize
      BY <3>2, NextPlace
    <3> QED
      BY <3>1, <3>3
  <2>8. CASE k = Len(pieces)
    BY <2>7, <2>8 DEF Size
  <2>9. CASE k < Len(pieces)
    <3>1. /\ pieces[k].at + (pieces[k].to - pieces[k].from) < l.at
          /\ pieces[k].to <= l.from
          /\ \/ l.at - pieces[k].at = l.from - pieces[k].from
             \/ l.at - pieces[k].at >= ChunkSize
      BY <1>1, <2>1, <2>9 DEF PieceInv, Size
    <3> HIDE DEF l
    <3>2. /\ pieces[k].at + (pieces[k].to - pieces[k].from) < p.at
          /\ pieces[k].to <= p.from
          /\ \/ p.at - pieces[k].at = p.from - pieces[k].from
             \/ p.at - pieces[k].at >= ChunkSize
      <4>1. PICK lf \in Nat, lt \in Nat, la \in Nat, pf \in Nat, pa \in Nat :
               lf = l.from /\ lt = l.to /\ la = l.at /\ pf = p.from /\ pa = p.at
        BY <2>5, <2>6
      <4>2. PICK kf \in Nat, kt \in Nat, ka \in Nat :
               kf = pieces[k].from /\ kt = pieces[k].to /\ ka = pieces[k].at
        BY <2>5
      <4>3. /\ lf < lt /\ la + (lt - lf) < pa /\ lt <= pf
            /\ pa - la = pf - lf \/ pa - la >= ChunkSize
            /\ kf < kt /\ ka + (kt - kf) < la /\ kt <= lf
            /\ la - ka = lf - kf \/ la - ka >= ChunkSize
        BY <2>5, <2>7, <3>1, <4>1, <4>2
      <4>4. /\ ka + (kt - kf) < pa /\ kt <= pf
            /\ pa - ka = pf - kf \/ pa - ka >= ChunkSize
        BY <4>3, ChunkAssumption
      <4> QED
        BY <4>1, <4>2, <4>4
    <3> QED
      BY <3>2 DEF Size
  <2> QED
    BY <2>1, <2>8, <2>9
<1>11. ASSUME NEW k \in DOMAIN pieces', NEW j \in DOMAIN pieces', k < j
       PROVE  /\ pieces'[k].at + Size(k)' < pieces'[j].at
              /\ pieces'[k].to <= pieces'[j].from
              /\ \/ pieces'[j].at - pieces'[k].at = pieces'[j].from - pieces'[k].from
                 \/ pieces'[j].at - pieces'[k].at >= ChunkSize
  <2>1. k \in 1 .. Len(pieces) /\ (j \in 1 .. Len(pieces) \/ j = n)
    <3>1. n = Len(pieces) + 1
      BY DEF n
    <3>2. k \in 1 .. n /\ j \in 1 .. n /\ Len(pieces) \in Nat /\ k < j
      BY <1>1, <1>6, <1>11
    <3>3. k \in Nat /\ j \in Nat /\ 1 <= k /\ 1 <= j /\ k <= n /\ j <= n
      BY <3>1, <3>2
    <3>4. k <= Len(pieces) /\ (j <= Len(pieces) \/ j = n)
      BY <3>1, <3>2, <3>3
    <3> QED
      BY <3>2, <3>3, <3>4
  <2>2. CASE j = n
    BY <1>6, <1>10, <2>1, <2>2 DEF Size
  <2>3. CASE j \in 1 .. Len(pieces)
    BY <1>1, <1>6, <1>11, <2>1, <2>3 DEF PieceInv, Size
  <2> QED
    BY <2>1, <2>2, <2>3
<1>12. PieceInv'
  BY <1>9, <1>11 DEF PieceInv
<1>13. pieces'[Len(pieces')].to = to /\ pieces'[Len(pieces')].from = from
  BY <1>4, <1>6
<1>14. \A f : StartsParagraph(f)' <=> StartsParagraph(f)
  BY DEF StartsParagraph
<1>15. \A f : Separation(StartsParagraph(f))' = Separation(StartsParagraph(f))
  BY <1>14 DEF Separation
<1>16. \A f : f = to + Separation(StartsParagraph(f)) => Follows(f)'
  BY <1>8, <1>13, <1>15 DEF Follows
<1>17. to - from = ChunkSize => Follows(to)'
  BY <1>8, <1>13 DEF Follows
<1> QED
  BY <1>6, <1>12, <1>16, <1>17 DEF n

(***************************************************************************)
(* Steps of _pieces                                                        *)
(***************************************************************************)
Splitting == mode \in {"paragraph", "sentence", "words"}

(* While pieces are made nothing is packed.                                *)
LEMMA SplitStepInv ==
  ASSUME ChunkInv, Splitting, UNCHANGED <<words, packVars>>,
         mode' \in {"paragraph", "sentence", "words", "packing"},
         next' \in 1 .. Len(words) + 1, last' \in 0 .. Len(words),
         part' \in Nat \X Nat, rest' \in Nat,
         pieces' \in Seq([from : Nat, to : Nat, at : Nat]),
         PieceInv', SplitInv'
  PROVE  ChunkInv'
<1>1. /\ words' = words /\ lo' = 1 /\ hi' = 0 /\ chunks' = <<>>
      /\ lo = 1 /\ hi = 0 /\ chunks = <<>>
  BY DEF ChunkInv, PackInv, Splitting, packVars
<1>2. Len(pieces') \in Nat
  OBVIOUS
<1>3. ChunkTypeOK'
  <2>1. /\ lo' \in 1 .. Len(pieces') + 1 /\ hi' \in 0 .. Len(pieces')
        /\ chunks' \in Seq((1 .. Len(pieces')) \X (1 .. Len(pieces')))
    BY <1>1, <1>2
  <2>2. WellFormed(words)'
    BY <1>1 DEF ChunkInv, ChunkTypeOK, WellFormed
  <2> QED
    BY <1>1, <2>1, <2>2 DEF ChunkTypeOK, Modes
<1>4. PackInv'
  BY <1>1, ChunkAssumption DEF PackInv, Length
<1>5. ChunksFit' /\ ChunksAdvance'
  BY <1>1 DEF ChunksFit, ChunksAdvance
<1> QED
  BY <1>3, <1>4, <1>5 DEF ChunkInv

(* The word that is next, when there is one, begins what follows.          *)
LEMMA TakeWholeInv ==
  ASSUME ChunkInv, mode \in {"paragraph", "sentence"}, NEW end \in next .. Len(words),
         next <= Len(words), Fits(words[next].from, words[end].to), TakeWhole(end),
         mode' \in {"paragraph", "sentence"}, mode' = "sentence" => end < Len(words)
  PROVE  ChunkInv'
<1>1. /\ words' = words /\ next' = end + 1 /\ last' = last /\ part' = part /\ rest' = rest
      /\ AppendPiece(words[next].from, words[end].to)
      /\ UNCHANGED packVars
  BY DEF TakeWhole
<1>2. /\ ChunkTypeOK /\ PieceInv /\ Follows(words[next].from)
      /\ next \in 1 .. Len(words) /\ Len(words) \in Nat /\ end \in 1 .. Len(words)
  BY Words DEF ChunkInv, SplitInv, ChunkTypeOK
<1>3. /\ words[next].from \in Nat /\ words[end].to \in Nat
      /\ words[next].from < words[end].to
      /\ words[end].to - words[next].from <= ChunkSize
  <2>1. /\ words[next].from \in Nat /\ words[next].to \in Nat
        /\ words[end].from \in Nat /\ words[end].to \in Nat
        /\ words[next].from < words[next].to /\ words[end].from < words[end].to
        /\ next < end => words[next].to < words[end].from
    BY <1>2, Words
  <2>2. next < end \/ next = end
    BY <1>2
  <2> QED
    BY <2>1, <2>2 DEF Fits
<1>4. /\ pieces' \in Seq([from : Nat, to : Nat, at : Nat])
      /\ PieceInv'
      /\ \A f : f = words[end].to + Separation(StartsParagraph(f)) => Follows(f)'
  BY <1>1, <1>2, <1>3, AppendPieceInv
<1>5. ASSUME end + 1 <= Len(words) PROVE Follows(words[next].from)'
  <2>1. end + 1 \in 1 .. Len(words) /\ end + 1 > 1 /\ (end + 1) - 1 = end
    BY <1>2, <1>5
  <2>2. words[end + 1].from =
           words[end].to + Separation(StartsParagraph(words[end + 1].from))
    BY <1>2, <2>1, Breaks
  <2>3. PICK f : f = words[end + 1].from
    OBVIOUS
  <2>4. Follows(f)'
    BY <1>4, <2>2, <2>3
  <2>5. words'[next'].from = f
    BY <1>1, <2>3
  <2> QED
    BY <1>1, <2>4, <2>5 DEF Follows, StartsParagraph
<1>6. SplitInv'
  <2>1. mode' = "sentence" => next' <= Len(words')
    BY <1>1, <1>2
  <2> QED
    BY <1>1, <1>5, <2>1 DEF SplitInv, Follows, StartsParagraph
<1>7. next' \in 1 .. Len(words) + 1
  BY <1>1, <1>2
<1> QED
  BY <1>1, <1>2, <1>4, <1>6, <1>7, SplitStepInv DEF ChunkTypeOK, Splitting

LEMMA SplitParagraphInv == ASSUME ChunkInv, SplitParagraph PROVE ChunkInv'
<1> DEFINE end == LastBefore({"paragraph"})
<1>1. /\ mode = "paragraph" /\ next <= Len(words) /\ ChunkTypeOK
      /\ end \in next .. Len(words)
  BY LastBeforeBreak DEF SplitParagraph, ChunkInv
<1>2. CASE Fits(words[next].from, words[end].to)
  <2>1. TakeWhole(end) /\ mode' = mode
    BY <1>2 DEF SplitParagraph
  <2> HIDE DEF end
  <2> QED
    BY <1>1, <1>2, <2>1, TakeWholeInv
<1>3. CASE ~Fits(words[next].from, words[end].to)
  <2>1. mode' = "sentence" /\ UNCHANGED <<splitVars, packVars>>
    BY <1>3 DEF SplitParagraph
  <2>2. PieceInv' /\ SplitInv'
    BY <1>1, <2>1 DEF ChunkInv, SplitInv, splitVars, Follows, StartsParagraph, PieceInv, Size
  <2> QED
    BY <1>1, <2>1, <2>2, SplitStepInv DEF ChunkTypeOK, Splitting, splitVars
<1> QED
  BY <1>2, <1>3

LEMMA SplitSentenceInv == ASSUME ChunkInv, SplitSentence PROVE ChunkInv'
<1> DEFINE end == LastBefore({"paragraph", "sentence"})
<1>1. /\ mode = "sentence" /\ next <= Len(words) /\ ChunkTypeOK
      /\ next \in 1 .. Len(words) /\ Len(words) \in Nat
  BY Words DEF SplitSentence, ChunkInv, SplitInv, ChunkTypeOK
<1>2. /\ end \in next .. Len(words)
      /\ \A i \in next + 1 .. end : words[i].break \notin {"paragraph", "sentence"}
  BY <1>1, LastBeforeBreak
<1>3. CASE Fits(words[next].from, words[end].to)
  <2>1. TakeWhole(end) /\ mode' = AfterSentence(end)
    BY <1>3 DEF SplitSentence
  <2>2. mode' \in {"paragraph", "sentence"} /\ (mode' = "sentence" => end # Len(words))
    BY <2>1 DEF AfterSentence
  <2> HIDE DEF end
  <2>3. mode' = "sentence" => end < Len(words)
    BY <1>1, <1>2, <2>2
  <2> QED
    BY <1>1, <1>2, <1>3, <2>1, <2>2, <2>3, TakeWholeInv
<1>4. CASE ~Fits(words[next].from, words[end].to)
  <2>1. /\ mode' = "words" /\ last' = end /\ part' = <<0, 0>> /\ rest' = words[next].from
        /\ words' = words /\ next' = next /\ pieces' = pieces /\ UNCHANGED packVars
    BY <1>4 DEF SplitSentence
  <2> HIDE DEF end
  <2>2. /\ words[next].from \in Nat /\ words[next].to \in Nat
        /\ words[next].from < words[next].to
    BY <1>1, Words
  <2>3. \A i \in next + 1 .. end : words[i].break = "word"
    <3> TAKE i \in next + 1 .. end
    <3>1. i \in 1 .. Len(words)
      BY <1>1, <1>2
    <3>2. words[i] \in [from : Nat, to : Nat, break : {"paragraph", "sentence", "word"}]
      BY <1>1, <3>1, SeqElement DEF ChunkTypeOK, WellFormed
    <3>3. words[i].break \in {"paragraph", "sentence", "word"}
      BY <3>2
    <3> QED
      BY <1>2, <3>3
  <2>4. Follows(words[next].from) /\ PieceInv
    BY <1>1 DEF ChunkInv, SplitInv
  <2>5. PartIsEmpty'
    BY <2>1 DEF PartIsEmpty
  <2>6. Follows(rest)' /\ PieceInv'
    BY <2>1, <2>4 DEF Follows, StartsParagraph, PieceInv, Size
  <2>7. last' >= 1 /\ next' <= last' + 1 /\ next' <= last'
    BY <1>1, <1>2, <2>1
  <2>8. SplitInv'
    BY <2>1, <2>2, <2>3, <2>5, <2>6, <2>7 DEF SplitInv
  <2>9. last' \in 0 .. Len(words) /\ part' \in Nat \X Nat
    BY <1>1, <1>2, <2>1
  <2> QED
    BY <1>1, <2>1, <2>2, <2>6, <2>8, <2>9, SplitStepInv DEF ChunkTypeOK, Splitting
<1> QED
  BY <1>3, <1>4

(* What holds inside a sentence that is split into words.                  *)
LEMMA InsideSentence ==
  ASSUME ChunkInv, mode = "words"
  PROVE  /\ ChunkTypeOK /\ PieceInv /\ Len(words) \in Nat
         /\ next \in 1 .. Len(words) + 1 /\ last \in 1 .. Len(words) /\ next <= last + 1
         /\ part \in Nat \X Nat /\ part[1] \in Nat /\ part[2] \in Nat
         /\ rest \in Nat
         /\ ChunkSize \in Nat \ {0}
         /\ next <= last =>
               /\ next \in 1 .. Len(words)
               /\ words[next].from \in Nat /\ words[next].to \in Nat
               /\ words[next].from <= rest /\ rest < words[next].to
  BY Words, ChunkAssumption DEF ChunkInv, SplitInv, ChunkTypeOK

LEMMA FlushBeforeCutInv == ASSUME ChunkInv, FlushBeforeCut PROVE ChunkInv'
<1>1. /\ mode = "words" /\ next <= last /\ ~PartIsEmpty
      /\ AppendPiece(part[1], part[2]) /\ part' = <<0, 0>>
      /\ mode' = mode /\ words' = words /\ next' = next /\ last' = last /\ rest' = rest
      /\ UNCHANGED packVars
  BY DEF FlushBeforeCut
<1>2. /\ part[1] < part[2] /\ part[2] - part[1] <= ChunkSize /\ Follows(part[1])
      /\ next > 1 /\ part[2] = words[next - 1].to
      /\ words[next].break = "word" /\ rest = words[next].from
      /\ \A i \in next + 1 .. last : words[i].break = "word"
  BY <1>1 DEF ChunkInv, SplitInv
<1>3. /\ pieces' \in Seq([from : Nat, to : Nat, at : Nat])
      /\ PieceInv'
      /\ \A f : f = part[2] + Separation(StartsParagraph(f)) => Follows(f)'
  BY <1>1, <1>2, InsideSentence, AppendPieceInv
<1>4. rest = part[2] + Separation(StartsParagraph(rest))
  BY <1>1, <1>2, InsideSentence, Breaks
<1>5. Follows(rest)'
  <2>1. PICK f : f = rest
    OBVIOUS
  <2>2. Follows(f)'
    BY <1>3, <1>4, <2>1
  <2> QED
    BY <1>1, <2>1, <2>2 DEF Follows, StartsParagraph
<1>6. PartIsEmpty' /\ part' \in Nat \X Nat
  BY <1>1 DEF PartIsEmpty
<1>7. SplitInv'
  BY <1>1, <1>2, <1>5, <1>6, InsideSentence DEF SplitInv
<1> QED
  BY <1>1, <1>3, <1>6, <1>7, InsideSentence, SplitStepInv DEF ChunkTypeOK, Splitting

LEMMA CutWordInv == ASSUME ChunkInv, CutWord PROVE ChunkInv'
<1>1. /\ mode = "words" /\ next <= last /\ PartIsEmpty
      /\ words[next].to - rest > ChunkSize
      /\ AppendPiece(rest, rest + ChunkSize) /\ rest' = rest + ChunkSize
      /\ mode' = mode /\ words' = words /\ next' = next /\ last' = last /\ part' = part
      /\ UNCHANGED packVars
  BY DEF CutWord
<1>2. /\ Follows(rest)
      /\ \A i \in next + 1 .. last : words[i].break = "word"
  BY <1>1 DEF ChunkInv, SplitInv
<1>3. /\ rest \in Nat /\ ChunkSize \in Nat \ {0} /\ ChunkTypeOK /\ PieceInv
      /\ words[next].from \in Nat /\ words[next].to \in Nat /\ words[next].from <= rest
  BY <1>1, InsideSentence
<1>4. /\ pieces' \in Seq([from : Nat, to : Nat, at : Nat])
      /\ PieceInv'
      /\ \A f : f = rest + ChunkSize => Follows(f)'
  <2>1. PICK to \in Nat : to = rest + ChunkSize /\ rest < to /\ to - rest = ChunkSize
    BY <1>3
  <2>2. to - rest <= ChunkSize
    BY <1>3, <2>1
  <2>3. AppendPiece(rest, to)
    BY <1>1, <2>1
  <2>4. words' = words
    BY <1>1
  <2>5. /\ pieces' \in Seq([from : Nat, to : Nat, at : Nat]) /\ PieceInv' /\ Follows(to)'
    BY <1>2, <1>3, <2>1, <2>2, <2>3, <2>4, AppendPieceInv
  <2> QED
    BY <2>1, <2>5
<1>5. Follows(rest)'
  BY <1>1, <1>4 DEF Follows
<1>6. PartIsEmpty' /\ words'[next'].from <= rest' /\ rest' < words'[next'].to
  <2>1. words[next].from <= rest + ChunkSize /\ rest + ChunkSize < words[next].to
    BY <1>1, <1>3
  <2> QED
    BY <1>1, <2>1 DEF PartIsEmpty
<1>7. SplitInv'
  BY <1>1, <1>2, <1>5, <1>6, InsideSentence DEF SplitInv
<1> QED
  BY <1>1, <1>3, <1>4, <1>7, InsideSentence, SplitStepInv DEF ChunkTypeOK, Splitting

(* The words of the sentence after the current one follow it closely.      *)
LEMMA NextWordInSentence ==
  ASSUME ChunkInv, mode = "words", next < last
  PROVE  /\ next + 1 \in 1 .. Len(words) /\ words[next + 1].break = "word"
         /\ words[next + 1].from \in Nat /\ words[next + 1].to \in Nat
         /\ words[next + 1].from < words[next + 1].to
         /\ words[next + 1].from =
                words[next].to + Separation(StartsParagraph(words[next + 1].from))
<1>1. next + 1 \in 1 .. Len(words) /\ next + 1 > 1 /\ (next + 1) - 1 = next
  BY InsideSentence
<1>2. next + 1 \in next + 1 .. last
  BY InsideSentence
<1> QED
  BY <1>1, <1>2, InsideSentence, Words, Breaks DEF ChunkInv, SplitInv

LEMMA AddWordInv == ASSUME ChunkInv, AddWord PROVE ChunkInv'
<1> DEFINE joins == PartIsEmpty \/ Fits(part[1], words[next].to)
<1>1. /\ mode = "words" /\ next <= last /\ words[next].to - rest <= ChunkSize
      /\ mode' = mode /\ words' = words /\ next' = next + 1 /\ last' = last
      /\ rest' = IF next < last THEN words[next + 1].from ELSE rest
      /\ UNCHANGED packVars
  BY DEF AddWord
<1>0. /\ Len(words) \in Nat /\ next \in 1 .. Len(words)
      /\ last \in 1 .. Len(words) /\ last >= 1
  BY <1>1, InsideSentence
<1>2. /\ PartIsEmpty => Follows(rest)
      /\ \A i \in next + 1 .. last : words[i].break = "word"
      /\ ~PartIsEmpty =>
            /\ part[1] < part[2] /\ part[2] - part[1] <= ChunkSize /\ Follows(part[1])
            /\ next > 1 /\ part[2] = words[next - 1].to
            /\ words[next].break = "word" /\ rest = words[next].from
  BY <1>1 DEF ChunkInv, SplitInv
<1>3. /\ next < last =>
            /\ words[next + 1].break = "word"
            /\ words[next + 1].from \in Nat
            /\ words[next + 1].from < words[next + 1].to
  BY <1>1, NextWordInSentence
<1>4. ASSUME pieces' \in Seq([from : Nat, to : Nat, at : Nat]), PieceInv',
             NEW begin \in Nat, part' = <<begin, words[next].to>>,
             begin < words[next].to, words[next].to - begin <= ChunkSize,
             Follows(part[1])'
      PROVE  ChunkInv'
  <2>1. part'[1] = begin /\ part'[2] = words[next].to /\ ~PartIsEmpty' /\ part' \in Nat \X Nat
    <3>1. PICK end \in Nat : end = words[next].to
      BY <1>1, InsideSentence
    <3>2. part' = <<begin, end>> /\ begin < end
      BY <1>4, <3>1
    <3>3. part'[1] = begin /\ part'[2] = end /\ part' \in Nat \X Nat
      BY <3>2
    <3> QED
      BY <3>1, <3>2, <3>3 DEF PartIsEmpty
  <2>2. next' > 1 /\ next' - 1 = next /\ next' <= last' + 1 /\ next' \in 1 .. Len(words) + 1
    <3>1. /\ next + 1 > 1 /\ (next + 1) - 1 = next /\ next + 1 <= last + 1
          /\ next + 1 \in 1 .. Len(words) + 1
      BY <1>0, <1>1
    <3> QED
      BY <1>1, <3>1
  <2>3. next' <= last' => next < last
    BY <1>0, <1>1
  <2>4. next' <= last' =>
          /\ rest' = words[next + 1].from /\ words[next + 1].break = "word"
          /\ words[next + 1].from <= rest' /\ rest' < words[next + 1].to
    BY <1>1, <1>3, <2>3
  <2>5. rest' \in Nat
    BY <1>1, <1>3, InsideSentence
  <2>6. \A i \in next' + 1 .. last' : words[i].break = "word"
    <3>1. \A i \in (next + 1) + 1 .. last : i \in next + 1 .. last
      BY <1>0
    <3> QED
      BY <1>1, <1>2, <3>1
  <2>7. last' >= 1
    BY <1>0, <1>1
  <2>8. SplitInv'
    BY <1>1, <1>4, <2>1, <2>2, <2>4, <2>6, <2>7 DEF SplitInv
  <2> QED
    BY <1>1, <1>4, <2>1, <2>2, <2>5, <2>8, InsideSentence, SplitStepInv DEF ChunkTypeOK, Splitting
<1>5. CASE joins
  <2> DEFINE begin == IF PartIsEmpty THEN rest ELSE part[1]
  <2>1. part' = <<begin, words[next].to>> /\ pieces' = pieces
    BY <1>5 DEF AddWord
  <2>2. begin \in Nat /\ begin < words[next].to /\ words[next].to - begin <= ChunkSize
    <3>1. CASE PartIsEmpty
      BY <1>1, <3>1, InsideSentence
    <3>2. CASE ~PartIsEmpty
      <4>1. part[2] < words[next].from
        <5>1. next - 1 \in 1 .. Len(words) /\ next - 1 < next /\ next \in 1 .. Len(words)
          <6>1. next > 1
            BY <1>2, <3>2
          <6> QED
            BY <1>0, <6>1
        <5>2. PICK i \in 1 .. Len(words) : i = next - 1
          BY <5>1
        <5>3. i < next
          BY <5>1, <5>2
        <5>4. \A k, j \in 1 .. Len(words) : k < j => words[k].to < words[j].from
          BY <1>1, InsideSentence, Words
        <5>5. words[i].to < words[next].from
          BY <5>1, <5>3, <5>4
        <5> QED
          BY <1>2, <3>2, <5>2, <5>5
      <4>2. part[1] < words[next].to
        BY <1>1, <1>2, <3>2, <4>1, InsideSentence
      <4>3. words[next].to - part[1] <= ChunkSize
        BY <1>5, <3>2 DEF Fits
      <4>4. begin = part[1]
        BY <3>2
      <4> HIDE DEF begin
      <4> QED
        BY <1>1, <4>2, <4>3, <4>4, InsideSentence
    <3> QED
      BY <3>1, <3>2
  <2>3. Follows(begin)
    BY <1>2
  <2>4. PieceInv' /\ pieces' \in Seq([from : Nat, to : Nat, at : Nat])
    BY <1>1, <2>1, InsideSentence DEF PieceInv, Size, ChunkTypeOK
  <2>5. part'[1] = begin
    BY <2>1
  <2>6. Follows(part[1])'
    BY <1>1, <2>1, <2>3, <2>5 DEF Follows, StartsParagraph
  <2> HIDE DEF begin
  <2> QED
    BY <1>4, <2>1, <2>2, <2>4, <2>6
<1>6. CASE ~joins
  <2>1. /\ ~PartIsEmpty /\ AppendPiece(part[1], part[2])
        /\ part' = <<rest, words[next].to>>
    BY <1>6 DEF AddWord
  <2>2. /\ pieces' \in Seq([from : Nat, to : Nat, at : Nat])
        /\ PieceInv'
        /\ \A f : f = part[2] + Separation(StartsParagraph(f)) => Follows(f)'
    BY <1>1, <1>2, <2>1, InsideSentence, AppendPieceInv
  <2>3. rest = part[2] + Separation(StartsParagraph(rest))
    BY <1>1, <1>2, <2>1, InsideSentence, Breaks
  <2>4. PICK f : f = rest
    OBVIOUS
  <2>5. Follows(f)' /\ part'[1] = f
    BY <2>1, <2>2, <2>3, <2>4
  <2>6. Follows(part[1])'
    BY <2>5 DEF Follows
  <2>7. rest \in Nat /\ rest < words[next].to
    BY <1>1, InsideSentence
  <2> QED
    BY <1>1, <1>4, <2>1, <2>2, <2>6, <2>7
<1> QED
  BY <1>5, <1>6

LEMMA EndSentenceInv == ASSUME ChunkInv, EndSentence PROVE ChunkInv'
<1>1. /\ mode = "words" /\ next > last /\ mode' = AfterSentence(last)
      /\ words' = words /\ next' = next /\ last' = last /\ part' = part /\ rest' = rest
      /\ UNCHANGED packVars
  BY DEF EndSentence
<1>2. next = last + 1 /\ ~PartIsEmpty
  BY <1>1, InsideSentence DEF ChunkInv, SplitInv
<1>3. /\ part[1] < part[2] /\ part[2] - part[1] <= ChunkSize /\ Follows(part[1])
      /\ part[2] = words[last].to
  BY <1>1, <1>2, InsideSentence DEF ChunkInv, SplitInv
<1>4. AppendPiece(part[1], part[2])
  BY <1>2 DEF EndSentence
<1>5. /\ pieces' \in Seq([from : Nat, to : Nat, at : Nat])
      /\ PieceInv'
      /\ \A f : f = part[2] + Separation(StartsParagraph(f)) => Follows(f)'
  BY <1>1, <1>3, <1>4, InsideSentence, AppendPieceInv
<1>6. ASSUME next <= Len(words) PROVE Follows(words[next].from)'
  <2>1. next \in 1 .. Len(words) /\ next > 1 /\ next - 1 = last
    BY <1>1, <1>2, <1>6, InsideSentence
  <2>2. words[next].from = part[2] + Separation(StartsParagraph(words[next].from))
    BY <1>1, <1>3, <2>1, InsideSentence, Breaks
  <2>3. PICK f : f = words[next].from
    OBVIOUS
  <2>4. Follows(f)' /\ f = words'[next'].from
    BY <1>1, <1>5, <2>2, <2>3
  <2> QED
    BY <2>4 DEF Follows
<1>7. mode' \in {"paragraph", "sentence"} /\ (mode' = "sentence" => last # Len(words))
  BY <1>1 DEF AfterSentence
<1>8. mode' = "sentence" => next' <= Len(words')
  BY <1>1, <1>2, <1>7, InsideSentence
<1>9. SplitInv'
  BY <1>1, <1>6, <1>7, <1>8 DEF SplitInv
<1> QED
  BY <1>1, <1>5, <1>7, <1>9, InsideSentence, SplitStepInv DEF ChunkTypeOK, Splitting

LEMMA EndPiecesInv == ASSUME ChunkInv, EndPieces PROVE ChunkInv'
<1>1. /\ mode = "paragraph" /\ next > Len(words) /\ mode' = "packing"
      /\ UNCHANGED <<splitVars, packVars>>
  BY DEF EndPieces
<1>2. PieceInv' /\ SplitInv'
  BY <1>1 DEF ChunkInv, SplitInv, PieceInv, Size, splitVars
<1> QED
  BY <1>1, <1>2, SplitStepInv DEF ChunkInv, ChunkTypeOK, Splitting, splitVars

(***************************************************************************)
(* A text to split                                                         *)
(***************************************************************************)
LEMMA SplitTextInv ==
  ASSUME ChunkInv, NEW text, WellFormed(text), SplitText(text)
  PROVE  ChunkInv'
<1>1. /\ mode = "idle" /\ mode' = "paragraph" /\ words' = text
      /\ next' = next /\ last' = last /\ part' = part /\ rest' = rest /\ pieces' = pieces
      /\ lo' = lo /\ hi' = hi /\ chunks' = chunks
  BY DEF SplitText, packVars
<1>2. /\ next = 1 /\ last = 0 /\ pieces = <<>> /\ lo = 1 /\ hi = 0 /\ chunks = <<>>
  BY <1>1 DEF ChunkInv, SplitInv, PackInv
<1>3. Len(text) \in Nat
  BY DEF WellFormed
<1>4. ChunkTypeOK'
  <2>1. WellFormed(words)'
    BY <1>1 DEF WellFormed
  <2>2. next' \in 1 .. Len(words') + 1 /\ last' \in 0 .. Len(words')
    BY <1>1, <1>2, <1>3
  <2> QED
    BY <1>1, <1>2, <2>1, <2>2 DEF ChunkInv, ChunkTypeOK, Modes
<1>5. PieceInv' /\ SplitInv'
  BY <1>1, <1>2 DEF PieceInv, SplitInv, Follows
<1>6. PackInv'
  BY <1>1, <1>2, ChunkAssumption DEF PackInv, Length
<1>7. ChunksFit' /\ ChunksAdvance'
  BY <1>1, <1>2 DEF ChunksFit, ChunksAdvance
<1> QED
  BY <1>4, <1>5, <1>6, <1>7 DEF ChunkInv

(***************************************************************************)
(* Steps of split_text                                                     *)
(***************************************************************************)
LEMMA Pieces ==
  ASSUME ChunkTypeOK, PieceInv
  PROVE  /\ Len(pieces) \in Nat /\ DOMAIN pieces = 1 .. Len(pieces)
         /\ ChunkSize \in Nat /\ ChunkOverlap \in Nat
         /\ \A k \in 1 .. Len(pieces) :
               /\ pieces[k].from \in Nat /\ pieces[k].to \in Nat /\ pieces[k].at \in Nat
               /\ pieces[k].from < pieces[k].to
               /\ pieces[k].to - pieces[k].from <= ChunkSize
<1> DEFINE P == [from : Nat, to : Nat, at : Nat]
<1>1. pieces \in Seq(P)
  BY DEF ChunkTypeOK
<1>2. Len(pieces) \in Nat /\ DOMAIN pieces = 1 .. Len(pieces)
  BY <1>1, SeqElement
<1>3. \A k \in 1 .. Len(pieces) : pieces[k] \in P
  <2> HIDE DEF P
  <2> QED
    BY <1>1, SeqElement
<1> QED
  BY <1>2, <1>3, ChunkAssumption DEF PieceInv, Size

(* One piece fits, and its length and that of nothing are known.           *)
LEMMA LengthOfOne ==
  ASSUME ChunkTypeOK, PieceInv, NEW k \in 1 .. Len(pieces)
  PROVE  Length(k, k) <= ChunkSize
<1>1. Length(k, k) = pieces[k].at + (pieces[k].to - pieces[k].from) - pieces[k].at
  BY DEF Length
<1> QED
  BY <1>1, Pieces

LEMMA Chunks ==
  ASSUME ChunkTypeOK
  PROVE  /\ Len(chunks) \in Nat /\ DOMAIN chunks = 1 .. Len(chunks)
         /\ \A c \in 1 .. Len(chunks) :
               /\ chunks[c][1] \in 1 .. Len(pieces) /\ chunks[c][2] \in 1 .. Len(pieces)
         /\ chunks # <<>> <=> Len(chunks) >= 1
<1> DEFINE C == (1 .. Len(pieces)) \X (1 .. Len(pieces))
<1>1. chunks \in Seq(C)
  BY DEF ChunkTypeOK
<1>2. Len(chunks) \in Nat /\ DOMAIN chunks = 1 .. Len(chunks)
  BY <1>1, SeqElement
<1>3. \A c \in 1 .. Len(chunks) : chunks[c] \in C
  <2> HIDE DEF C
  <2> QED
    BY <1>1, SeqElement
<1>4. chunks # <<>> <=> Len(chunks) >= 1
  BY <1>1, <1>2
<1> QED
  BY <1>2, <1>3, <1>4

(* The chunk that was packed becomes one of the chunks.                    *)
LEMMA CloseChunk ==
  ASSUME ChunkInv, mode = "packing", lo <= hi, pieces' = pieces,
         chunks' = Append(chunks, <<lo, hi>>)
  PROVE  /\ chunks' \in Seq((1 .. Len(pieces)) \X (1 .. Len(pieces)))
         /\ chunks' # <<>> /\ chunks'[Len(chunks')] = <<lo, hi>>
         /\ ChunksFit' /\ ChunksAdvance'
<1> DEFINE n == Len(chunks)
<1>1. /\ ChunkTypeOK /\ PieceInv /\ ChunksFit /\ ChunksAdvance /\ Length(lo, hi) <= ChunkSize
      /\ Len(pieces) \in Nat /\ n \in Nat
      /\ lo \in 1 .. Len(pieces) /\ hi \in 1 .. Len(pieces)
  BY Pieces, Chunks DEF ChunkInv, PackInv, ChunkTypeOK
<1>2. chunks \in Seq((1 .. Len(pieces)) \X (1 .. Len(pieces)))
  BY <1>1 DEF ChunkTypeOK
<1>3. <<lo, hi>> \in (1 .. Len(pieces)) \X (1 .. Len(pieces))
  BY <1>1
<1>4. /\ chunks' \in Seq((1 .. Len(pieces)) \X (1 .. Len(pieces)))
      /\ Len(chunks') = n + 1 /\ DOMAIN chunks' = 1 .. n + 1
      /\ chunks'[n + 1] = <<lo, hi>>
      /\ \A c \in 1 .. n : chunks'[c] = chunks[c]
  <2> DEFINE C == (1 .. Len(pieces)) \X (1 .. Len(pieces))
  <2>1. chunks \in Seq(C) /\ <<lo, hi>> \in C
    BY <1>2, <1>3
  <2> HIDE DEF C
  <2>2. /\ chunks' \in Seq(C)
        /\ Len(chunks') = n + 1 /\ DOMAIN chunks' = 1 .. n + 1
        /\ chunks'[n + 1] = <<lo, hi>>
        /\ \A c \in 1 .. n : chunks'[c] = chunks[c]
    BY <2>1
  <2> QED
    BY <2>2 DEF C
<1>5. chunks' # <<>>
  <2>1. Len(chunks') # 0
    BY <1>1, <1>4
  <2> QED
    BY <2>1
<1>6. \A c \in 1 .. n + 1 : c = n + 1 \/ c \in 1 .. n
  BY <1>1
<1>7. ChunksFit'
  <2> SUFFICES ASSUME NEW c \in 1 .. n + 1
               PROVE  (Length(chunks[c][1], chunks[c][2]) <= ChunkSize)'
    BY <1>4 DEF ChunksFit
  <2>1. CASE c = n + 1
    BY <1>1, <1>4, <2>1 DEF Length
  <2>2. CASE c \in 1 .. n
    BY <1>1, <1>4, <2>2, Chunks DEF Length, ChunksFit
  <2> QED
    BY <1>6, <2>1, <2>2
<1>8. ChunksAdvance'
  <2> SUFFICES ASSUME NEW c \in 1 .. n + 1
               PROVE  /\ chunks'[c][1] <= chunks'[c][2]
                      /\ c = 1 => chunks'[c][1] = 1
                      /\ c > 1 => /\ chunks'[c - 1][2] < chunks'[c][2]
                                  /\ chunks'[c][1] <= chunks'[c - 1][2] + 1
                                  /\ (Length(chunks[c][1], chunks[c - 1][2]) <= ChunkOverlap)'
    BY <1>4 DEF ChunksAdvance
  <2>1. CASE c = n + 1
    <3>1. chunks'[c] = <<lo, hi>> /\ (c = 1 => n = 0) /\ (c > 1 => c - 1 = n /\ n \in 1 .. n)
      BY <1>1, <1>4, <2>1
    <3>2. n = 0 => lo = 1
      BY <1>1, Chunks DEF ChunkInv, PackInv
    <3>3. c > 1 => /\ chunks'[c - 1] = chunks[n] /\ chunks[n][2] < hi
                   /\ lo <= chunks[n][2] + 1 /\ Length(lo, chunks[n][2]) <= ChunkOverlap
      BY <1>1, <1>4, <3>1, Chunks DEF ChunkInv, PackInv
    <3>4. c > 1 => (Length(chunks[c][1], chunks[c - 1][2]) <= ChunkOverlap)'
      BY <3>1, <3>3 DEF Length
    <3> QED
      BY <3>1, <3>2, <3>3, <3>4
  <2>2. CASE c \in 1 .. n
    <3>1. chunks'[c] = chunks[c] /\ c \in DOMAIN chunks
      BY <1>1, <1>4, <2>2, Chunks
    <3>2. c > 1 => chunks'[c - 1] = chunks[c - 1]
      <4>1. c > 1 => c - 1 \in 1 .. n
        BY <1>1, <2>2
      <4> QED
        BY <1>4, <4>1
    <3> QED
      BY <1>1, <3>1, <3>2 DEF ChunksAdvance, Length
  <2> QED
    BY <1>6, <2>1, <2>2
<1> QED
  BY <1>1, <1>4, <1>5, <1>7, <1>8

(* What is carried over into the next chunk.                               *)
LEMMA CarriedOver ==
  ASSUME ChunkTypeOK, PieceInv, NEW first \in Nat, NEW end \in Nat, first >= 1,
         first <= end, end + 1 <= Len(pieces)
  PROVE  LET tail == DropUntilFits(OverlapTail(first, end), end + 1)
         IN  /\ tail \in first .. end + 1
             /\ Length(tail, end) <= ChunkOverlap
             /\ Length(tail, end + 1) <= ChunkSize
<1> DEFINE Tails == {i \in first .. end + 1 : \A j \in i .. end : Length(j, end) <= ChunkOverlap}
           over == OverlapTail(first, end)
           Drops == {i \in over .. end + 1 : i = end + 1 \/ Length(i, end + 1) <= ChunkSize}
           tail == DropUntilFits(over, end + 1)
<1>1. over \in Tails
  <2>1. Tails \in SUBSET Nat /\ end + 1 \in Tails
    OBVIOUS
  <2>2. over = Min(Tails)
    BY DEF OverlapTail
  <2> HIDE DEF Tails
  <2> QED
    BY <2>1, <2>2, MinOfNaturals
<1>2. over \in first .. end + 1 /\ \A j \in over .. end : Length(j, end) <= ChunkOverlap
  BY <1>1
<1> HIDE DEF over
<1>3. tail \in Drops
  <2>1. Drops \in SUBSET Nat /\ end + 1 \in Drops
    BY <1>2
  <2>2. tail = Min(Drops)
    BY DEF DropUntilFits
  <2> HIDE DEF Drops
  <2> QED
    BY <2>1, <2>2, MinOfNaturals
<1>4. tail \in over .. end + 1 /\ (tail = end + 1 \/ Length(tail, end + 1) <= ChunkSize)
  BY <1>3
<1> HIDE DEF tail
<1>5. tail \in first .. end + 1
  BY <1>2, <1>4
<1>6. Length(end + 1, end) = 0 /\ ChunkOverlap \in Nat
  BY ChunkAssumption DEF Length
<1>7. Length(tail, end) <= ChunkOverlap
  BY <1>2, <1>4, <1>5, <1>6
<1>8. end + 1 \in 1 .. Len(pieces)
  BY Pieces
<1>9. Length(tail, end + 1) <= ChunkSize
  BY <1>4, <1>8, LengthOfOne
<1> QED
  BY <1>5, <1>7, <1>9 DEF tail, over

LEMMA PackPieceInv == ASSUME ChunkInv, PackPiece PROVE ChunkInv'
<1>1. /\ mode = "packing" /\ mode' = mode /\ hi < Len(pieces) /\ hi' = hi + 1
      /\ words' = words /\ next' = next /\ last' = last /\ part' = part /\ rest' = rest
      /\ pieces' = pieces
  BY DEF PackPiece, splitVars
<1>2. /\ ChunkTypeOK /\ PieceInv /\ Len(pieces) \in Nat /\ hi \in Nat /\ lo \in Nat /\ lo >= 1
      /\ lo <= hi + 1 /\ hi + 1 \in 1 .. Len(pieces) /\ (hi > 0 => lo <= hi)
  BY <1>1, Pieces DEF ChunkInv, ChunkTypeOK, PackInv
<1>3. PieceInv' /\ SplitInv' /\ WellFormed(words)'
  BY <1>1 DEF ChunkInv, SplitInv, PieceInv, Size, ChunkTypeOK, WellFormed
<1>4. \A a, b : Length(a, b)' = Length(a, b)
  BY <1>1 DEF Length
<1>5. ASSUME NEW l \in 1 .. hi + 1, lo' = l, Length(l, hi + 1) <= ChunkSize,
             chunks' \in Seq((1 .. Len(pieces)) \X (1 .. Len(pieces))),
             ChunksFit', ChunksAdvance',
             chunks' = <<>> => l = 1,
             chunks' # <<>> =>
                /\ chunks'[Len(chunks')][2] <= hi
                /\ l <= chunks'[Len(chunks')][2] + 1
                /\ (Length(lo, chunks[Len(chunks)][2]) <= ChunkOverlap)'
      PROVE  ChunkInv'
  <2>1. lo' \in 1 .. Len(pieces') + 1 /\ hi' \in 0 .. Len(pieces')
    BY <1>1, <1>2, <1>5
  <2>2. ChunkTypeOK'
    BY <1>1, <1>2, <1>3, <1>5, <2>1 DEF ChunkTypeOK, Modes
  <2>3. (Length(lo, hi) <= ChunkSize)'
    BY <1>1, <1>5 DEF Length
  <2>4. lo' <= hi' + 1 /\ lo' <= hi'
    BY <1>1, <1>2, <1>5
  <2>5. chunks' # <<>> => chunks'[Len(chunks')][2] < hi'
    <3> SUFFICES ASSUME chunks' # <<>> PROVE chunks'[Len(chunks')][2] < hi'
      OBVIOUS
    <3>1. chunks'[Len(chunks')][2] \in Nat
      <4> DEFINE C == (1 .. Len(pieces)) \X (1 .. Len(pieces))
      <4>1. chunks' \in Seq(C)
        BY <1>5
      <4> HIDE DEF C
      <4>2. chunks'[Len(chunks')] \in C
        BY <4>1, SeqElement
      <4> QED
        BY <1>2, <4>2 DEF C
    <3> QED
      BY <1>1, <1>2, <1>5, <3>1
  <2>6. PackInv'
    BY <1>1, <1>5, <2>3, <2>4, <2>5 DEF PackInv
  <2> QED
    BY <1>3, <1>5, <2>2, <2>6 DEF ChunkInv
<1>6. CASE lo <= hi /\ Length(lo, hi + 1) > ChunkSize
  <2> DEFINE tail == DropUntilFits(OverlapTail(lo, hi), hi + 1)
  <2>1. chunks' = Append(chunks, <<lo, hi>>) /\ lo' = tail
    BY <1>6 DEF PackPiece
  <2>2. /\ tail \in lo .. hi + 1
        /\ Length(tail, hi) <= ChunkOverlap /\ Length(tail, hi + 1) <= ChunkSize
    BY <1>1, <1>2, <1>6, CarriedOver
  <2> HIDE DEF tail
  <2>3. /\ chunks' \in Seq((1 .. Len(pieces)) \X (1 .. Len(pieces)))
        /\ chunks' # <<>> /\ chunks'[Len(chunks')] = <<lo, hi>>
        /\ ChunksFit' /\ ChunksAdvance'
    BY <1>1, <1>6, <2>1, CloseChunk
  <2>4. chunks'[Len(chunks')][2] = hi
    BY <2>3
  <2>5. (Length(lo, chunks[Len(chunks)][2]) <= ChunkOverlap)'
    BY <1>1, <2>1, <2>2, <2>4 DEF Length
  <2>6. tail \in 1 .. hi + 1 /\ tail <= hi + 1
    BY <1>2, <2>2
  <2> QED
    BY <1>2, <1>5, <2>1, <2>2, <2>3, <2>4, <2>5, <2>6
<1>7. CASE ~(lo <= hi /\ Length(lo, hi + 1) > ChunkSize)
  <2>1. chunks' = chunks /\ lo' = lo
    BY <1>7 DEF PackPiece
  <2>2. Length(lo, hi + 1) <= ChunkSize
    <3>1. CASE lo <= hi
      <4>1. lo \in 1 .. Len(pieces)
        BY <1>2, <3>1
      <4>2. Length(lo, hi + 1) \in Int /\ ChunkSize \in Int
        BY <1>2, <3>1, <4>1, Pieces DEF Length
      <4> QED
        BY <1>7, <3>1, <4>2
    <3>2. CASE lo > hi
      <4>1. lo = hi + 1
        BY <1>2, <3>2
      <4> QED
        BY <1>2, <4>1, LengthOfOne
    <3> QED
      BY <1>2, <3>1, <3>2
  <2>3. ChunksFit' /\ ChunksAdvance'
    BY <1>1, <2>1 DEF ChunkInv, ChunksFit, ChunksAdvance, Length
  <2>4. chunks # <<>> => /\ chunks[Len(chunks)][2] < hi
                         /\ lo <= chunks[Len(chunks)][2] + 1
                         /\ Length(lo, chunks[Len(chunks)][2]) <= ChunkOverlap
    BY <1>1 DEF ChunkInv, PackInv
  <2>5. chunks # <<>> => chunks[Len(chunks)][2] <= hi
    BY <1>2, <2>4, Chunks
  <2>6. chunks # <<>> => (Length(lo, chunks[Len(chunks)][2]) <= ChunkOverlap)'
    BY <1>1, <2>1, <2>4 DEF Length
  <2>7. lo \in 1 .. hi + 1 /\ (chunks = <<>> => lo = 1)
    BY <1>1, <1>2 DEF ChunkInv, PackInv
  <2>8. chunks' \in Seq((1 .. Len(pieces)) \X (1 .. Len(pieces)))
    BY <1>2, <2>1 DEF ChunkTypeOK
  <2> QED
    BY <1>5, <2>1, <2>2, <2>3, <2>4, <2>5, <2>6, <2>7, <2>8
<1> QED
  BY <1>6, <1>7

LEMMA EndPackingInv == ASSUME ChunkInv, EndPacking PROVE ChunkInv'
<1>1. /\ mode = "packing" /\ mode' = "done" /\ lo' = lo /\ hi' = hi
      /\ words' = words /\ next' = next /\ last' = last /\ part' = part /\ rest' = rest
      /\ pieces' = pieces
      /\ chunks' = IF lo <= hi THEN Append(chunks, <<lo, hi>>) ELSE chunks
  BY DEF EndPacking, splitVars
<1>2. /\ chunks' \in Seq((1 .. Len(pieces)) \X (1 .. Len(pieces)))
      /\ ChunksFit' /\ ChunksAdvance'
  <2>1. CASE lo <= hi
    BY <1>1, <2>1, CloseChunk
  <2>2. CASE ~(lo <= hi)
    BY <1>1, <2>2 DEF ChunkInv, ChunkTypeOK, ChunksFit, ChunksAdvance, Length
  <2> QED
    BY <2>1, <2>2
<1>3. PieceInv' /\ SplitInv' /\ WellFormed(words)'
  BY <1>1 DEF ChunkInv, SplitInv, PieceInv, Size, ChunkTypeOK, WellFormed
<1>4. ChunkTypeOK'
  BY <1>1, <1>2, <1>3 DEF ChunkInv, ChunkTypeOK, Modes
<1>5. PackInv'
  BY <1>1 DEF ChunkInv, PackInv, Length
<1> QED
  BY <1>2, <1>3, <1>4, <1>5 DEF ChunkInv

(***************************************************************************)
(* Nothing of the text is lost                                             *)
(***************************************************************************)
(* A character is before the end of a word, or the next word is before it. *)
LEMMA Around ==
  ASSUME ChunkTypeOK, NEW n \in 1 .. Len(words), NEW i \in 1 .. Len(words),
         NEW place \in words[i].from .. words[i].to - 1
  PROVE  /\ place \in Nat
         /\ \/ place < words[n].to
            \/ n + 1 \in 1 .. Len(words) /\ words[n + 1].from <= place
<1>1. /\ Len(words) \in Nat
      /\ words[i].from \in Nat /\ words[i].to \in Nat /\ words[n].to \in Nat
      /\ i < n => words[i].to < words[n].from /\ words[n].from < words[n].to
      /\ words[n].from \in Nat
  BY Words
<1>2. place \in Nat /\ words[i].from <= place /\ place < words[i].to
  BY <1>1
<1>3. CASE i <= n
  BY <1>1, <1>2, <1>3
<1>4. CASE n + 1 <= i
  <2>1. n + 1 \in 1 .. Len(words) /\ n + 1 \in Nat
    BY <1>1, <1>4
  <2>2. words[n + 1].from \in Nat /\ words[n + 1].to \in Nat /\ words[n + 1].from < words[n + 1].to
    BY <2>1, Words
  <2>3. n + 1 < i => words[n + 1].to < words[i].from
    BY <2>1, Words
  <2>4. words[n + 1].from <= words[i].from
    <3>1. n + 1 = i \/ n + 1 < i
      BY <1>4, <2>1
    <3> QED
      BY <1>1, <2>2, <2>3, <3>1
  <2> QED
    BY <1>1, <1>2, <2>1, <2>2, <2>4
<1>5. i <= n \/ n + 1 <= i
  BY <1>1
<1> QED
  BY <1>2, <1>3, <1>4, <1>5

(* While pieces are made: what was still to be split is still to be split, *)
(* or in the piece that is new.                                            *)
LEMMA StillToSplit ==
  ASSUME ChunkTypeOK, SplitCovers, words' = words, pieces' = pieces, mode' # "idle",
         \A i \in 1 .. Len(words) : \A place \in words[i].from .. words[i].to - 1 :
            ToSplit(place) => ToSplit(place)'
  PROVE  SplitCovers'
BY Words DEF SplitCovers, InPiece

LEMMA SplitOff ==
  ASSUME ChunkTypeOK, SplitCovers, words' = words, mode' # "idle",
         NEW from \in Nat, NEW to \in Nat, AppendPiece(from, to),
         pieces' \in Seq([from : Nat, to : Nat, at : Nat]),
         \A i \in 1 .. Len(words) : \A place \in words[i].from .. words[i].to - 1 :
            ToSplit(place) => ToSplit(place)' \/ (from <= place /\ place < to)
  PROVE  SplitCovers'
<1> DEFINE p == [from |-> from, to |-> to, at |-> JoinedAt(from)]
<1>0. PICK n \in Nat : n = Len(pieces) + 1
  BY DEF ChunkTypeOK
<1>1. pieces' = Append(pieces, p) /\ p.from = from /\ p.to = to
  BY DEF AppendPiece
<1>2. /\ DOMAIN pieces' = 1 .. n /\ DOMAIN pieces = 1 .. Len(pieces) /\ n \in 1 .. n
      /\ pieces'[n] = p /\ \A k \in 1 .. Len(pieces) : k \in 1 .. n /\ pieces'[k] = pieces[k]
  BY <1>0, <1>1 DEF ChunkTypeOK
<1> SUFFICES ASSUME NEW i \in 1 .. Len(words), NEW place \in words[i].from .. words[i].to - 1
             PROVE  ToSplit(place)' \/ \E k \in DOMAIN pieces' : InPiece(k, place)'
  BY Words DEF SplitCovers
<1> HIDE DEF p
<1>3. CASE ToSplit(place) /\ ~ToSplit(place)'
  <2>1. from <= place /\ place < to
    BY <1>3
  <2>2. InPiece(n, place)'
    BY <1>1, <1>2, <2>1 DEF InPiece
  <2> QED
    BY <1>2, <2>2
<1>4. CASE \E k \in DOMAIN pieces : InPiece(k, place)
  <2>1. PICK k \in DOMAIN pieces : InPiece(k, place)
    BY <1>4
  <2>2. InPiece(k, place)'
    BY <1>2, <2>1 DEF InPiece
  <2> QED
    BY <1>2, <2>1, <2>2
<1> QED
  BY <1>3, <1>4, Words DEF SplitCovers

LEMMA TakeWholeCovers ==
  ASSUME ChunkInv, SplitCovers, mode \in {"paragraph", "sentence"},
         NEW end \in next .. Len(words), next <= Len(words), TakeWhole(end),
         mode' \in {"paragraph", "sentence"}, ChunkInv'
  PROVE  SplitCovers'
<1>1. /\ words' = words /\ next' = end + 1 /\ AppendPiece(words[next].from, words[end].to)
      /\ ChunkTypeOK /\ pieces' \in Seq([from : Nat, to : Nat, at : Nat])
  BY DEF TakeWhole, ChunkInv, ChunkTypeOK
<1>2. end \in 1 .. Len(words) /\ next \in 1 .. Len(words) /\ Len(words) \in Nat
  BY <1>1, Words DEF ChunkTypeOK
<1>3. words[next].from \in Nat /\ words[end].to \in Nat
  BY <1>1, <1>2, Words
<1>4. ASSUME NEW i \in 1 .. Len(words), NEW place \in words[i].from .. words[i].to - 1, ToSplit(place)
      PROVE  ToSplit(place)' \/ (words[next].from <= place /\ place < words[end].to)
  <2>1. words[next].from <= place
    BY <1>4 DEF ToSplit
  <2>2. \/ place < words[end].to
        \/ end + 1 \in 1 .. Len(words) /\ words[end + 1].from <= place
    BY <1>1, <1>2, Around
  <2>3. end + 1 \in 1 .. Len(words) => end + 1 <= Len(words)
    BY <1>2
  <2> QED
    BY <1>1, <2>1, <2>2, <2>3 DEF ToSplit
<1> QED
  BY <1>1, <1>3, <1>4, SplitOff

LEMMA SplitParagraphCovers ==
  ASSUME ChunkInv, SplitCovers, SplitParagraph, ChunkInv' PROVE SplitCovers'
<1> DEFINE end == LastBefore({"paragraph"})
<1>1. /\ mode = "paragraph" /\ next <= Len(words) /\ ChunkTypeOK /\ end \in next .. Len(words)
  BY LastBeforeBreak DEF SplitParagraph, ChunkInv
<1>2. CASE Fits(words[next].from, words[end].to)
  <2>1. TakeWhole(end) /\ mode' = mode
    BY <1>2 DEF SplitParagraph
  <2> HIDE DEF end
  <2> QED
    BY <1>1, <2>1, TakeWholeCovers
<1>3. CASE ~Fits(words[next].from, words[end].to)
  <2>1. mode' = "sentence" /\ UNCHANGED splitVars
    BY <1>3 DEF SplitParagraph
  <2>2. \A place : ToSplit(place) => ToSplit(place)'
    BY <1>1, <2>1 DEF ToSplit, splitVars
  <2> QED
    BY <1>1, <2>1, <2>2, StillToSplit DEF splitVars
<1> QED
  BY <1>2, <1>3

LEMMA SplitSentenceCovers ==
  ASSUME ChunkInv, SplitCovers, SplitSentence, ChunkInv' PROVE SplitCovers'
<1> DEFINE end == LastBefore({"paragraph", "sentence"})
<1>1. /\ mode = "sentence" /\ next <= Len(words) /\ ChunkTypeOK /\ end \in next .. Len(words)
  BY LastBeforeBreak DEF SplitSentence, ChunkInv, SplitInv
<1>2. CASE Fits(words[next].from, words[end].to)
  <2>1. TakeWhole(end) /\ mode' \in {"paragraph", "sentence"}
    BY <1>2 DEF SplitSentence, AfterSentence
  <2> HIDE DEF end
  <2> QED
    BY <1>1, <2>1, TakeWholeCovers
<1>3. CASE ~Fits(words[next].from, words[end].to)
  <2>1. /\ mode' = "words" /\ words' = words /\ pieces' = pieces
        /\ part' = <<0, 0>> /\ rest' = words[next].from
    BY <1>3 DEF SplitSentence
  <2>2. \A place : ToSplit(place) => ToSplit(place)'
    BY <1>1, <2>1 DEF ToSplit, PartIsEmpty
  <2> QED
    BY <1>1, <2>1, <2>2, StillToSplit
<1> QED
  BY <1>2, <1>3

(* The part becomes a piece, and the word that is next is what is left.    *)
LEMMA PartCovers ==
  ASSUME ChunkInv, SplitCovers, mode = "words", ~PartIsEmpty, words' = words, mode' # "idle",
         AppendPiece(part[1], part[2]), ChunkInv',
         next <= Len(words) =>
            \A place \in Nat : words[next].from <= place => ToSplit(place)'
  PROVE  SplitCovers'
<1>1. /\ ChunkTypeOK /\ Len(words) \in Nat /\ part[1] \in Nat /\ part[2] \in Nat
      /\ next \in 1 .. Len(words) + 1 /\ next > 1 /\ part[2] = words[next - 1].to
      /\ pieces' \in Seq([from : Nat, to : Nat, at : Nat])
  BY InsideSentence DEF ChunkInv, SplitInv, ChunkTypeOK
<1>2. PICK n \in 1 .. Len(words) : n = next - 1 /\ n + 1 = next
  BY <1>1
<1>3. ASSUME NEW i \in 1 .. Len(words), NEW place \in words[i].from .. words[i].to - 1, ToSplit(place)
      PROVE  ToSplit(place)' \/ (part[1] <= place /\ place < part[2])
  <2>1. part[1] <= place
    BY <1>3 DEF ToSplit
  <2>2. \/ place < words[n].to
        \/ n + 1 \in 1 .. Len(words) /\ words[n + 1].from <= place
    BY <1>1, Around
  <2>3. place \in Nat
    BY <1>1, Around
  <2> QED
    BY <1>1, <1>2, <2>1, <2>2, <2>3
<1> QED
  BY <1>1, <1>3, SplitOff

LEMMA FlushBeforeCutCovers ==
  ASSUME ChunkInv, SplitCovers, FlushBeforeCut, ChunkInv' PROVE SplitCovers'
<1>1. /\ mode = "words" /\ next <= last /\ ~PartIsEmpty /\ AppendPiece(part[1], part[2])
      /\ part' = <<0, 0>> /\ mode' = mode /\ words' = words /\ rest' = rest
  BY DEF FlushBeforeCut
<1>2. rest = words[next].from
  BY <1>1 DEF ChunkInv, SplitInv
<1>3. \A place \in Nat : words[next].from <= place => ToSplit(place)'
  BY <1>1, <1>2 DEF ToSplit, PartIsEmpty
<1> QED
  BY <1>1, <1>3, PartCovers

LEMMA CutWordCovers ==
  ASSUME ChunkInv, SplitCovers, CutWord, ChunkInv' PROVE SplitCovers'
<1>1. /\ mode = "words" /\ PartIsEmpty /\ AppendPiece(rest, rest + ChunkSize)
      /\ rest' = rest + ChunkSize /\ mode' = mode /\ words' = words /\ part' = part
  BY DEF CutWord
<1>2. /\ ChunkTypeOK /\ rest \in Nat /\ ChunkSize \in Nat
      /\ pieces' \in Seq([from : Nat, to : Nat, at : Nat])
  BY <1>1, InsideSentence DEF ChunkInv, ChunkTypeOK
<1>3. ASSUME NEW i \in 1 .. Len(words), NEW place \in words[i].from .. words[i].to - 1, ToSplit(place)
      PROVE  ToSplit(place)' \/ (rest <= place /\ place < rest + ChunkSize)
  <2>1. rest <= place
    BY <1>1, <1>3 DEF ToSplit
  <2>2. place \in Nat
    BY <1>2, Words
  <2>3. rest + ChunkSize <= place => ToSplit(place)'
    BY <1>1 DEF ToSplit, PartIsEmpty
  <2> QED
    BY <1>2, <2>1, <2>2, <2>3
<1>4. rest + ChunkSize \in Nat
  BY <1>2
<1> QED
  BY <1>1, <1>2, <1>3, <1>4, SplitOff

(* The part that there is begins before the word that is next ends.        *)
LEMMA PartBegins ==
  ASSUME ChunkInv, mode = "words", next <= last, ~PartIsEmpty
  PROVE  part[1] < words[next].to
<1>1. /\ ChunkTypeOK /\ Len(words) \in Nat /\ next \in 1 .. Len(words)
      /\ part[1] \in Nat /\ part[2] \in Nat /\ next > 1
      /\ part[1] < part[2] /\ part[2] = words[next - 1].to
  BY InsideSentence DEF ChunkInv, SplitInv
<1>2. PICK n \in 1 .. Len(words) : n = next - 1 /\ n < next
  BY <1>1
<1>3. /\ words[n].to \in Nat /\ words[n].to < words[next].from
      /\ words[next].from \in Nat /\ words[next].to \in Nat /\ words[next].from < words[next].to
  BY <1>1, <1>2, Words
<1> QED
  BY <1>1, <1>2, <1>3

LEMMA AddWordCovers ==
  ASSUME ChunkInv, SplitCovers, AddWord, ChunkInv' PROVE SplitCovers'
<1>1. /\ mode = "words" /\ mode' = mode /\ words' = words /\ next <= last /\ next' = next + 1
      /\ ChunkTypeOK
  BY DEF AddWord, ChunkInv
<1>2. ~PartIsEmpty'
  <2>1. words[next].to \in Nat /\ rest < words[next].to /\ rest \in Nat /\ part[1] \in Nat
    BY <1>1, InsideSentence
  <2>2. PICK begin \in Nat : part' = <<begin, words[next].to>> /\ begin < words[next].to
    BY <1>1, <2>1, PartBegins DEF AddWord
  <2>3. part'[1] = begin /\ part'[2] = words[next].to
    BY <2>2
  <2> QED
    BY <2>1, <2>2, <2>3 DEF PartIsEmpty
<1>3. CASE PartIsEmpty \/ Fits(part[1], words[next].to)
  <2>1. part'[1] = (IF PartIsEmpty THEN rest ELSE part[1]) /\ pieces' = pieces
    BY <1>3 DEF AddWord
  <2>2. \A place : ToSplit(place) => ToSplit(place)'
    BY <1>1, <1>2, <2>1 DEF ToSplit
  <2> QED
    BY <1>1, <2>1, <2>2, StillToSplit
<1>4. CASE ~(PartIsEmpty \/ Fits(part[1], words[next].to))
  <2>1. /\ AppendPiece(part[1], part[2]) /\ part'[1] = rest /\ ~PartIsEmpty
    BY <1>4 DEF AddWord
  <2>2. rest = words[next].from
    BY <1>1, <2>1 DEF ChunkInv, SplitInv
  <2>3. \A place \in Nat : words[next].from <= place => ToSplit(place)'
    BY <1>1, <1>2, <2>1, <2>2 DEF ToSplit
  <2> QED
    BY <1>1, <2>1, <2>3, PartCovers
<1> QED
  BY <1>3, <1>4

LEMMA EndSentenceCovers ==
  ASSUME ChunkInv, SplitCovers, EndSentence, ChunkInv' PROVE SplitCovers'
<1>1. /\ mode = "words" /\ next > last /\ mode' = AfterSentence(last)
      /\ words' = words /\ next' = next
  BY DEF EndSentence
<1>2. ~PartIsEmpty
  BY <1>1, InsideSentence DEF ChunkInv, SplitInv
<1>3. AppendPiece(part[1], part[2])
  BY <1>2 DEF EndSentence
<1>4. mode' \in {"paragraph", "sentence"}
  BY <1>1 DEF AfterSentence
<1>5. next <= Len(words) => \A place \in Nat : words[next].from <= place => ToSplit(place)'
  BY <1>1, <1>4 DEF ToSplit
<1> QED
  BY <1>1, <1>2, <1>3, <1>4, <1>5, PartCovers

(* A chunk that is closed has the pieces that were packed into it.         *)
LEMMA ClosedCovers ==
  ASSUME ChunkInv, PackCovers, mode = "packing", NEW k \in 1 .. hi,
         (lo <= hi /\ chunks' = Append(chunks, <<lo, hi>>)) \/ (~(lo <= k) /\ chunks' = chunks)
  PROVE  \E c \in DOMAIN chunks' : InChunk(c, k)'
<1>1. /\ ChunkTypeOK /\ Len(chunks) \in Nat /\ DOMAIN chunks = 1 .. Len(chunks)
      /\ k \in Nat /\ lo \in Nat /\ hi \in Nat /\ k <= hi
  BY Chunks DEF ChunkInv, ChunkTypeOK
<1>2. PICK n \in Nat : n = Len(chunks) + 1
  BY <1>1
<1>3. CASE lo <= hi /\ chunks' = Append(chunks, <<lo, hi>>)
  <2>1. /\ DOMAIN chunks' = 1 .. n /\ n \in 1 .. n /\ chunks'[n] = <<lo, hi>>
        /\ \A c \in 1 .. Len(chunks) : c \in 1 .. n /\ chunks'[c] = chunks[c]
    <3> DEFINE C == (1 .. Len(pieces)) \X (1 .. Len(pieces))
    <3>1. chunks \in Seq(C) /\ <<lo, hi>> \in C
      <4>1. Len(pieces) \in Nat
        BY Pieces DEF ChunkInv
      <4>2. lo \in 1 .. Len(pieces) + 1 /\ hi \in 0 .. Len(pieces)
        BY <1>1 DEF ChunkTypeOK
      <4>3. lo \in 1 .. Len(pieces) /\ hi \in 1 .. Len(pieces)
        BY <1>3, <4>1, <4>2
      <4> QED
        BY <1>1, <4>3 DEF ChunkTypeOK
    <3> HIDE DEF C
    <3> QED
      BY <1>2, <1>3, <3>1
  <2>2. CASE lo <= k
    <3>1. InChunk(n, k)'
      BY <1>1, <2>1, <2>2 DEF InChunk
    <3> QED
      BY <2>1, <3>1
  <2>3. CASE ~(lo <= k)
    <3>1. PICK c \in DOMAIN chunks : InChunk(c, k)
      BY <2>3 DEF PackCovers
    <3>2. InChunk(c, k)'
      BY <1>1, <2>1, <3>1 DEF InChunk
    <3> QED
      BY <1>1, <2>1, <3>1, <3>2
  <2> QED
    BY <2>2, <2>3
<1>4. CASE ~(lo <= k) /\ chunks' = chunks
  BY <1>4 DEF PackCovers, InChunk
<1> QED
  BY <1>3, <1>4

LEMMA PackPieceCovers == ASSUME ChunkInv, PackCovers, PackPiece, ChunkInv' PROVE PackCovers'
<1>1. /\ mode = "packing" /\ mode' = mode /\ hi' = hi + 1 /\ hi \in Nat /\ lo \in Nat
      /\ lo' \in Nat /\ lo' <= hi'
  BY Pieces DEF PackPiece, ChunkInv, ChunkTypeOK, PackInv
<1>2. ASSUME NEW k \in 1 .. hi + 1
      PROVE  lo' <= k \/ \E c \in DOMAIN chunks' : InChunk(c, k)'
  <2>1. CASE k = hi + 1
    BY <1>1, <2>1
  <2>2. CASE k \in 1 .. hi
    <3>1. CASE lo <= hi /\ Length(lo, hi + 1) > ChunkSize
      <4>1. chunks' = Append(chunks, <<lo, hi>>)
        BY <3>1 DEF PackPiece
      <4> QED
        BY <1>1, <2>2, <3>1, <4>1, ClosedCovers
    <3>2. CASE ~(lo <= hi /\ Length(lo, hi + 1) > ChunkSize)
      <4>1. chunks' = chunks /\ lo' = lo
        BY <3>2 DEF PackPiece
      <4> QED
        BY <1>1, <2>2, <4>1, ClosedCovers
    <3> QED
      BY <3>1, <3>2
  <2> QED
    BY <1>1, <2>1, <2>2
<1> QED
  BY <1>1, <1>2 DEF PackCovers

LEMMA EndPackingCovers == ASSUME ChunkInv, PackCovers, EndPacking PROVE PackCovers'
<1>1. /\ mode = "packing" /\ mode' = "done" /\ hi' = hi /\ hi = Len(pieces) /\ pieces' = pieces
      /\ chunks' = IF lo <= hi THEN Append(chunks, <<lo, hi>>) ELSE chunks
      /\ hi \in Nat /\ lo \in Nat
  BY DEF EndPacking, splitVars, ChunkInv, ChunkTypeOK
<1>2. ASSUME NEW k \in 1 .. hi PROVE \E c \in DOMAIN chunks' : InChunk(c, k)'
  BY <1>1, <1>2, ClosedCovers
<1> QED
  BY <1>1, <1>2 DEF PackCovers

LEMMA PackingKeepsText ==
  ASSUME ChunkInv, SplitCovers, PackPiece \/ EndPacking \/ EndPieces PROVE SplitCovers'
<1>1. /\ ChunkTypeOK /\ words' = words /\ pieces' = pieces /\ mode' # "idle"
  BY DEF PackPiece, EndPacking, EndPieces, splitVars, ChunkInv
<1>2. \A place : ~ToSplit(place)
  <2>1. CASE mode = "packing"
    BY <2>1 DEF ToSplit
  <2>2. CASE EndPieces
    <3>1. mode = "paragraph" /\ ~(next <= Len(words))
      BY <1>1, <2>2, Words DEF EndPieces, ChunkTypeOK
    <3> QED
      BY <3>1 DEF ToSplit
  <2> QED
    BY <2>1, <2>2 DEF PackPiece, EndPacking
<1> QED
  BY <1>1, <1>2, StillToSplit

LEMMA SplittingPacksNothing ==
  ASSUME ChunkInv, mode \notin {"packing", "done"}, mode' # "done", UNCHANGED packVars
  PROVE  PackCovers'
<1>1. hi' = 0
  BY DEF ChunkInv, PackInv, packVars
<1> QED
  BY <1>1 DEF PackCovers

LEMMA CoverNext ==
  ASSUME ChunkInv, CoverInv, ChunkNext, ChunkInv' PROVE CoverInv'
<1>1. CASE SplitParagraph
  <2>1. PackCovers'
    BY <1>1, SplittingPacksNothing DEF SplitParagraph, TakeWhole
  <2> QED
    BY <1>1, <2>1, SplitParagraphCovers DEF CoverInv
<1>2. CASE SplitSentence
  <2>1. mode = "sentence" /\ mode' # "done" /\ UNCHANGED packVars
    BY <1>2 DEF SplitSentence, TakeWhole, AfterSentence
  <2>2. PackCovers'
    BY <2>1, SplittingPacksNothing
  <2> QED
    BY <1>2, <2>2, SplitSentenceCovers DEF CoverInv
<1>3. CASE FlushBeforeCut
  <2>1. PackCovers'
    BY <1>3, SplittingPacksNothing DEF FlushBeforeCut
  <2> QED
    BY <1>3, <2>1, FlushBeforeCutCovers DEF CoverInv
<1>4. CASE CutWord
  <2>1. PackCovers'
    BY <1>4, SplittingPacksNothing DEF CutWord
  <2> QED
    BY <1>4, <2>1, CutWordCovers DEF CoverInv
<1>5. CASE AddWord
  <2>1. PackCovers'
    BY <1>5, SplittingPacksNothing DEF AddWord
  <2> QED
    BY <1>5, <2>1, AddWordCovers DEF CoverInv
<1>6. CASE EndSentence
  <2>1. mode = "words" /\ mode' # "done" /\ UNCHANGED packVars
    BY <1>6 DEF EndSentence, AfterSentence
  <2>2. PackCovers'
    BY <2>1, SplittingPacksNothing
  <2> QED
    BY <1>6, <2>2, EndSentenceCovers DEF CoverInv
<1>7. CASE EndPieces
  <2>1. PackCovers'
    BY <1>7, SplittingPacksNothing DEF EndPieces
  <2> QED
    BY <1>7, <2>1, PackingKeepsText DEF CoverInv
<1>8. CASE PackPiece
  BY <1>8, PackPieceCovers, PackingKeepsText DEF CoverInv
<1>9. CASE EndPacking
  BY <1>9, EndPackingCovers, PackingKeepsText DEF CoverInv
<1> QED
  BY <1>1, <1>2, <1>3, <1>4, <1>5, <1>6, <1>7, <1>8, <1>9 DEF ChunkNext

LEMMA CoverSplitText ==
  ASSUME ChunkInv, NEW text, WellFormed(text), SplitText(text)
  PROVE  CoverInv'
<1>1. /\ mode = "idle" /\ mode' = "paragraph" /\ words' = text /\ next' = next
      /\ UNCHANGED packVars
  BY DEF SplitText
<1>2. next = 1
  BY <1>1 DEF ChunkInv, SplitInv
<1>3. PackCovers'
  BY <1>1, SplittingPacksNothing
<1>4. ASSUME NEW i \in DOMAIN text, NEW place \in text[i].from .. text[i].to - 1
      PROVE  ToSplit(place)'
  <2> DEFINE W == [from : Nat, to : Nat, break : {"paragraph", "sentence", "word"}]
  <2>1. text \in Seq(W)
    BY DEF WellFormed
  <2>2. Len(text) \in Nat /\ DOMAIN text = 1 .. Len(text) /\ \A j \in 1 .. Len(text) : text[j] \in W
    <3> HIDE DEF W
    <3> QED
      BY <2>1, SeqElement
  <2>3. 1 \in DOMAIN text /\ 1 <= Len(text)
    BY <2>2
  <2>4. /\ text[i].from \in Nat /\ text[1].from \in Nat /\ text[1].to \in Nat
        /\ text[1].from < text[1].to /\ text[i].to \in Nat
        /\ 1 < i => text[1].to < text[i].from
    BY <2>2, <2>3 DEF WellFormed
  <2>5. text[1].from <= place
    BY <2>2, <2>4
  <2> QED
    BY <1>1, <1>2, <2>3, <2>5 DEF ToSplit
<1>5. SplitCovers'
  BY <1>1, <1>4 DEF SplitCovers
<1> QED
  BY <1>3, <1>5 DEF CoverInv

LEMMA CoverStutters == ASSUME CoverInv, UNCHANGED chunkVars PROVE CoverInv'
BY DEF CoverInv, SplitCovers, PackCovers, ToSplit, PartIsEmpty, InPiece, InChunk, chunkVars,
   splitVars, packVars

LEMMA CoverInit == ChunkInit => CoverInv
BY DEF ChunkInit, CoverInv, SplitCovers, PackCovers

(* At the end a character is in a piece, and that piece in a chunk.        *)
LEMMA CoverAll == ASSUME ChunkInv, CoverInv PROVE EveryCharacterIsInAChunk
<1> SUFFICES ASSUME mode = "done", NEW i \in DOMAIN words,
                    NEW place \in words[i].from .. words[i].to - 1
             PROVE  \E c \in DOMAIN chunks :
                       /\ pieces[chunks[c][1]].from <= place
                       /\ place < pieces[chunks[c][2]].to
  BY DEF EveryCharacterIsInAChunk
<1>1. /\ ChunkTypeOK /\ PieceInv /\ Len(pieces) \in Nat /\ DOMAIN pieces = 1 .. Len(pieces)
      /\ hi = Len(pieces)
  BY Pieces DEF ChunkInv, CoverInv, PackCovers
<1>2. place \in Nat
  BY <1>1, Words
<1>3. PICK k \in 1 .. Len(pieces) : InPiece(k, place)
  BY <1>1 DEF CoverInv, SplitCovers, ToSplit
<1>4. PICK c \in DOMAIN chunks : InChunk(c, k)
  BY <1>1, <1>3 DEF CoverInv, PackCovers
<1>5. PICK a \in 1 .. Len(pieces), b \in 1 .. Len(pieces) :
         a = chunks[c][1] /\ b = chunks[c][2] /\ a <= k /\ k <= b
  BY <1>1, <1>4, Chunks DEF InChunk
<1>6. /\ a < k => pieces[a].to <= pieces[k].from
      /\ k < b => pieces[k].to <= pieces[b].from
  BY <1>1 DEF PieceInv
<1>7. \A m \in {a, b, k} : pieces[m].from \in Nat /\ pieces[m].to \in Nat /\ pieces[m].from < pieces[m].to
  BY <1>1, Pieces
<1>8. pieces[a].from <= place
  <2>1. pieces[a].from <= pieces[k].from
    BY <1>1, <1>5, <1>6, <1>7
  <2> QED
    BY <1>2, <1>3, <1>7, <2>1 DEF InPiece
<1>9. place < pieces[b].to
  <2>1. pieces[k].to <= pieces[b].to
    BY <1>1, <1>5, <1>6, <1>7
  <2> QED
    BY <1>2, <1>3, <1>7, <2>1 DEF InPiece
<1> QED
  BY <1>5, <1>8, <1>9

(***************************************************************************)
(* The theorems                                                            *)
(***************************************************************************)
LEMMA ChunkInitInv == ASSUME ChunkInit PROVE ChunkInv
<1>1. /\ words = <<>> /\ mode = "idle" /\ next = 1 /\ last = 0 /\ part = <<0, 0>>
      /\ rest = 0 /\ pieces = <<>> /\ lo = 1 /\ hi = 0 /\ chunks = <<>>
  BY DEF ChunkInit
<1>2. ChunkTypeOK
  BY <1>1 DEF ChunkTypeOK, WellFormed, Modes
<1>3. PieceInv /\ SplitInv
  BY <1>1 DEF PieceInv, SplitInv
<1>4. PackInv
  BY <1>1, ChunkAssumption DEF PackInv, Length
<1>5. ChunksFit /\ ChunksAdvance
  BY <1>1 DEF ChunksFit, ChunksAdvance
<1> QED
  BY <1>2, <1>3, <1>4, <1>5 DEF ChunkInv

LEMMA ChunkStutters == ASSUME ChunkInv, UNCHANGED chunkVars PROVE ChunkInv'
<1>1. /\ words' = words /\ mode' = mode /\ next' = next /\ last' = last /\ part' = part
      /\ rest' = rest /\ pieces' = pieces /\ lo' = lo /\ hi' = hi /\ chunks' = chunks
  BY DEF chunkVars, splitVars, packVars
<1>2. ChunkTypeOK'
  BY <1>1 DEF ChunkInv, ChunkTypeOK, WellFormed
<1>3. PieceInv' /\ SplitInv'
  BY <1>1 DEF ChunkInv, PieceInv, Size, SplitInv, Follows, StartsParagraph, PartIsEmpty
<1>4. PackInv' /\ ChunksFit' /\ ChunksAdvance'
  BY <1>1 DEF ChunkInv, PackInv, ChunksFit, ChunksAdvance, Length
<1> QED
  BY <1>2, <1>3, <1>4 DEF ChunkInv

(* Every step of split_text keeps pieces in order and chunks in bounds.    *)
THEOREM ChunkInductive == ChunkSpec => []ChunkInv
<1>1. ChunkInit => ChunkInv
  BY ChunkInitInv
<1>2. ChunkInv /\ [ChunkNext \/ \E text : WellFormed(text) /\ SplitText(text)]_chunkVars
         => ChunkInv'
  <2> SUFFICES ASSUME ChunkInv,
                      [ChunkNext \/ \E text : WellFormed(text) /\ SplitText(text)]_chunkVars
               PROVE  ChunkInv'
    OBVIOUS
  <2>1. CASE ChunkNext
    BY <2>1, SplitParagraphInv, SplitSentenceInv, FlushBeforeCutInv, CutWordInv, AddWordInv,
       EndSentenceInv, EndPiecesInv, PackPieceInv, EndPackingInv DEF ChunkNext
  <2>2. CASE \E text : WellFormed(text) /\ SplitText(text)
    BY <2>2, SplitTextInv
  <2>3. CASE UNCHANGED chunkVars
    BY <2>3, ChunkStutters
  <2> QED
    BY <2>1, <2>2, <2>3
<1> QED
  BY <1>1, <1>2, PTL DEF ChunkSpec

(* No chunk is longer than chunk_size, and every chunk brings text of its  *)
(* own after an overlap within bounds, for every text and every size.      *)
THEOREM ChunksOfEveryText == ChunkSpec => [](ChunkTypeOK /\ ChunksFit /\ ChunksAdvance)
<1>1. ChunkInv => ChunkTypeOK /\ ChunksFit /\ ChunksAdvance
  BY DEF ChunkInv
<1> QED
  BY <1>1, ChunkInductive, PTL

(* Pieces that are further apart in the join than in the text do not fit   *)
(* into one chunk.                                                         *)
LEMMA VerbatimChunks == ASSUME ChunkInv PROVE ChunksAreVerbatim
<1> SUFFICES ASSUME NEW c \in DOMAIN chunks
             PROVE  Length(chunks[c][1], chunks[c][2]) =
                       pieces[chunks[c][2]].to - pieces[chunks[c][1]].from
  BY DEF ChunksAreVerbatim
<1>1. ChunkTypeOK /\ PieceInv /\ ChunksFit /\ ChunksAdvance /\ c \in 1 .. Len(chunks)
  BY Chunks DEF ChunkInv
<1>2. PICK a \in 1 .. Len(pieces), b \in 1 .. Len(pieces) :
         a = chunks[c][1] /\ b = chunks[c][2]
  BY <1>1, Chunks
<1>3. a <= b /\ Length(a, b) <= ChunkSize
  BY <1>1, <1>2 DEF ChunksFit, ChunksAdvance
<1>4. PICK af \in Nat, at \in Nat, aa \in Nat, bf \in Nat, bt \in Nat, ba \in Nat :
         /\ af = pieces[a].from /\ at = pieces[a].to /\ aa = pieces[a].at
         /\ bf = pieces[b].from /\ bt = pieces[b].to /\ ba = pieces[b].at
  BY <1>1, Pieces
<1>5. Length(a, b) = ba + (bt - bf) - aa /\ bf < bt
  <2>1. ~(a > b)
    BY <1>1, <1>3, Pieces
  <2>2. Length(a, b) =
           pieces[b].at + (pieces[b].to - pieces[b].from) - pieces[a].at
    BY <2>1 DEF Length
  <2>3. pieces[b].from < pieces[b].to
    BY <1>1, Pieces
  <2> QED
    BY <1>4, <2>2, <2>3
<1>6. a < b => ba - aa = bf - af \/ ba - aa >= ChunkSize
  <2>1. a \in DOMAIN pieces /\ b \in DOMAIN pieces
    BY <1>1, Pieces
  <2>2. a < b => \/ pieces[b].at - pieces[a].at = pieces[b].from - pieces[a].from
                 \/ pieces[b].at - pieces[a].at >= ChunkSize
    BY <1>1, <2>1 DEF PieceInv
  <2> QED
    BY <1>4, <2>2
<1>7. a = b => ba = aa /\ bf = af
  BY <1>4
<1>8. Length(a, b) = bt - af
  BY <1>1, <1>3, <1>5, <1>6, <1>7, Pieces
<1> QED
  BY <1>2, <1>4, <1>8

(* A chunk is a stretch of the text as it stands.                          *)
THEOREM ChunksQuoteTheText == ChunkSpec => []ChunksAreVerbatim
<1>1. ChunkInv => ChunksAreVerbatim
  BY VerbatimChunks
<1> QED
  BY <1>1, ChunkInductive, PTL

(* The overlap is part of the chunk before, and each chunk brings text of  *)
(* its own (split_text's last loop).                                       *)
THEOREM ChunksGoForward == ChunkSpec => []ChunksAdvance
<1>1. ChunkInv => ChunksAdvance
  BY DEF ChunkInv
<1> QED
  BY <1>1, ChunkInductive, PTL

(* Nothing of the text is lost, however its words are cut and packed.      *)
THEOREM ChunksCoverTheText == ChunkSpec => []EveryCharacterIsInAChunk
<1>1. ChunkInit => CoverInv
  BY CoverInit
<1>2. ChunkInv /\ CoverInv /\ ChunkInv'
      /\ [ChunkNext \/ \E text : WellFormed(text) /\ SplitText(text)]_chunkVars => CoverInv'
  BY CoverNext, CoverSplitText, CoverStutters
<1>3. ChunkInv /\ CoverInv => EveryCharacterIsInAChunk
  BY CoverAll
<1> QED
  BY <1>1, <1>2, <1>3, ChunkInductive, PTL DEF ChunkSpec

(***************************************************************************)
(* Embedding                                                               *)
(***************************************************************************)
(* An increasing map of 1 .. n into itself leaves no room to move.         *)
LEMMA IncreasingIsIdentity ==
  ASSUME NEW n \in Nat, NEW f \in [1 .. n -> 1 .. n],
         \A i, j \in 1 .. n : i < j => f[i] < f[j]
  PROVE  \A i \in 1 .. n : f[i] = i
<1> DEFINE Below == {i \in 1 .. n : f[i] < i}
           Above == {k \in 0 .. n - 1 : f[n - k] > n - k}
<1>0. \A i \in 1 .. n : f[i] \in 1 .. n
  OBVIOUS
<1>1. Below = {}
  <2> SUFFICES ASSUME Below # {} PROVE FALSE
    OBVIOUS
  <2>1. PICK m : m \in Below /\ \A y \in Below : m <= y
    <3> HIDE DEF Below
    <3>1. Below \in SUBSET Nat
      BY DEF Below
    <3> QED
      BY <3>1, MinOfNaturals
  <2>2. m \in 1 .. n /\ f[m] < m /\ f[m] >= 1
    BY <1>0, <2>1
  <2>3. PICK l \in 1 .. n : l = m - 1
    BY <2>2
  <2>4. l \notin Below
    BY <2>1, <2>2, <2>3
  <2>5. f[l] >= l /\ f[l] < f[m] /\ f[l] \in 1 .. n /\ f[m] \in 1 .. n
    BY <1>0, <2>2, <2>3, <2>4
  <2> QED
    BY <2>2, <2>3, <2>5
<1>2. Above = {}
  <2> SUFFICES ASSUME Above # {} PROVE FALSE
    OBVIOUS
  <2>1. PICK m : m \in Above /\ \A y \in Above : m <= y
    <3> HIDE DEF Above
    <3>1. Above \in SUBSET Nat
      BY DEF Above
    <3> QED
      BY <3>1, MinOfNaturals
  <2>2. PICK j \in 1 .. n : j = n - m /\ f[j] > j /\ m \in Nat
    BY <2>1
  <2>3. f[j] \in 1 .. n /\ j < n
    BY <1>0, <2>2
  <2>4. PICK l \in 1 .. n : l = j + 1
    BY <2>2, <2>3
  <2>5. ~(f[l] > l)
    <3> SUFFICES ASSUME f[l] > l PROVE FALSE
      OBVIOUS
    <3>1. m - 1 \in 0 .. n - 1 /\ n - (m - 1) = l
      BY <2>2, <2>4
    <3>2. m - 1 \in Above
      BY <3>1
    <3> HIDE DEF Above
    <3>3. m <= m - 1
      BY <2>1, <3>2
    <3> QED
      BY <2>2, <3>3
  <2>6. f[l] \in 1 .. n /\ f[j] < f[l]
    <3>1. j < l
      BY <2>4
    <3>2. f[j] < f[l]
      BY <3>1
    <3> QED
      BY <1>0, <3>2
  <2>7. PICK a \in Nat, b \in Nat, c \in Nat : a = j /\ b = f[j] /\ c = f[l]
    <3>1. f[j] \in Nat /\ f[l] \in Nat /\ j \in Nat
      <4> HIDE DEF Above
      <4> QED
        BY <2>3, <2>6
    <3> QED
      BY <3>1
  <2>8. b > a /\ b < c /\ ~(c > a + 1)
    BY <2>2, <2>4, <2>5, <2>6, <2>7
  <2> QED
    BY <2>8
<1>3. ASSUME NEW i \in 1 .. n PROVE f[i] = i
  <2>1. PICK k \in 0 .. n - 1 : n - k = i
    <3>1. n - i \in 0 .. n - 1 /\ n - (n - i) = i
      OBVIOUS
    <3> QED
      BY <3>1
  <2>2. ~(f[i] < i)
    BY <1>1
  <2>3. ~(f[i] > i)
    BY <1>2, <2>1
  <2> QED
    BY <1>0, <2>2, <2>3
<1> QED
  BY <1>3

(* Items of n different indexes, sorted by index, are 1 .. n in order.     *)
LEMMA SortedIsIdentity ==
  ASSUME NEW n \in Nat, NEW order \in Orders(n)
  PROVE  ByIndex(order) = [i \in 1 .. n |-> i]
<1>1. /\ order \in [1 .. n -> 1 .. n] /\ DOMAIN order = 1 .. n /\ Len(order) = n
      /\ \A i, j \in 1 .. n : i # j => order[i] # order[j]
  <2>1. /\ order \in [1 .. n -> 1 .. n]
        /\ \A i, j \in 1 .. n : i # j => order[i] # order[j]
    BY DEF Orders
  <2>2. order \in Seq(1 .. n) /\ DOMAIN order = 1 .. n
    BY <2>1
  <2> QED
    BY <2>1, <2>2
<1>2. \A i \in 1 .. n : \E j \in 1 .. n : order[j] = i
  <2>1. order \in Injection(1 .. n, 1 .. n)
    BY <1>1 DEF Injection, IsInjective
  <2>2. IsFiniteSet(1 .. n)
    BY FS_Interval
  <2>3. order \in Surjection(1 .. n, 1 .. n)
    BY <2>1, <2>2, FS_Injection
  <2> QED
    BY <2>3 DEF Surjection
<1> DEFINE item == [i \in 1 .. n |-> CHOOSE j \in 1 .. n : order[j] = i]
           id == [i \in 1 .. n |-> i]
           Sorts(sorted) ==
              /\ \E picked \in Orders(n) : sorted = [i \in 1 .. n |-> order[picked[i]]]
              /\ \A i, j \in 1 .. n : i < j => sorted[i] < sorted[j]
<1>3. item \in Orders(n) /\ \A i \in 1 .. n : order[item[i]] = i
  <2>1. \A i \in 1 .. n : item[i] \in 1 .. n /\ order[item[i]] = i
    BY <1>2
  <2>2. item \in [1 .. n -> 1 .. n]
    BY <2>1
  <2> HIDE DEF item
  <2> QED
    BY <2>1, <2>2 DEF Orders
<1>4. id \in Orders(n) /\ Sorts(id)
  <2>1. id \in Orders(n)
    BY DEF Orders
  <2> HIDE DEF item
  <2>2. id = [i \in 1 .. n |-> order[item[i]]]
    BY <1>3
  <2> QED
    BY <1>3, <2>1, <2>2
<1>5. ByIndex(order) = CHOOSE sorted \in Orders(n) : Sorts(sorted)
  BY <1>1 DEF ByIndex
<1>6. PICK found : found = ByIndex(order)
  OBVIOUS
<1> HIDE DEF id
<1>7. found \in Orders(n) /\ Sorts(found)
  BY <1>4, <1>5, <1>6
<1>8. found \in [1 .. n -> 1 .. n] /\ \A i, j \in 1 .. n : i < j => found[i] < found[j]
  BY <1>7 DEF Orders
<1>9. \A i \in 1 .. n : found[i] = i
  BY <1>8, IncreasingIsIdentity
<1> QED
  BY <1>6, <1>8, <1>9

LEMMA EmbedBatchInv == ASSUME BatchInv, EmbedBatch PROVE BatchInv'
<1> DEFINE left == asked - start
<1>1. /\ embedding = "embedding" /\ embedding' = embedding /\ asked' = asked
      /\ asked \in Nat /\ start \in Nat /\ start < asked
      /\ vectors = [i \in 1 .. start |-> i]
  BY DEF EmbedBatch, BatchInv
<1>0. left \in Nat /\ EmbedBatchSize \in Nat
  BY <1>1, EmbedAssumption
<1>2. PICK size \in Nat : size = IF left < EmbedBatchSize THEN left ELSE EmbedBatchSize
  <2> HIDE DEF left
  <2> QED
    BY <1>0
<1>3. size <= left
  BY <1>0, <1>2
<1>4. PICK order \in Orders(size) :
         /\ vectors' = vectors \o [i \in 1 .. size |-> start + ByIndex(order)[i]]
         /\ start' = start + size
  BY <1>2 DEF EmbedBatch
<1>5. \A i \in 1 .. size : ByIndex(order)[i] = i
  BY SortedIsIdentity
<1>6. vectors' = [i \in 1 .. start |-> i] \o [i \in 1 .. size |-> start + i]
  BY <1>1, <1>4, <1>5
<1>7. vectors' = [i \in 1 .. start + size |-> i]
  <2> DEFINE a == [i \in 1 .. start |-> i]
             b == [i \in 1 .. size |-> start + i]
  <2>1. a \in Seq(Nat) /\ b \in Seq(Nat) /\ Len(a) = start /\ Len(b) = size
    BY <1>1
  <2>2. \A i \in 1 .. start + size :
           (a \o b)[i] = IF i <= start THEN a[i] ELSE b[i - start]
    <3> HIDE DEF a, b
    <3> QED
      BY <1>1, <2>1
  <2>3. \A i \in 1 .. start + size : (a \o b)[i] = i
    BY <1>1, <2>2
  <2>4. a \o b \in [1 .. start + size -> Nat]
    <3> HIDE DEF a, b
    <3>1. a \o b \in Seq(Nat) /\ Len(a \o b) = start + size
      BY <2>1, ConcatProperties
    <3> QED
      BY <3>1, LenProperties
  <2> HIDE DEF a, b
  <2>5. a \o b = [i \in 1 .. start + size |-> i]
    BY <2>3, <2>4
  <2> QED
    BY <1>6, <2>5 DEF a, b
<1>8. start' \in 0 .. asked'
  BY <1>1, <1>3, <1>4
<1> QED
  BY <1>1, <1>4, <1>7, <1>8 DEF BatchInv

LEMMA EmbedStepInv == ASSUME BatchInv, EmbedNext PROVE BatchInv'
<1>1. CASE EmbedBatch
  BY <1>1, EmbedBatchInv
<1>2. CASE EmbedBatchFails \/ EmbedRejected
  BY <1>2 DEF BatchInv, EmbedBatchFails, EmbedRejected
<1>3. CASE EndEmbedding
  BY <1>3 DEF BatchInv, EndEmbedding
<1> QED
  BY <1>1, <1>2, <1>3 DEF EmbedNext

LEMMA EmbedTextsInv == ASSUME BatchInv, NEW count \in Nat, EmbedTexts(count) PROVE BatchInv'
  BY DEF BatchInv, EmbedTexts

LEMMA EmbedInitInv == EmbedInit => BatchInv
<1>1. <<>> = [i \in 1 .. 0 |-> i]
  OBVIOUS
<1> QED
  BY <1>1 DEF EmbedInit, BatchInv

(* OpenAIEmbeddingProvider.embed returns the vector of each text in its    *)
(* place, for every number of texts, every batch size and every order in   *)
(* which the items of the answers arrive.                                  *)
THEOREM VectorsInOrder == EmbedSpec => []VectorsInInputOrder
<1>1. EmbedInit => BatchInv
  BY EmbedInitInv
<1>2. BatchInv /\ [EmbedNext \/ \E count \in Nat : EmbedTexts(count)]_embedVars => BatchInv'
  <2>1. BatchInv /\ UNCHANGED embedVars => BatchInv'
    BY DEF BatchInv, embedVars
  <2> QED
    BY <2>1, EmbedStepInv, EmbedTextsInv
<1>3. BatchInv => VectorsInInputOrder
  BY DEF BatchInv, VectorsInInputOrder
<1> QED
  BY <1>1, <1>2, <1>3, PTL DEF EmbedSpec

(***************************************************************************)
(* The text that cleaning leaves is one that chunking takes                *)
(***************************************************************************)
(* Induction over data, by a least counterexample: the recursive functions *)
(* of the pipeline have the values that their equations say.               *)
LEMMA FlattenIsThere ==
  ASSUME NEW n \in Nat, NEW s
  PROVE  \E f : f = [i \in 1 .. n |-> IF i = 1 THEN s[i] ELSE f[i - 1] \o s[i]]
<1> DEFINE IsFlat(f, m) == f = [i \in 1 .. m |-> IF i = 1 THEN s[i] ELSE f[i - 1] \o s[i]]
           Bad == {m \in Nat : \A f : ~IsFlat(f, m)}
<1>1. ASSUME Bad # {} PROVE FALSE
  <2>1. PICK m : m \in Bad /\ \A y \in Bad : m <= y
    <3> HIDE DEF Bad
    <3>1. Bad \in SUBSET Nat
      BY DEF Bad
    <3> QED
      BY <1>1, <3>1, MinOfNaturals
  <2>2. m # 0
    <3>1. 1 .. 0 = {}
      OBVIOUS
    <3>2. <<>> = [i \in 1 .. 0 |-> IF i = 1 THEN s[i] ELSE <<>>[i - 1] \o s[i]]
      BY <3>1
    <3>3. \E g : IsFlat(g, 0)
      BY <3>2
    <3>4. \A g : ~IsFlat(g, m)
      BY <2>1
    <3> HIDE DEF IsFlat
    <3> QED
      BY <3>3, <3>4
  <2>3. PICK l \in Nat : l = m - 1 /\ m = l + 1
    BY <2>1, <2>2
  <2>4. PICK g : IsFlat(g, l)
    <3>1. l \notin Bad
      <4> HIDE DEF Bad
      <4> QED
        BY <2>1, <2>3
    <3>2. ~\A g : ~IsFlat(g, l)
      BY <3>1
    <3> QED
      BY <3>2
  <2> DEFINE new == IF m = 1 THEN s[m] ELSE g[l] \o s[m]
             f == [i \in 1 .. m |-> IF i = m THEN new ELSE g[i]]
  <2>5. ASSUME NEW i \in 1 .. m PROVE f[i] = IF i = 1 THEN s[i] ELSE f[i - 1] \o s[i]
    <3>1. CASE i = m
      <4>1. i # 1 => l \in 1 .. m /\ l # m /\ i - 1 = l
        BY <2>3, <3>1
      <4>2. i # 1 => f[i - 1] = g[l]
        BY <4>1
      <4> QED
        BY <3>1, <4>2
    <3>2. CASE i # m
      <4>1. i \in 1 .. l /\ (i # 1 => i - 1 \in 1 .. m /\ i - 1 # m)
        BY <2>3, <3>2
      <4>2. f[i] = g[i] /\ (i # 1 => f[i - 1] = g[i - 1])
        BY <3>2, <4>1
      <4>3. g[i] = IF i = 1 THEN s[i] ELSE g[i - 1] \o s[i]
        BY <2>4, <4>1
      <4> QED
        BY <4>2, <4>3
    <3> QED
      BY <3>1, <3>2
  <2>6. IsFlat(f, m)
    BY <2>5
  <2> QED
    BY <2>1, <2>6
<1>2. n \notin Bad
  <2> HIDE DEF Bad
  <2> QED
    BY <1>1
<1> QED
  BY <1>2

(* The words of all lines: the first is that of the first line with one.   *)
LEMMA FlattenIs ==
  ASSUME NEW W, NEW s \in Seq(Seq(W))
  PROVE  /\ FlattenSeq(s) \in Seq(W)
         /\ FlattenSeq(s) # <<>> =>
               \E k \in 1 .. Len(s) :
                  /\ s[k] # <<>> /\ FlattenSeq(s)[1] = s[k][1]
                  /\ \A j \in 1 .. k - 1 : s[j] = <<>>
<1> DEFINE n == Len(s)
           IsFlat(f) == f = [i \in 1 .. n |-> IF i = 1 THEN s[i] ELSE f[i - 1] \o s[i]]
           First(v, k) == s[k] # <<>> /\ v[1] = s[k][1] /\ \A j \in 1 .. k - 1 : s[j] = <<>>
           Good(v, m) ==
              /\ v \in Seq(W)
              /\ v = <<>> => \A j \in 1 .. m : s[j] = <<>>
              /\ v # <<>> => \E k \in 1 .. m : First(v, k)
<1>1. /\ n \in Nat /\ DOMAIN s = 1 .. n /\ \A i \in 1 .. n : s[i] \in Seq(W)
      /\ n = 0 => s = <<>>
  BY SeqElement
<1> HIDE DEF n
<1>2. CASE n = 0
  <2>1. FlattenSeq(s) = <<>>
    BY <1>1, <1>2 DEF FlattenSeq, n
  <2> QED
    BY <2>1
<1>3. CASE n # 0
  <2>1. PICK f : FlattenSeq(s) = f[n] /\ IsFlat(f)
    <3>1. FlattenSeq(s) = (CHOOSE f : IsFlat(f))[n]
      BY <1>3 DEF FlattenSeq, n
    <3>2. \E f : IsFlat(f)
      BY <1>1, FlattenIsThere
    <3> QED
      BY <3>1, <3>2
  <2> DEFINE Bad == {m \in 1 .. n : ~Good(f[m], m)}
  <2>2. \A m \in 1 .. n : f[m] = IF m = 1 THEN s[m] ELSE f[m - 1] \o s[m]
    BY <2>1
  <2> HIDE DEF IsFlat, Good, First
  <2>3. Good(f[1], 1)
    <3>1. 1 \in 1 .. n /\ f[1] = s[1]
      BY <1>1, <1>3, <2>2
    <3>2. \A j \in 1 .. 1 : j = 1
      OBVIOUS
    <3>3. First(s[1], 1) \/ s[1] = <<>>
      BY DEF First
    <3> QED
      BY <1>1, <3>1, <3>2, <3>3 DEF Good
  <2>4. ASSUME NEW l \in 1 .. n, NEW m \in 1 .. n, m = l + 1, Good(f[l], l) PROVE Good(f[m], m)
    <3>1. PICK v : v = f[l] /\ v \in Seq(W)
      BY <2>4 DEF Good
    <3>2. PICK w : w = s[m] /\ w \in Seq(W)
      BY <1>1
    <3>3. f[m] = v \o w
      <4>1. m # 1 /\ m - 1 = l
        BY <1>1, <2>4
      <4>2. f[m] = f[l] \o s[m]
        BY <2>2, <4>1
      <4> QED
        BY <3>1, <3>2, <4>2
    <3>4. v \o w \in Seq(W)
      BY <3>1, <3>2
    <3>5. CASE v = <<>>
      <4>1. v \o w = w
        BY <3>2, <3>5, ConcatEmptySeq
      <4>2. \A j \in 1 .. l : s[j] = <<>>
        BY <2>4, <3>1, <3>5 DEF Good
      <4>3. l = m - 1 /\ m \in 1 .. m /\ \A j \in 1 .. m : j \in 1 .. l \/ j = m
        BY <1>1, <2>4
      <4>4. w # <<>> => First(w, m)
        BY <3>2, <4>2, <4>3 DEF First
      <4> QED
        BY <3>2, <3>3, <3>4, <4>1, <4>2, <4>3, <4>4 DEF Good
    <3>6. CASE v # <<>>
      <4>1. PICK k \in 1 .. l : First(v, k)
        BY <2>4, <3>1, <3>6 DEF Good
      <4>2. v \o w # <<>> /\ (v \o w)[1] = v[1]
        <5>1. Len(v) \in Nat \ {0} /\ Len(w) \in Nat
          BY <3>1, <3>2, <3>6, EmptySeq, LenProperties
        <5>2. 1 \in 1 .. Len(v) + Len(w) /\ 1 <= Len(v) /\ Len(v) + Len(w) # 0
          BY <5>1
        <5>3. Len(v \o w) = Len(v) + Len(w) /\ (v \o w)[1] = v[1]
          BY <3>1, <3>2, <5>2, ConcatProperties
        <5> QED
          BY <5>2, <5>3, EmptySeq
      <4>3. k \in 1 .. m /\ First(v \o w, k)
        BY <1>1, <2>4, <4>1, <4>2 DEF First
      <4> QED
        BY <3>3, <3>4, <4>2, <4>3 DEF Good
    <3> QED
      BY <3>5, <3>6
  <2>5. ASSUME Bad # {} PROVE FALSE
    <3>1. PICK m : m \in Bad /\ \A y \in Bad : m <= y
      <4>1. Bad \in SUBSET Nat
        BY <1>1
      <4> HIDE DEF Bad
      <4> QED
        BY <2>5, <4>1, MinOfNaturals
    <3>2. m \in 1 .. n /\ ~Good(f[m], m) /\ m # 1
      BY <2>3, <3>1
    <3>3. PICK l \in 1 .. n : l = m - 1 /\ m = l + 1
      BY <1>1, <3>2
    <3>4. l \notin Bad
      <4> HIDE DEF Bad
      <4> QED
        BY <1>1, <3>1, <3>2, <3>3
    <3>5. Good(f[l], l)
      BY <3>4
    <3> QED
      BY <2>4, <3>2, <3>3, <3>5
  <2>6. n \in 1 .. n
    BY <1>1, <1>3
  <2>7. Good(f[n], n)
    BY <2>5, <2>6
  <2> QED
    BY <2>1, <2>7 DEF Good, First, n
<1> QED
  BY <1>2, <1>3

IsBegins(f, n, flat) ==
    f = [i \in 1 .. n |->
            IF i = 1 THEN 0
            ELSE f[i - 1] + flat[i - 1].size + Separation(flat[i].break = "paragraph")]

LEMMA BeginsIsThere ==
  ASSUME NEW n \in Nat, NEW flat
  PROVE  \E f : IsBegins(f, n, flat)
<1> DEFINE After(place, i) == place + flat[i - 1].size + Separation(flat[i].break = "paragraph")
           Ends(f, m) == f = [i \in 1 .. m |-> IF i = 1 THEN 0 ELSE After(f[i - 1], i)]
           Bad == {m \in Nat : \A f : ~Ends(f, m)}
<1> HIDE DEF After
<1>1. ASSUME Bad # {} PROVE FALSE
  <2>1. PICK m : m \in Bad /\ \A y \in Bad : m <= y
    <3> HIDE DEF Bad
    <3>1. Bad \in SUBSET Nat
      BY DEF Bad
    <3> QED
      BY <1>1, <3>1, MinOfNaturals
  <2>2. m # 0
    <3>1. 1 .. 0 = {}
      OBVIOUS
    <3>2. <<>> = [i \in 1 .. 0 |-> IF i = 1 THEN 0 ELSE After(<<>>[i - 1], i)]
      BY <3>1
    <3>3. \E g : Ends(g, 0)
      BY <3>2
    <3>4. \A g : ~Ends(g, m)
      BY <2>1
    <3> HIDE DEF Ends
    <3> QED
      BY <3>3, <3>4
  <2>3. PICK l \in Nat : l = m - 1 /\ m = l + 1
    BY <2>1, <2>2
  <2>4. PICK g : Ends(g, l)
    <3>1. l \notin Bad
      <4> HIDE DEF Bad
      <4> QED
        BY <2>1, <2>3
    <3>2. ~\A g : ~Ends(g, l)
      BY <3>1
    <3> QED
      BY <3>2
  <2> DEFINE new == IF m = 1 THEN 0 ELSE After(g[l], m)
             f == [i \in 1 .. m |-> IF i = m THEN new ELSE g[i]]
  <2>5. ASSUME NEW i \in 1 .. m PROVE f[i] = IF i = 1 THEN 0 ELSE After(f[i - 1], i)
    <3>1. CASE i = m
      <4>1. i # 1 => l \in 1 .. m /\ l # m /\ i - 1 = l
        BY <2>3, <3>1
      <4>2. i # 1 => f[i - 1] = g[l]
        BY <4>1
      <4> QED
        BY <3>1, <4>2
    <3>2. CASE i # m
      <4>1. i \in 1 .. l /\ (i # 1 => i - 1 \in 1 .. m /\ i - 1 # m)
        BY <2>3, <3>2
      <4>2. f[i] = g[i] /\ (i # 1 => f[i - 1] = g[i - 1])
        BY <3>2, <4>1
      <4>3. g[i] = IF i = 1 THEN 0 ELSE After(g[i - 1], i)
        BY <2>4, <4>1
      <4> QED
        BY <4>2, <4>3
    <3> QED
      BY <3>1, <3>2
  <2>6. Ends(f, m)
    BY <2>5
  <2> QED
    BY <2>1, <2>6
<1>2. n \notin Bad
  <2> HIDE DEF Bad
  <2> QED
    BY <1>1
<1> QED
  BY <1>2 DEF After, IsBegins

(* Words begin one after the other, separated as their breaks say.         *)
LEMMA BeginsIs ==
  ASSUME NEW B, NEW flat \in Seq([size : Nat \ {0}, break : B])
  PROVE  LET from == Begins(flat)
         IN  /\ from \in [1 .. Len(flat) -> Nat]
             /\ \A i \in 2 .. Len(flat) :
                   from[i] = from[i - 1] + flat[i - 1].size
                                + Separation(flat[i].break = "paragraph")
             /\ \A i, j \in 1 .. Len(flat) : i < j => from[i] + flat[i].size < from[j]
<1> DEFINE n == Len(flat)
           gap(i) == Separation(flat[i].break = "paragraph")
<1>1. n \in Nat /\ DOMAIN flat = 1 .. n /\ \A i \in 1 .. n : flat[i].size \in Nat \ {0}
  <2> DEFINE W == [size : Nat \ {0}, break : B]
  <2>1. flat \in Seq(W) /\ \A w \in W : w.size \in Nat \ {0}
    OBVIOUS
  <2> HIDE DEF W
  <2> QED
    BY <2>1, SeqElement
<1> HIDE DEF n
<1>2. \A i : gap(i) \in {1, 2}
  BY SeparationIs
<1>3. PICK from : Begins(flat) = from /\ IsBegins(from, n, flat)
  <2>1. Begins(flat) = CHOOSE f : IsBegins(f, n, flat)
    BY <1>1 DEF Begins, IsBegins, n
  <2>2. \E f : IsBegins(f, n, flat)
    BY <1>1, BeginsIsThere
  <2> QED
    BY <2>1, <2>2
<1>4. \A i \in 1 .. n : from[i] = IF i = 1 THEN 0 ELSE from[i - 1] + flat[i - 1].size + gap(i)
  BY <1>3 DEF IsBegins
<1> HIDE DEF gap
<1> DEFINE Bad == {i \in 1 .. n : from[i] \notin Nat}
<1>5. ASSUME Bad # {} PROVE FALSE
  <2>1. PICK m : m \in Bad /\ \A y \in Bad : m <= y
    <3>1. Bad \in SUBSET Nat
      BY <1>1
    <3> HIDE DEF Bad
    <3> QED
      BY <1>5, <3>1, MinOfNaturals
  <2>2. m \in 1 .. n /\ from[m] \notin Nat /\ m # 1
    BY <1>1, <1>4, <2>1
  <2>3. PICK l \in 1 .. n : l = m - 1 /\ l < m
    BY <1>1, <2>2
  <2>4. l \notin Bad
    <3> HIDE DEF Bad
    <3> QED
      BY <1>1, <2>1, <2>2, <2>3
  <2>5. from[l] \in Nat /\ flat[l].size \in Nat /\ gap(m) \in Nat
    BY <1>1, <1>2, <2>4
  <2>6. from[m] = from[l] + flat[l].size + gap(m)
    BY <1>4, <2>2, <2>3
  <2> QED
    BY <2>2, <2>5, <2>6
<1>6. \A i \in 1 .. n : from[i] \in Nat
  BY <1>5
<1>7. from \in [1 .. n -> Nat]
  BY <1>3, <1>6 DEF IsBegins
<1>8. ASSUME NEW l \in 1 .. n, NEW m \in 1 .. n, m = l + 1 PROVE from[l] + flat[l].size < from[m]
  <2>1. m # 1 /\ m - 1 = l
    BY <1>1, <1>8
  <2>2. from[m] = from[l] + flat[l].size + gap(m)
    BY <1>4, <2>1
  <2>3. from[l] \in Nat /\ flat[l].size \in Nat /\ gap(m) \in {1, 2}
    BY <1>1, <1>2, <1>6
  <2> QED
    BY <2>2, <2>3
<1>9. ASSUME NEW i \in 1 .. n, NEW j \in 1 .. n, i < j PROVE from[i] + flat[i].size < from[j]
  <2> DEFINE Worse == {m \in 1 .. n : i < m /\ ~(from[i] + flat[i].size < from[m])}
  <2>1. ASSUME Worse # {} PROVE FALSE
    <3>1. PICK m : m \in Worse /\ \A y \in Worse : m <= y
      <4>1. Worse \in SUBSET Nat
        BY <1>1
      <4> HIDE DEF Worse
      <4> QED
        BY <2>1, <4>1, MinOfNaturals
    <3>2. m \in 1 .. n /\ i < m /\ ~(from[i] + flat[i].size < from[m])
      BY <3>1
    <3>3. PICK l \in 1 .. n : m = l + 1 /\ i <= l /\ l < m
      <4>1. m \in Nat /\ i \in Nat /\ n \in Nat /\ 1 <= i /\ m <= n /\ i < m
        BY <1>1, <3>2
      <4>2. m - 1 \in 1 .. n /\ m = (m - 1) + 1 /\ i <= m - 1 /\ m - 1 < m
        BY <4>1
      <4> QED
        BY <4>2
    <3>4. from[l] + flat[l].size < from[m] /\ i # l
      BY <1>8, <3>2, <3>3
    <3>5. l \notin Worse /\ i < l
      <4> HIDE DEF Worse
      <4> QED
        BY <1>1, <3>1, <3>3, <3>4
    <3>6. from[i] + flat[i].size < from[l]
      BY <3>5
    <3>7. /\ from[i] \in Nat /\ from[l] \in Nat /\ from[m] \in Nat
          /\ flat[i].size \in Nat /\ flat[l].size \in Nat
      BY <1>1, <1>6, <3>2
    <3>8. PICK a \in Nat, b \in Nat, c \in Nat, d \in Nat, e \in Nat :
             /\ a = from[i] /\ b = from[l] /\ c = from[m]
             /\ d = flat[i].size /\ e = flat[l].size
      BY <3>7
    <3>9. a + d < b /\ b + e < c /\ ~(a + d < c)
      BY <3>2, <3>4, <3>6, <3>8
    <3> QED
      BY <3>9
  <2> QED
    BY <1>9, <2>1
<1>10. \A i \in 2 .. n : i \in 1 .. n /\ i # 1
  BY <1>1
<1> QED
  BY <1>3, <1>4, <1>7, <1>9, <1>10 DEF n, gap

(* The words of one line that is kept.                                     *)
LEMMA WordsOfLineAre ==
  ASSUME CleanTypeOK, NEW k \in DOMAIN kept
  PROVE  /\ WordsOfLine(k) \in Seq([size : Nat \ {0}, break : {"paragraph", "sentence", "word"}])
         /\ WordsOfLine(k) = <<>> <=> lines[kept[k]].content = <<>>
         /\ WordsOfLine(k) # <<>> /\ (k = 1 \/ EndsParagraph(kept[k - 1])) =>
               WordsOfLine(k)[1].break = "paragraph"
<1> DEFINE B == {"paragraph", "sentence", "word"}
           W == [size : Nat \ {0}, break : B]
           C == [size : Nat \ {0}, sentence : BOOLEAN]
<1>1. kept[k] \in 1 .. Len(lines) /\ DOMAIN lines = 1 .. Len(lines)
  BY Line DEF CleanTypeOK
<1>2. PICK content : content = lines[kept[k]].content /\ content \in Seq(C)
  BY <1>1, ContentAssumption DEF CleanTypeOK
<1>3. PICK own \in BOOLEAN :
         own = (k = 1 \/ lines[kept[k]].heading \/ EndsParagraph(kept[k - 1]))
  OBVIOUS
<1> DEFINE break(w) == IF w = 1 /\ own THEN "paragraph"
                       ELSE IF content[w].sentence THEN "sentence" ELSE "word"
<1>4. WordsOfLine(k) = [w \in DOMAIN content |-> [size |-> content[w].size, break |-> break(w)]]
  BY <1>2, <1>3 DEF WordsOfLine
<1>5. \A w : break(w) \in B
  OBVIOUS
<1>6. Len(content) \in Nat /\ DOMAIN content = 1 .. Len(content)
      /\ \A w \in 1 .. Len(content) : content[w].size \in Nat \ {0}
  <2>1. \A c \in C : c.size \in Nat \ {0}
    OBVIOUS
  <2> HIDE DEF C
  <2> QED
    BY <1>2, <2>1, SeqElement
<1>7. own /\ content # <<>> => 1 \in DOMAIN content /\ break(1) = "paragraph"
  BY <1>6, <1>2
<1> HIDE DEF break
<1>8. WordsOfLine(k) \in Seq(W) /\ Len(WordsOfLine(k)) = Len(content)
  BY <1>4, <1>5, <1>6
<1>9. WordsOfLine(k) = <<>> <=> content = <<>>
  <2>1. content = <<>> <=> Len(content) = 0
    BY <1>2, EmptySeq
  <2>2. WordsOfLine(k) = <<>> <=> Len(WordsOfLine(k)) = 0
    <3> HIDE DEF W
    <3> QED
      BY <1>8, EmptySeq
  <2> QED
    BY <1>8, <2>1, <2>2
<1>10. WordsOfLine(k) # <<>> /\ own => WordsOfLine(k)[1].break = "paragraph"
  BY <1>4, <1>7, <1>9
<1> QED
  BY <1>2, <1>3, <1>8, <1>9, <1>10

LEMMA WordsKeptAre ==
  ASSUME CleanTypeOK
  PROVE  /\ WordsKept \in Seq([size : Nat \ {0}, break : {"paragraph", "sentence", "word"}])
         /\ WordsKept # <<>> => WordsKept[1].break = "paragraph"
<1> DEFINE W == [size : Nat \ {0}, break : {"paragraph", "sentence", "word"}]
           s == [k \in DOMAIN kept |-> WordsOfLine(k)]
<1>1. Len(kept) \in Nat /\ DOMAIN kept = 1 .. Len(kept)
  BY DEF CleanTypeOK
<1>2. \A k \in DOMAIN kept : WordsOfLine(k) \in Seq(W)
  BY WordsOfLineAre
<1> HIDE DEF W
<1>3. s \in Seq(Seq(W)) /\ Len(s) = Len(kept)
  BY <1>1, <1>2
<1>4. WordsKept = FlattenSeq(s)
  BY DEF WordsKept
<1>5. /\ WordsKept \in Seq(W)
      /\ WordsKept # <<>> =>
            \E k \in 1 .. Len(s) :
               /\ s[k] # <<>> /\ WordsKept[1] = s[k][1]
               /\ \A j \in 1 .. k - 1 : s[j] = <<>>
  <2> HIDE DEF s
  <2> QED
    BY <1>3, <1>4, FlattenIs
<1>6. ASSUME WordsKept # <<>> PROVE WordsKept[1].break = "paragraph"
  <2>1. PICK k \in 1 .. Len(s) :
           /\ s[k] # <<>> /\ WordsKept[1] = s[k][1]
           /\ \A j \in 1 .. k - 1 : s[j] = <<>>
    BY <1>5, <1>6
  <2>2. k \in DOMAIN kept /\ s[k] = WordsOfLine(k)
    BY <1>1, <1>3
  <2>3. CASE k = 1
    BY <2>1, <2>2, <2>3, WordsOfLineAre
  <2>4. CASE k # 1
    <3>1. k - 1 \in DOMAIN kept /\ k - 1 \in 1 .. k - 1
      BY <1>1, <1>3, <2>4
    <3>2. WordsOfLine(k - 1) = <<>>
      BY <2>1, <3>1
    <3>3. EndsParagraph(kept[k - 1])
      BY <3>1, <3>2, WordsOfLineAre DEF EndsParagraph
    <3> QED
      BY <2>1, <2>2, <3>3, WordsOfLineAre
  <2> QED
    BY <2>3, <2>4
<1> QED
  BY <1>5, <1>6 DEF W

(* What clean_text leaves is a text that split_text takes.                 *)
LEMMA CleanedTextIsWellFormed == ASSUME CleanTypeOK PROVE WellFormed(CleanedText)
<1> DEFINE B == {"paragraph", "sentence", "word"}
           W == [size : Nat \ {0}, break : B]
           T == [from : Nat, to : Nat, break : B]
<1>1. PICK flat : flat = WordsKept /\ flat \in Seq(W)
                  /\ (flat # <<>> => flat[1].break = "paragraph")
  BY WordsKeptAre
<1>2. Len(flat) \in Nat /\ DOMAIN flat = 1 .. Len(flat)
      /\ \A i \in 1 .. Len(flat) : flat[i].size \in Nat \ {0} /\ flat[i].break \in B
  <2>1. \A w \in W : w.size \in Nat \ {0} /\ w.break \in B
    OBVIOUS
  <2> HIDE DEF W, B
  <2> QED
    BY <1>1, <2>1, SeqElement
<1>3. PICK from :
         /\ from = Begins(flat)
         /\ from \in [1 .. Len(flat) -> Nat]
         /\ \A i \in 2 .. Len(flat) :
               from[i] = from[i - 1] + flat[i - 1].size
                            + Separation(flat[i].break = "paragraph")
         /\ \A i, j \in 1 .. Len(flat) : i < j => from[i] + flat[i].size < from[j]
  <2> HIDE DEF B
  <2> QED
    BY <1>1, BeginsIs, ZenonT(30)
<1>4. PICK text :
         /\ text = CleanedText
         /\ text = [i \in 1 .. Len(flat) |->
                      [from |-> from[i], to |-> from[i] + flat[i].size, break |-> flat[i].break]]
  BY <1>1, <1>2, <1>3 DEF CleanedText
<1>5. text \in Seq(T) /\ DOMAIN text = 1 .. Len(flat)
  <2>1. \A i \in 1 .. Len(flat) : text[i] \in T
    BY <1>2, <1>3, <1>4
  <2> HIDE DEF T
  <2> QED
    BY <1>2, <1>4, <2>1
<1>6. \A i \in 1 .. Len(flat) :
         text[i].from = from[i] /\ text[i].to = from[i] + flat[i].size
         /\ text[i].break = flat[i].break
  BY <1>4
<1>7. ASSUME NEW i \in 1 .. Len(flat)
      PROVE  /\ text[i].from < text[i].to
             /\ i = 1 => text[i].break = "paragraph"
             /\ i > 1 => text[i].from =
                            text[i - 1].to + Separation(text[i].break = "paragraph")
             /\ \A j \in 1 .. Len(flat) : i < j => text[i].to < text[j].from
  <2>1. text[i].from < text[i].to
    BY <1>2, <1>3, <1>6
  <2>2. flat # <<>>
    BY <1>2
  <2>3. i = 1 => text[i].break = "paragraph"
    BY <1>1, <1>6, <2>2
  <2>4. ASSUME i > 1
        PROVE  text[i].from = text[i - 1].to + Separation(text[i].break = "paragraph")
    <3>1. i \in 2 .. Len(flat) /\ i - 1 \in 1 .. Len(flat)
      BY <1>2, <2>4
    <3> QED
      BY <1>3, <1>6, <3>1
  <2>5. \A j \in 1 .. Len(flat) : i < j => text[i].to < text[j].from
    BY <1>3, <1>6
  <2> QED
    BY <2>1, <2>3, <2>4, <2>5
<1>8. WellFormed(text)
  BY <1>5, <1>7 DEF WellFormed
<1> QED
  BY <1>4, <1>8

(***************************************************************************)
(* The pipeline                                                            *)
(***************************************************************************)
PipeInv == CleanInv /\ ChunkInv /\ CoverInv /\ BatchInv

LEMMA EmbedStutters == ASSUME BatchInv, UNCHANGED embedVars PROVE BatchInv'
  BY DEF BatchInv, embedVars

(* An article without text ends the pipeline before any chunk.             *)
LEMMA RejectEmptyInv == ASSUME ChunkInv, CoverInv, RejectEmpty PROVE ChunkInv' /\ CoverInv'
<1>1. /\ mode = "idle" /\ mode' = "empty"
      /\ words' = words /\ next' = next /\ last' = last /\ part' = part /\ rest' = rest
      /\ pieces' = pieces /\ lo' = lo /\ hi' = hi /\ chunks' = chunks
  BY DEF RejectEmpty, splitVars, packVars
<1>2. words = <<>>
  BY <1>1 DEF CoverInv, SplitCovers
<1>3. ChunkTypeOK'
  BY <1>1 DEF ChunkInv, ChunkTypeOK, WellFormed, Modes
<1>4. PieceInv' /\ SplitInv'
  BY <1>1 DEF ChunkInv, PieceInv, Size, SplitInv
<1>5. PackInv' /\ ChunksFit' /\ ChunksAdvance'
  BY <1>1 DEF ChunkInv, PackInv, ChunksFit, ChunksAdvance, Length
<1>6. SplitCovers'
  BY <1>1, <1>2 DEF SplitCovers
<1>7. PackCovers'
  BY <1>1 DEF ChunkInv, PackInv, PackCovers
<1> QED
  BY <1>3, <1>4, <1>5, <1>6, <1>7 DEF ChunkInv, CoverInv

(* Each of the three components keeps its invariant while the others step, *)
(* and what one hands to the next is what the next may be given.           *)
THEOREM PipelineInductive == PipeSpec => []PipeInv
<1>1. PipeInit => PipeInv
  BY CleanInitInv, ChunkInitInv, CoverInit, EmbedInitInv DEF PipeInit, PipeInv
<1>2. PipeInv /\ [PipeNext]_pipeVars => PipeInv'
  <2> SUFFICES ASSUME PipeInv, [PipeNext]_pipeVars
               PROVE  PipeInv'
    OBVIOUS
  <2> USE DEF PipeInv
  <2>1. CASE CleanStep
    BY <2>1, CleanNextInv, ChunkStutters, CoverStutters, EmbedStutters DEF CleanStep
  <2>2. CASE Chunk
    <3>1. PICK text : text = CleanedText
      OBVIOUS
    <3>2. WellFormed(text)
      BY <3>1, CleanedTextIsWellFormed DEF CleanInv
    <3>3. SplitText(text)
      BY <2>2, <3>1 DEF Chunk
    <3>4. ChunkInv' /\ CoverInv'
      BY <3>2, <3>3, SplitTextInv, CoverSplitText
    <3> QED
      BY <2>2, <3>4, CleanNextInv, EmbedStutters DEF Chunk
  <2>3. CASE RejectEmpty
    BY <2>3, RejectEmptyInv, CleanNextInv, EmbedStutters DEF RejectEmpty
  <2>4. CASE ChunkStep
    <3>1. ChunkNext
      BY <2>4 DEF ChunkStep
    <3>2. ChunkInv'
      BY <3>1, SplitParagraphInv, SplitSentenceInv, FlushBeforeCutInv, CutWordInv, AddWordInv,
         EndSentenceInv, EndPiecesInv, PackPieceInv, EndPackingInv DEF ChunkNext
    <3>3. CoverInv'
      BY <3>1, <3>2, CoverNext
    <3> QED
      BY <2>4, <3>2, <3>3, CleanNextInv, EmbedStutters DEF ChunkStep
  <2>5. CASE Embed
    <3>1. PICK count \in Nat : count = Len(chunks)
      BY Chunks DEF ChunkInv
    <3>2. EmbedTexts(count)
      BY <2>5, <3>1 DEF Embed
    <3> QED
      BY <2>5, <3>2, EmbedTextsInv, CleanNextInv, ChunkStutters, CoverStutters DEF Embed
  <2>6. CASE EmbedStep
    BY <2>6, EmbedStepInv, CleanNextInv, ChunkStutters, CoverStutters DEF EmbedStep
  <2>7. CASE UNCHANGED pipeVars
    BY <2>7, CleanNextInv, ChunkStutters, CoverStutters, EmbedStutters DEF pipeVars
  <2> QED
    BY <2>1, <2>2, <2>3, <2>4, <2>5, <2>6, <2>7 DEF PipeNext
<1> QED
  BY <1>1, <1>2, PTL DEF PipeSpec

(* _ingest_one, from the page to its vectors: exactly the text outside the *)
(* excluded sections is kept, all of it is in a chunk, each chunk fits, is *)
(* a stretch of the text and goes beyond the one before it, and each chunk *)
(* has its own vector.                                                     *)
THEOREM PipelineKeepsTheText ==
  PipeSpec => [](/\ SkipsExcludedSectionsOnly
                 /\ ChunksFit /\ ChunksAdvance /\ ChunksAreVerbatim
                 /\ EveryCharacterIsInAChunk
                 /\ VectorsInInputOrder)
<1>1. PipeInv => /\ SkipsExcludedSectionsOnly /\ ChunksFit /\ ChunksAdvance
                 /\ ChunksAreVerbatim /\ EveryCharacterIsInAChunk /\ VectorsInInputOrder
  BY CoverAll, VerbatimChunks DEF PipeInv, CleanInv, ChunkInv, BatchInv, VectorsInInputOrder
<1> QED
  BY <1>1, PipelineInductive, PTL
=============================================================================
