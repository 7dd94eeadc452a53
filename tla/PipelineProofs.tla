---------------------------- MODULE PipelineProofs ----------------------------
(***************************************************************************)
(* Theorems about DocumentPipeline, for objects of any length and chunks   *)
(* of any size and overlap.                                                *)
(***************************************************************************)
EXTENDS DocumentPipeline, SequenceTheorems, FiniteSetTheorems, TLAPS

-----------------------------------------------------------------------------
(* Type correctness *)

\* A cut out of a text is a text, and has at position i what the text has i-1
\* positions after the cut.
LEMMA CutIsText ==
  ASSUME NEW S, NEW text \in Seq(S), NEW first \in DOMAIN text, NEW last \in DOMAIN text
  PROVE  /\ SubSeq(text, first, last) \in Seq(S)
         /\ Len(SubSeq(text, first, last)) = IF first <= last THEN last - first + 1 ELSE 0
         /\ \A i \in DOMAIN SubSeq(text, first, last) :
              /\ first + i - 1 \in first..last
              /\ SubSeq(text, first, last)[i] = text[first + i - 1]
<1>1. first \in 1..Len(text) /\ last \in 1..Len(text) /\ Len(text) \in Nat
  BY LenProperties
<1>2. \A i \in first..last : text[i] \in S
  BY <1>1, ElementOfSeq
<1>3. /\ SubSeq(text, first, last) \in Seq(S)
      /\ Len(SubSeq(text, first, last)) = IF first <= last THEN last - first + 1 ELSE 0
      /\ \A i \in 1..(last - first + 1) : SubSeq(text, first, last)[i] = text[first + i - 1]
  BY <1>1, <1>2, SubSeqProperties
<1>4. DOMAIN SubSeq(text, first, last) = 1..Len(SubSeq(text, first, last))
  BY <1>3, LenProperties
<1>5. \A i \in DOMAIN SubSeq(text, first, last) : i \in 1..(last - first + 1)
  BY <1>1, <1>3, <1>4
<1> QED BY <1>1, <1>3, <1>5

\* A loader that has collected nothing holds a text, too.
LEMMA EmptyText == <<>> \in Text
BY EmptySeq DEF Text

\* A text with one more line is a text.
LEMMA AppendLine ==
  ASSUME NEW text \in Text, NEW p \in 1..MaxLines
  PROVE  Append(text, p) \in Text
BY AppendProperties DEF Text

\* Whichever unit a loader appends, the units stay units and do not get fewer.
LEMMA GrownUnits ==
  ASSUME TypeOK, NEW grown \in {units, PageUnit, SectionUnit, TextUnit}
  PROVE  grown \in Seq(Unit) /\ unit <= Len(grown) + 1
<1>1. /\ [text |-> lines, page |-> page, heading |-> NoHeading] \in Unit
      /\ [text |-> lines, page |-> NoPage, heading |-> heading] \in Unit
      /\ [text |-> lines, page |-> NoPage, heading |-> NoHeading] \in Unit
  BY SizesAssumption DEF TypeOK, Unit, NoPage, NoHeading
<1>2. units \in Seq(Unit) /\ Len(units) \in Nat /\ unit \in Nat /\ unit <= Len(units) + 1
  BY LenProperties DEF TypeOK
<1>3. ASSUME NEW u \in Unit
      PROVE  Append(units, u) \in Seq(Unit) /\ unit <= Len(Append(units, u)) + 1
  BY <1>2, AppendProperties
<1>4. PageUnit \in Seq(Unit) /\ unit <= Len(PageUnit) + 1
  BY <1>1, <1>3 DEF PageUnit
<1>5. TextUnit \in Seq(Unit) /\ unit <= Len(TextUnit) + 1
  BY <1>1, <1>3 DEF TextUnit
<1>6. SectionUnit \in Seq(Unit) /\ unit <= Len(SectionUnit) + 1
  BY <1>1, <1>2, <1>3 DEF SectionUnit
<1> QED BY <1>2, <1>4, <1>5, <1>6

\* The pieces that NextPiece may add as a chunk are chunks.
LEMMA PieceIsChunk ==
  ASSUME TypeOK, unit \in DOMAIN units,
         NEW first \in DOMAIN units[unit].text, NEW last \in DOMAIN units[unit].text
  PROVE  NewChunk(SubSeq(units[unit].text, first, last)) \in Chunk
<1>1. units[unit] \in Unit
  BY DEF TypeOK
<1>2. SubSeq(units[unit].text, first, last) \in Text
  BY <1>1, CutIsText DEF Unit, Text
<1> QED BY <1>1, <1>2 DEF NewChunk, Chunk, Unit, TypeOK

\* A piece of a text lies within it.
LEMMA IntervalWithin ==
  ASSUME NEW n \in Nat, NEW from \in 1..n, NEW to \in 1..n
  PROVE  from..to \subseteq 1..n /\ to \in Nat
<1> QED OBVIOUS

\* The texts to embed are one per chunk.
LEMMA ContentsAre ==
  ASSUME TypeOK
  PROVE  /\ Contents \in Seq(Text) /\ Len(Contents) = Len(chunks)
         /\ \A k \in 1..Len(chunks) : Contents[k] = chunks[k].content
<1>0. chunks \in Seq(Chunk)
  BY DEF TypeOK
<1>1. DOMAIN chunks = 1..Len(chunks) /\ Len(chunks) \in Nat
  BY <1>0, LenProperties
<1>2. \A k \in 1..Len(chunks) : chunks[k].content \in Text
  <2>1. \A k \in 1..Len(chunks) : chunks[k] \in Chunk
    BY <1>0, ElementOfSeq
  <2> QED BY <2>1 DEF Chunk
<1>3. Contents \in [1..Len(chunks) -> Text] /\ \A k \in 1..Len(chunks) : Contents[k] = chunks[k].content
  BY <1>1, <1>2 DEF Contents
<1> QED BY <1>1, <1>3

\* TypeOK: the pipeline's state keeps its types.
THEOREM TypeCorrect == Spec => []TypeOK
<1> USE SizesAssumption
<1>1. Init => TypeOK
  <2> SUFFICES ASSUME Init PROVE TypeOK
    OBVIOUS
  <2>1. PICK n \in 0..MaxLines : object \in [1..n -> Line]
    BY DEF Init
  <2>2. object \in Seq(Line) /\ Len(object) = n
    BY <2>1
  <2> QED BY <2>2 DEF Init, TypeOK, Text, Stage, NoHeading, Nothing
<1>2. TypeOK /\ [Next]_vars => TypeOK'
  <2> SUFFICES ASSUME TypeOK, [Next]_vars PROVE TypeOK'
    OBVIOUS
  <2> USE DEF TypeOK, loading, chunking, storing
  <2>1. CASE Fetch
    BY <2>1 DEF Fetch, Stage
  <2>2. CASE ReadPdf
    <3>1. pos \in 1..MaxLines /\ pos' \in 1..(Len(object') + 1)
      BY <2>2 DEF ReadPdf
    <3>2. units' \in {units, PageUnit} /\ lines' \in {lines, <<>>, Append(lines, pos)}
      BY <2>2 DEF ReadPdf
    <3>3. UNCHANGED <<type, object, stage, heading, chunking, storing>>
      BY <2>2, Zenon DEF ReadPdf
    <3>4. page' \in {page, page + 1}
      BY <2>2, Zenon DEF ReadPdf
    <3>5. page' \in Nat
      BY <3>4
    <3>6. lines' \in Text
      BY <3>1, <3>2, EmptyText, AppendLine
    <3> QED BY <3>1, <3>2, <3>3, <3>5, <3>6, GrownUnits
  <2>3. CASE ReadDocx
    <3>1. pos \in 1..MaxLines /\ pos' \in 1..(Len(object') + 1) /\ heading' \in 0..Len(object')
      BY <2>3 DEF ReadDocx
    <3>2. units' \in {units, SectionUnit} /\ lines' \in {lines, <<>>, Append(lines, pos)}
      BY <2>3 DEF ReadDocx
    <3>3. UNCHANGED <<type, object, stage, page, chunking, storing>>
      BY <2>3 DEF ReadDocx
    <3>4. lines' \in Text
      BY <3>1, <3>2, EmptyText, AppendLine
    <3> QED BY <3>1, <3>2, <3>3, <3>4, GrownUnits
  <2>4. CASE ReadText
    <3>1. pos \in 1..MaxLines /\ pos' \in 1..(Len(object') + 1)
      BY <2>4 DEF ReadText
    <3> QED BY <2>4, <3>1, AppendLine DEF ReadText
  <2>5. CASE EndLoad
    <3>1. units' \in {PageUnit, SectionUnit, TextUnit}
      BY <2>5 DEF EndLoad
    <3>2. UNCHANGED <<type, object, pos, page, heading, chunking, storing>> /\ stage' \in Stage
      BY <2>5 DEF EndLoad, Stage
    <3>3. lines' \in Text
      BY <2>5, EmptyText DEF EndLoad
    <3> QED BY <3>1, <3>2, <3>3, GrownUnits
  <2>6. CASE Unreadable
    BY <2>6 DEF Unreadable, Stage
  <2>7. CASE NextPiece
    <3>1. unit \in DOMAIN units
      BY <2>7 DEF NextPiece
    <3>2. /\ units[unit].text \in Text
          /\ \A from, to \in DOMAIN units[unit].text :
               from..to \subseteq DOMAIN units[unit].text /\ to \in Nat
      <4>1. units[unit] \in Unit
        BY <3>1
      <4>2. units[unit].text \in Seq(1..MaxLines)
        BY <4>1 DEF Unit, Text
      <4>3. /\ DOMAIN units[unit].text = 1..Len(units[unit].text)
            /\ Len(units[unit].text) \in Nat
        BY <4>2, LenProperties
      <4>4. \A from, to \in 1..Len(units[unit].text) :
              from..to \subseteq 1..Len(units[unit].text) /\ to \in Nat
        BY <4>3, IntervalWithin, Zenon
      <4> QED BY <4>2, <4>3, <4>4 DEF Text
    <3>3. at' \in Nat
      BY <2>7, <3>2 DEF NextPiece
    <3>4. /\ chunks' \in Seq(Chunk) /\ index' \in Nat
      <4>1. CASE UNCHANGED <<index, chunks>>
        BY <4>1
      <4>2. ASSUME NEW from \in DOMAIN units[unit].text, NEW to \in DOMAIN units[unit].text,
                   NEW first \in from..to, NEW last \in from..to,
                   chunks' = Append(chunks, NewChunk(SubSeq(units[unit].text, first, last))),
                   index' = index + 1
            PROVE  chunks' \in Seq(Chunk) /\ index' \in Nat
        <5>1. first \in DOMAIN units[unit].text /\ last \in DOMAIN units[unit].text
          BY <3>2
        <5>2. NewChunk(SubSeq(units[unit].text, first, last)) \in Chunk
          BY <3>1, <5>1, PieceIsChunk
        <5>3. chunks' = Append(chunks, NewChunk(SubSeq(units[unit].text, first, last)))
          BY <4>2
        <5>4. chunks' \in Seq(Chunk)
          BY <5>2, <5>3, AppendProperties
        <5>5. index' \in Nat
          BY <4>2
        <5> QED BY <5>4, <5>5
      <4> QED BY <2>7, <4>1, <4>2 DEF NextPiece
    <3>5. UNCHANGED <<type, object, stage, loading, unit, storing>>
      BY <2>7 DEF NextPiece
    <3> QED BY <3>3, <3>4, <3>5
  <2>8. CASE NextUnit
    <3>1. unit \in Nat /\ unit <= Len(units) /\ Len(units) \in Nat
      BY <2>8, LenProperties DEF NextUnit
    <3>2. unit' = unit + 1 /\ at' = 0
      BY <2>8, Zenon DEF NextUnit
    <3>3. UNCHANGED <<type, object, stage, loading, index, chunks, storing>>
      BY <2>8, Zenon DEF NextUnit
    <3>4. unit' \in Nat \ {0} /\ unit' <= Len(units') + 1 /\ at' \in Nat
      BY <3>1, <3>2, <3>3
    <3> QED BY <3>3, <3>4
  <2>9. CASE EndChunks
    BY <2>9 DEF EndChunks, Stage
  <2>10. CASE Embed
    <3>1. vectors' \in Seq(Text)
      <4>1. CASE UNCHANGED vectors \/ vectors' = Contents
        BY <4>1, ContentsAre
      <4>2. ASSUME NEW k \in DOMAIN chunks,
                   vectors' \in {SubSeq(Contents, 1, k - 1), Append(Contents, Contents[k])}
            PROVE  vectors' \in Seq(Text)
        <5>1. k \in 1..Len(chunks) /\ Len(chunks) \in Nat
          BY LenProperties
        <5>2. Contents \in Seq(Text) /\ Len(Contents) = Len(chunks) /\ Contents[k] \in Text
          BY <5>1, ContentsAre, ElementOfSeq
        <5>3. \A n \in 1..(k - 1) : Contents[n] \in Text
          BY <5>1, <5>2, ElementOfSeq
        <5>4. SubSeq(Contents, 1, k - 1) \in Seq(Text)
          BY <5>1, <5>2, <5>3, SubSeqProperties
        <5>5. Append(Contents, Contents[k]) \in Seq(Text)
          BY <5>2, AppendProperties
        <5> QED BY <4>2, <5>4, <5>5
      <4> QED BY <2>10, <4>1, <4>2 DEF Embed
    <3> QED BY <2>10, <3>1 DEF Embed, Stage
  <2>11. CASE StoreRow
    <3>1. Zipped <= Len(chunks) /\ Len(rows) \in Nat /\ Zipped \in Nat
      BY LenProperties DEF Zipped
    <3>2. Len(rows) + 1 \in DOMAIN chunks
      BY <2>11, <3>1, LenProperties DEF StoreRow
    <3>3. rows' \in Seq(Chunk) /\ vectorIds' \in Seq(Nat)
      BY <2>11, <3>1, <3>2, AppendProperties DEF StoreRow
    <3> QED BY <2>11, <3>3 DEF StoreRow
  <2>12. CASE AddVectors
    BY <2>12 DEF AddVectors, Stage
  <2>13. CASE Ready
    BY <2>13 DEF Ready, Stage
  <2>14. CASE Fail
    BY <2>14 DEF Fail, Stage, Nothing
  <2>15. CASE UNCHANGED vars
    BY <2>15 DEF vars
  <2> QED BY <2>1, <2>2, <2>3, <2>4, <2>5, <2>6, <2>7, <2>8, <2>9, <2>10, <2>11,
             <2>12, <2>13, <2>14, <2>15 DEF Next
<1> QED BY <1>1, <1>2, PTL DEF Spec
-----------------------------------------------------------------------------
(* Chunks are cited with their page and heading *)

\* h is the last heading before line p, or none.
Under(h, p) ==
  /\ h \in Preceding(p, "heading") \cup {NoHeading}
  /\ \A q \in Preceding(p, "heading") : q <= h

\* A page and a heading that line p may be cited with.
Placed(pg, h, p) ==
  /\ type = "pdf" => pg = Cardinality(Preceding(p, "break"))
  /\ type = "docx" => Under(h, p)

\* The loader has counted the page breaks it has read, and holds lines after
\* the last of them; the same of headings, of which it holds the last.
LoaderKnows ==
  /\ type = "pdf" =>
       /\ page = Cardinality(Preceding(pos, "break"))
       /\ \A i \in DOMAIN lines : Preceding(lines[i], "break") = Preceding(pos, "break")
  /\ type = "docx" =>
       /\ Under(heading, pos)
       /\ \A i \in DOMAIN lines : heading < lines[i] /\ lines[i] < pos

UnitsKnow ==
  \A u \in DOMAIN units : \A i \in DOMAIN units[u].text :
    Placed(units[u].page, units[u].heading, units[u].text[i])

ChunksKnow ==
  \A k \in DOMAIN chunks : \A i \in DOMAIN chunks[k].content :
    Placed(chunks[k].page, chunks[k].heading, chunks[k].content[i])

PlacesKnown == LoaderKnows /\ UnitsKnow /\ ChunksKnow

\* Lines read after the last heading are under it, lines after the last page
\* break are on the page counted.
LEMMA CollectedLinesArePlaced ==
  ASSUME TypeOK, LoaderKnows, NEW i \in DOMAIN lines
  PROVE  /\ type = "docx" => Under(heading, lines[i])
         /\ type = "pdf" => page = Cardinality(Preceding(lines[i], "break"))
<1>1. lines \in [1..Len(lines) -> 1..MaxLines]
  BY LenProperties DEF TypeOK, Text
<1>2. lines[i] \in Nat /\ pos \in Nat /\ heading \in Nat
  BY <1>1, SizesAssumption DEF TypeOK
<1>3. type = "docx" => Under(heading, lines[i])
  BY <1>2 DEF LoaderKnows, Under, Preceding, NoHeading
<1> QED BY <1>3 DEF LoaderKnows

\* A unit appended with all its lines in place keeps what the units know.
LEMMA AppendedUnitKnows ==
  ASSUME TypeOK, UnitsKnow, NEW added \in Unit,
         \A i \in DOMAIN added.text : Placed(added.page, added.heading, added.text[i]),
         NEW u \in DOMAIN Append(units, added), NEW i \in DOMAIN Append(units, added)[u].text
  PROVE  Placed(Append(units, added)[u].page, Append(units, added)[u].heading,
                Append(units, added)[u].text[i])
<1> DEFINE grown == Append(units, added)
<1>1. units \in Seq(Unit) /\ Len(units) \in Nat /\ DOMAIN units = 1..Len(units)
  BY LenProperties DEF TypeOK
<1>2. /\ grown \in Seq(Unit) /\ Len(grown) = Len(units) + 1
      /\ \A v \in 1..Len(units) : grown[v] = units[v]
      /\ grown[Len(units) + 1] = added
  BY <1>1, AppendProperties
<1>3. DOMAIN grown = 1..(Len(units) + 1)
  BY <1>2, LenProperties
<1>4. CASE u \in 1..Len(units)
  BY <1>1, <1>2, <1>4 DEF UnitsKnow
<1>5. CASE u = Len(units) + 1
  BY <1>2, <1>5
<1> QED BY <1>1, <1>3, <1>4, <1>5

\* So do the units that the loaders append.
LEMMA LoadedUnitsKnow ==
  ASSUME TypeOK, LoaderKnows, UnitsKnow,
         NEW grown,
         \/ type = "pdf" /\ grown = PageUnit
         \/ type = "docx" /\ grown = SectionUnit
         \/ type \notin {"pdf", "docx"} /\ grown = TextUnit,
         NEW u \in DOMAIN grown, NEW i \in DOMAIN grown[u].text
  PROVE  Placed(grown[u].page, grown[u].heading, grown[u].text[i])
<1>1. /\ [text |-> lines, page |-> page, heading |-> NoHeading] \in Unit
      /\ [text |-> lines, page |-> NoPage, heading |-> heading] \in Unit
      /\ [text |-> lines, page |-> NoPage, heading |-> NoHeading] \in Unit
  BY SizesAssumption DEF TypeOK, Unit, NoPage, NoHeading
<1>2. CASE type = "pdf" /\ grown = PageUnit
  BY <1>1, <1>2, CollectedLinesArePlaced, AppendedUnitKnows DEF PageUnit, Placed
<1>3. CASE type = "docx" /\ grown = SectionUnit
  <2>1. CASE grown = units
    BY <2>1 DEF UnitsKnow
  <2>2. CASE grown = Append(units, [text |-> lines, page |-> NoPage, heading |-> heading])
    BY <1>1, <1>3, <2>2, CollectedLinesArePlaced, AppendedUnitKnows DEF Placed
  <2> QED BY <1>3, <2>1, <2>2 DEF SectionUnit
<1>4. CASE type \notin {"pdf", "docx"} /\ grown = TextUnit
  BY <1>1, <1>4, AppendedUnitKnows DEF TextUnit, Placed
<1> QED BY <1>2, <1>3, <1>4

\* A chunk cut out of a unit is placed where the unit is.
LEMMA CutKnows ==
  ASSUME TypeOK, UnitsKnow, unit \in DOMAIN units,
         NEW first \in DOMAIN units[unit].text, NEW last \in DOMAIN units[unit].text,
         NEW i \in DOMAIN SubSeq(units[unit].text, first, last)
  PROVE  Placed(units[unit].page, units[unit].heading,
                SubSeq(units[unit].text, first, last)[i])
<1>1. units[unit] \in Unit
  BY DEF TypeOK
<1>2. units[unit].text \in Seq(1..MaxLines)
  BY <1>1 DEF Unit, Text
<1>3. /\ first \in 1..Len(units[unit].text) /\ last \in 1..Len(units[unit].text)
      /\ Len(units[unit].text) \in Nat /\ DOMAIN units[unit].text = 1..Len(units[unit].text)
  BY <1>2, LenProperties
<1>4. /\ first + i - 1 \in first..last
      /\ SubSeq(units[unit].text, first, last)[i] = units[unit].text[first + i - 1]
  BY <1>2, CutIsText
<1>5. first + i - 1 \in DOMAIN units[unit].text
  BY <1>3, <1>4
<1> QED BY <1>4, <1>5 DEF UnitsKnow

\* Reading a line keeps what the PDF loader knows.
LEMMA PdfLoaderKnows ==
  ASSUME TypeOK, LoaderKnows, ReadPdf
  PROVE  LoaderKnows'
<1> DEFINE Breaks(p) == {q \in 1..(p - 1) : object[q] = "break"}
<1>1. /\ type = "pdf" /\ pos \in Nat \ {0} /\ pos' = pos + 1 /\ UNCHANGED <<type, object>>
      /\ lines \in Seq(Nat)
  BY SizesAssumption, SeqMonotonic DEF ReadPdf, Loading, TypeOK, Text
<1>2. page = Cardinality(Breaks(pos)) /\ \A i \in DOMAIN lines : Breaks(lines[i]) = Breaks(pos)
  BY <1>1 DEF LoaderKnows, Preceding
<1>3. SUFFICES page' = Cardinality(Breaks(pos + 1))
               /\ \A i \in DOMAIN lines' : Breaks(lines'[i]) = Breaks(pos + 1)
  BY <1>1 DEF LoaderKnows, Preceding
<1>4. CASE object[pos] = "break" /\ page' = page + 1 /\ lines' = <<>>
  <2>1. Breaks(pos + 1) = Breaks(pos) \cup {pos} /\ pos \notin Breaks(pos)
    BY <1>1, <1>4
  <2>2. IsFiniteSet(Breaks(pos))
    <3>1. IsFiniteSet(1..(pos - 1)) /\ Breaks(pos) \subseteq 1..(pos - 1)
      BY <1>1, FS_Interval
    <3> HIDE DEF Breaks
    <3> QED BY <3>1, FS_Subset
  <2>3. Cardinality(Breaks(pos + 1)) = page + 1
    <3> HIDE DEF Breaks
    <3> QED BY <1>2, <2>1, <2>2, FS_AddElement
  <2> QED BY <1>4, <2>3
<1>5. CASE object[pos] # "break" /\ page' = page /\ lines' = Append(lines, pos)
  <2>1. Breaks(pos + 1) = Breaks(pos)
    BY <1>1, <1>5
  <2>2. /\ DOMAIN lines' = 1..(Len(lines) + 1) /\ lines'[Len(lines) + 1] = pos
        /\ Len(lines) \in Nat /\ DOMAIN lines = 1..Len(lines)
        /\ \A i \in 1..Len(lines) : lines'[i] = lines[i]
    BY <1>1, <1>5, AppendProperties, LenProperties
  <2> HIDE DEF Breaks
  <2> QED BY <1>2, <1>5, <2>1, <2>2
<1> HIDE DEF Breaks
<1> QED BY <1>4, <1>5 DEF ReadPdf

\* So does reading a paragraph.
LEMMA DocxLoaderKnows ==
  ASSUME TypeOK, LoaderKnows, ReadDocx
  PROVE  LoaderKnows'
<1>1. /\ type = "docx" /\ pos \in Nat \ {0} /\ heading \in Nat
      /\ pos' = pos + 1 /\ UNCHANGED <<type, object>>
      /\ lines \in Seq(Nat)
  <2>1. type = "docx" /\ pos' = pos + 1 /\ UNCHANGED <<type, object>>
    BY DEF ReadDocx, Loading
  <2>2. object \in Seq(Line) /\ pos \in 1..(Len(object) + 1) /\ heading \in 0..Len(object)
    BY DEF TypeOK
  <2>3. Len(object) \in Nat
    BY <2>2, LenProperties
  <2>4. lines \in Seq(Nat)
    BY SizesAssumption, SeqMonotonic DEF TypeOK, Text
  <2> QED BY <2>1, <2>2, <2>3, <2>4
<1>2. lines \in [1..Len(lines) -> Nat] /\ Len(lines) \in Nat
  BY <1>1, LenProperties
<1>3. CASE object[pos] = "heading" /\ heading' = pos /\ lines' = <<>>
  BY <1>1, <1>3 DEF LoaderKnows, Under, Preceding
<1>4. CASE object[pos] # "heading" /\ UNCHANGED <<heading, lines>>
  BY <1>1, <1>2, <1>4 DEF LoaderKnows, Under, Preceding
<1>5. CASE object[pos] # "heading" /\ heading' = heading /\ lines' = Append(lines, pos)
  <2>1. /\ DOMAIN lines' = 1..(Len(lines) + 1) /\ lines'[Len(lines) + 1] = pos
        /\ \A i \in 1..Len(lines) : lines'[i] = lines[i]
    BY <1>1, <1>5, AppendProperties, LenProperties
  <2>2. heading < pos
    BY <1>1 DEF LoaderKnows, Under, Preceding, NoHeading
  <2> QED BY <1>1, <1>2, <1>5, <2>1, <2>2 DEF LoaderKnows, Under, Preceding
<1> QED BY <1>3, <1>4, <1>5 DEF ReadDocx, Blank

\* Loader, units and chunks know their places, in every state.
LEMMA PlacesAreKnown == Spec => []PlacesKnown
<1>1. Init => PlacesKnown
  <2>1. {q \in 1..0 : object[q] = "break"} = {} /\ Cardinality({}) = 0
    BY FS_EmptySet
  <2> QED BY <2>1 DEF Init, PlacesKnown, LoaderKnows, UnitsKnow, ChunksKnow, Under, Preceding,
                      NoHeading
<1>2. TypeOK /\ PlacesKnown /\ [Next]_vars => PlacesKnown'
  <2> SUFFICES ASSUME TypeOK, PlacesKnown, [Next]_vars, UNCHANGED <<type, object>>
               PROVE  LoaderKnows' /\ UnitsKnow' /\ ChunksKnow'
    BY DEF PlacesKnown, Next, vars, Fetch, ReadPdf, ReadDocx, ReadText, EndLoad, Unreadable,
           NextPiece, NextUnit, EndChunks, Embed, StoreRow, AddVectors, Ready, Fail
  <2> USE DEF PlacesKnown
  <2>1. ASSUME UNCHANGED <<page, pos, heading, lines>> PROVE LoaderKnows'
    BY <2>1 DEF LoaderKnows, Under, Preceding
  <2>2. ASSUME UNCHANGED units PROVE UnitsKnow'
    BY <2>2 DEF UnitsKnow, Placed, Under, Preceding
  <2>3. ASSUME UNCHANGED chunks PROVE ChunksKnow'
    BY <2>3 DEF ChunksKnow, Placed, Under, Preceding
  <2>4. ASSUME \/ type = "pdf" /\ units' = PageUnit
               \/ type = "docx" /\ units' = SectionUnit
               \/ type \notin {"pdf", "docx"} /\ units' = TextUnit
        PROVE  UnitsKnow'
    <3>1. \A u \in DOMAIN units' : \A i \in DOMAIN units'[u].text :
            Placed(units'[u].page, units'[u].heading, units'[u].text[i])
      BY <2>4, LoadedUnitsKnow
    <3> QED BY <3>1 DEF UnitsKnow, Placed, Under, Preceding
  <2>5. CASE ReadPdf
    BY <2>2, <2>3, <2>4, <2>5, PdfLoaderKnows DEF ReadPdf, Loading, chunking
  <2>6. CASE ReadDocx
    BY <2>2, <2>3, <2>4, <2>6, DocxLoaderKnows DEF ReadDocx, Loading, chunking
  <2>7. CASE ReadText
    BY <2>2, <2>3, <2>7 DEF ReadText, Loading, LoaderKnows, chunking
  <2>8. CASE EndLoad
    <3>1. /\ lines' = <<>> /\ UNCHANGED <<pos, page, heading, chunks>>
          /\ \/ type = "pdf" /\ units' = PageUnit
             \/ type = "docx" /\ units' = SectionUnit
             \/ type \notin {"pdf", "docx"} /\ units' = TextUnit
      BY <2>8 DEF EndLoad, chunking
    <3>2. LoaderKnows'
      BY <3>1 DEF LoaderKnows, Under, Preceding
    <3> QED BY <2>3, <2>4, <3>1, <3>2
  <2>9. CASE NextPiece
    <3>1. unit \in DOMAIN units /\ UNCHANGED loading
      BY <2>9, LenProperties DEF NextPiece, TypeOK
    <3>2. units[unit] \in Unit
      BY <3>1 DEF TypeOK
    <3>3. units[unit].text \in Seq(1..MaxLines)
      BY <3>2 DEF Unit, Text
    <3>4. DOMAIN units[unit].text = 1..Len(units[unit].text) /\ Len(units[unit].text) \in Nat
      BY <3>3, LenProperties
    <3>5. ASSUME NEW from \in DOMAIN units[unit].text, NEW to \in DOMAIN units[unit].text,
                 NEW first \in from..to, NEW last \in from..to,
                 chunks' = Append(chunks, NewChunk(SubSeq(units[unit].text, first, last)))
          PROVE  ChunksKnow'
      <4>1. first \in DOMAIN units[unit].text /\ last \in DOMAIN units[unit].text
        BY <3>4
      <4>2. NewChunk(SubSeq(units[unit].text, first, last)) \in Chunk
        BY <3>1, <4>1, PieceIsChunk
      <4>3. /\ DOMAIN chunks' = 1..(Len(chunks) + 1) /\ DOMAIN chunks = 1..Len(chunks)
            /\ Len(chunks) \in Nat /\ \A k \in 1..Len(chunks) : chunks'[k] = chunks[k]
            /\ chunks'[Len(chunks) + 1] = NewChunk(SubSeq(units[unit].text, first, last))
        BY <3>5, <4>2, AppendProperties, LenProperties DEF TypeOK
      <4>4. \A i \in DOMAIN SubSeq(units[unit].text, first, last) :
              Placed(units[unit].page, units[unit].heading,
                     SubSeq(units[unit].text, first, last)[i])
        BY <3>1, <4>1, CutKnows
      <4>5. /\ chunks'[Len(chunks) + 1].page = units[unit].page
            /\ chunks'[Len(chunks) + 1].heading = units[unit].heading
            /\ chunks'[Len(chunks) + 1].content = SubSeq(units[unit].text, first, last)
        BY <4>3 DEF NewChunk
      <4>6. ASSUME NEW k \in DOMAIN chunks', NEW i \in DOMAIN chunks'[k].content
            PROVE  Placed(chunks'[k].page, chunks'[k].heading, chunks'[k].content[i])
        <5>1. CASE k \in 1..Len(chunks)
          BY <4>3, <4>6, <5>1 DEF ChunksKnow
        <5>2. CASE k = Len(chunks) + 1
          BY <4>4, <4>5, <4>6, <5>2
        <5> QED BY <4>3, <4>6, <5>1, <5>2
      <4> QED BY <4>6 DEF ChunksKnow, Placed, Under, Preceding
    <3> QED BY <2>1, <2>2, <2>3, <2>9, <3>1, <3>5 DEF NextPiece, loading
  <2>10. CASE UNCHANGED <<loading, chunks>>
    BY <2>1, <2>2, <2>3, <2>10 DEF loading
  <2> QED BY <2>5, <2>6, <2>7, <2>8, <2>9, <2>10
          DEF Next, vars, Fetch, Unreadable, NextUnit, EndChunks, Embed, StoreRow, AddVectors,
              Ready, Fail, chunking
<1> QED BY <1>1, <1>2, TypeCorrect, PTL DEF Spec

\* PagesAreTruthful: every line of a PDF chunk is on the page the chunk is
\* cited with.
THEOREM PagesTruthful == Spec => []PagesAreTruthful
<1>1. PlacesKnown => PagesAreTruthful
  BY DEF PlacesKnown, ChunksKnow, Placed, PagesAreTruthful
<1> QED BY <1>1, PlacesAreKnown, PTL

\* HeadingsAreTruthful: every line of a DOCX chunk is under the heading the
\* chunk is cited with.
THEOREM HeadingsTruthful == Spec => []HeadingsAreTruthful
<1>1. PlacesKnown => HeadingsAreTruthful
  BY DEF PlacesKnown, ChunksKnow, Placed, HeadingsAreTruthful, Under
<1> QED BY <1>1, PlacesAreKnown, PTL
-----------------------------------------------------------------------------
(* Rows, vectors and chunks stay in step *)

\* Rows and vector ids are written one pair per chunk, in the order of the
\* chunks; the vectors are those of the chunks' texts, in the same order; the
\* store is given both lists when all rows are written.
RowsMatch ==
  /\ Len(rows) = Len(vectorIds) /\ Len(rows) <= Len(chunks)
  /\ \A k \in 1..Len(rows) : rows[k] = chunks[k] /\ vectorIds[k] = k
  /\ stage \in {"fetch", "load", "chunk", "embed"} => Len(rows) = 0
  /\ stage \in {"rows", "add", "ready"} => vectors = Contents
  /\ stage \in {"add", "ready"} =>
       Len(rows) = Len(chunks) /\ stored = [vectors |-> vectors, ids |-> vectorIds]
  /\ stage \notin {"add", "ready"} => stored = Nothing

\* Steps before the rows: there are none yet, and nothing is stored.
LEMMA RowsNotBegun ==
  ASSUME RowsMatch, Len(rows) = 0, stage \notin {"add", "ready"}, Len(chunks') \in Nat,
         UNCHANGED <<rows, vectorIds, stored>>, stage' \notin {"add", "ready"},
         stage' = "rows" => vectors' = Contents'
  PROVE  RowsMatch'
<1>1. Len(rows') = 0 /\ Len(vectorIds') = 0 /\ stored' = Nothing
  BY DEF RowsMatch
<1> QED BY <1>1 DEF RowsMatch, Nothing

\* RowsMatch is kept by every step, where the embedder returns a vector per text.
LEMMA RowsStayInStep ==
  ASSUME OnePerText
  PROVE  Spec => []RowsMatch
<1>1. Init => RowsMatch
  BY DEF Init, RowsMatch
<1>2. TypeOK /\ TypeOK' /\ RowsMatch /\ [Next]_vars => RowsMatch'
  <2> SUFFICES ASSUME TypeOK, TypeOK', RowsMatch, [Next]_vars
               PROVE  RowsMatch'
    OBVIOUS
  <2>1. /\ rows \in Seq(Chunk) /\ chunks \in Seq(Chunk) /\ vectorIds \in Seq(Nat)
        /\ Len(rows) \in Nat /\ Len(chunks) \in Nat /\ Len(vectorIds) \in Nat
        /\ DOMAIN chunks = 1..Len(chunks) /\ Len(chunks') \in Nat
    BY LenProperties DEF TypeOK
  <2>2. UNCHANGED chunks => Contents' = Contents
    BY DEF Contents
  <2>3. CASE NextPiece
    <3>1. stage = "chunk" /\ UNCHANGED <<stage, storing>>
      BY <2>3 DEF NextPiece
    <3>2. Len(rows) = 0
      BY <3>1 DEF RowsMatch
    <3> QED BY <2>1, <3>1, <3>2, RowsNotBegun DEF storing
  <2>4. CASE Fetch \/ ReadPdf \/ ReadDocx \/ ReadText \/ EndLoad \/ Unreadable \/ NextUnit
             \/ EndChunks
    <3>1. /\ stage \in {"fetch", "load", "chunk"} /\ stage' \notin {"rows", "add", "ready"}
          /\ UNCHANGED storing
      BY <2>4 DEF Fetch, ReadPdf, ReadDocx, ReadText, Loading, EndLoad, Unreadable, NextUnit,
                  EndChunks
    <3>2. Len(rows) = 0
      BY <3>1 DEF RowsMatch
    <3> QED BY <2>1, <3>1, <3>2, RowsNotBegun DEF storing
  <2>5. CASE Embed
    <3>1. /\ stage = "embed" /\ UNCHANGED <<chunks, rows, vectorIds, stored>>
          /\ \/ stage' = "rows" /\ vectors' = Contents
             \/ stage' = "failed"
      BY <2>5 DEF Embed, chunking
    <3>2. Len(rows) = 0
      BY <3>1 DEF RowsMatch
    <3> QED BY <2>1, <2>2, <3>1, <3>2, RowsNotBegun
  <2>6. CASE StoreRow
    <3>1. vectors = Contents /\ stored = Nothing
      BY <2>6 DEF RowsMatch, StoreRow
    <3>2. Zipped = Len(chunks)
      BY <2>1, <3>1, ContentsAre DEF Zipped
    <3>3. /\ stage = "rows" /\ UNCHANGED <<stage, chunks, vectors, stored>>
          /\ Len(rows) + 1 \in 1..Len(chunks)
          /\ rows' = Append(rows, chunks[Len(rows) + 1])
          /\ vectorIds' = Append(vectorIds, Len(rows) + 1)
      BY <2>1, <2>6, <3>2 DEF StoreRow, chunking
    <3>4. /\ Len(rows') = Len(rows) + 1 /\ rows'[Len(rows) + 1] = chunks[Len(rows) + 1]
          /\ \A k \in 1..Len(rows) : rows'[k] = rows[k]
      BY <2>1, <3>3, AppendProperties
    <3>5. /\ Len(vectorIds') = Len(vectorIds) + 1
          /\ vectorIds'[Len(vectorIds) + 1] = Len(rows) + 1
          /\ \A k \in 1..Len(vectorIds) : vectorIds'[k] = vectorIds[k]
      BY <2>1, <3>3, AppendProperties
    <3>6. /\ Len(rows) = Len(vectorIds)
          /\ \A k \in 1..Len(rows) : rows[k] = chunks[k] /\ vectorIds[k] = k
      BY DEF RowsMatch
    <3>7. \A k \in 1..Len(rows') : rows'[k] = chunks'[k] /\ vectorIds'[k] = k
      BY <2>1, <3>3, <3>4, <3>5, <3>6
    <3>8. Len(rows') = Len(vectorIds') /\ Len(rows') <= Len(chunks')
      BY <2>1, <3>3, <3>4, <3>5, <3>6
    <3>9. vectors' = Contents' /\ stored' = Nothing
      BY <2>2, <3>1, <3>3
    <3> QED BY <3>3, <3>7, <3>8, <3>9 DEF RowsMatch
  <2>7. CASE AddVectors
    <3>1. vectors = Contents /\ stored = Nothing /\ Len(Contents) = Len(chunks)
      BY <2>7, ContentsAre DEF RowsMatch, AddVectors
    <3>2. Len(rows) = Len(chunks)
      BY <2>1, <2>7, <3>1 DEF Zipped, AddVectors
    <3>3. vectors = <<>> => vectorIds = <<>>
      BY <2>1, <3>1, <3>2, EmptySeq DEF RowsMatch
    <3>4. stored' = [vectors |-> vectors, ids |-> vectorIds]
      BY <2>7, <3>1, <3>3 DEF AddVectors, Nothing
    <3>5. stage' = "add" /\ UNCHANGED <<chunks, vectors, rows, vectorIds>>
      BY <2>7 DEF AddVectors, chunking
    <3> QED BY <2>2, <3>1, <3>2, <3>4, <3>5 DEF RowsMatch
  <2>8. CASE Ready
    <3>1. stage = "add" /\ stage' = "ready" /\ UNCHANGED <<chunks, storing>>
      BY <2>8 DEF Ready, chunking
    <3> QED BY <2>1, <2>2, <3>1 DEF RowsMatch, storing
  <2>9. CASE Fail
    <3>1. stage' = "failed" /\ rows' = <<>> /\ vectorIds' = <<>> /\ stored' = Nothing
          /\ UNCHANGED chunks
      BY <2>9 DEF Fail, chunking
    <3>2. Len(rows') = 0 /\ Len(vectorIds') = 0
      BY <3>1
    <3> QED BY <2>1, <3>1, <3>2 DEF RowsMatch
  <2>10. CASE UNCHANGED vars
    BY <2>1, <2>2, <2>10 DEF vars, RowsMatch, storing, chunking
  <2> QED BY <2>3, <2>4, <2>5, <2>6, <2>7, <2>8, <2>9, <2>10 DEF Next
<1> QED BY <1>1, <1>2, TypeCorrect, PTL DEF Spec

\* VectorsNameTheirRows: the lists of chunks, vectors and vector ids stay in
\* step from the embedder to the store, for any object and any way to split
\* it, where the embedder returns a vector per text.
THEOREM VectorsNamed ==
  ASSUME OnePerText
  PROVE  Spec => []VectorsNameTheirRows
<1>1. TypeOK /\ RowsMatch => VectorsNameTheirRows
  <2> SUFFICES ASSUME TypeOK, RowsMatch PROVE VectorsNameTheirRows
    OBVIOUS
  <2>1. /\ Len(Contents) = Len(chunks) /\ Len(chunks) \in Nat
        /\ \A k \in 1..Len(chunks) : Contents[k] = chunks[k].content
    BY ContentsAre, LenProperties DEF TypeOK
  <2>2. /\ rows \in Seq(Chunk) /\ chunks \in Seq(Chunk) /\ vectorIds \in Seq(Nat)
        /\ DOMAIN rows = 1..Len(rows) /\ DOMAIN vectorIds = 1..Len(vectorIds)
    BY LenProperties DEF TypeOK
  <2>3. CASE stage \in {"add", "ready"}
    <3>1. /\ stored.ids = vectorIds /\ stored.vectors = Contents
          /\ Len(rows) = Len(chunks) /\ Len(vectorIds) = Len(rows)
          /\ \A k \in 1..Len(rows) : rows[k] = chunks[k] /\ vectorIds[k] = k
      BY <2>3 DEF RowsMatch
    <3>2. rows = chunks
      BY <2>2, <3>1, SeqEqual
    <3> QED BY <2>1, <2>2, <3>1, <3>2 DEF VectorsNameTheirRows
  <2>4. CASE stage \notin {"add", "ready"}
    <3>1. stored.ids = <<>> /\ stored.vectors = <<>> /\ DOMAIN <<>> = {}
      BY <2>4 DEF RowsMatch, Nothing
    <3> QED BY <2>4, <3>1 DEF VectorsNameTheirRows
  <2> QED BY <2>3, <2>4
<1> QED BY <1>1, TypeCorrect, RowsStayInStep, PTL
-----------------------------------------------------------------------------
(* The chunks follow the text, and have all of it *)

\* Where a line of text is looked for.
InLines(p) == \E i \in DOMAIN lines : lines[i] = p
InUnits(p) == \E u \in DOMAIN units : \E i \in DOMAIN units[u].text : units[u].text[i] = p
InChunks(p) == \E k \in DOMAIN chunks : \E i \in DOMAIN chunks[k].content : chunks[k].content[i] = p

Ascending(text) == \A i, j \in DOMAIN text : i < j => text[i] < text[j]

\* The lines of one text all come before those of another.
Precedes(text, other) == \A i \in DOMAIN text, j \in DOMAIN other : text[i] < other[j]

\* Nothing is cut before everything is loaded.
Unstarted == stage \in {"fetch", "load"} => unit = 1 /\ at = 0 /\ chunks = <<>> /\ index = 0

\* The loaders keep the order of the object, within a unit and between units.
TextsInOrder ==
  /\ Ascending(lines) /\ \A i \in DOMAIN lines : lines[i] < pos
  /\ \A u \in DOMAIN units :
       /\ Ascending(units[u].text) /\ \A i \in DOMAIN units[u].text : units[u].text[i] < pos
       /\ Precedes(units[u].text, lines)
       /\ \A v \in DOMAIN units : u < v => Precedes(units[u].text, units[v].text)

\* Every line the loaders are past is in a unit or about to be.
NothingUnread ==
  /\ \A p \in 1..(pos - 1) : Wanted(p) => InUnits(p) \/ InLines(p)
  /\ Chunked \/ stage = "chunk" => pos > Len(object) /\ lines = <<>>

LastLine(c) == c.content[Len(c.content)]

\* The last chunk ends in the unit being split or an earlier one, and not
\* after what is covered of it.
EndsBehind(c) ==
  \E u \in 1..unit : \E p \in DOMAIN units[u].text :
    /\ u <= Len(units)
    /\ LastLine(c) = units[u].text[p] /\ ~Blank(units[u].text[p])
    /\ u = unit => p <= at

Numbered ==
  /\ index = Len(chunks)
  /\ chunks # <<>> => EndsBehind(chunks[Len(chunks)])
  /\ IndicesFollowTheText

\* What is covered by the pieces so far is in the chunks, if it is not blank.
Covered ==
  /\ \A u \in DOMAIN units : \A i \in DOMAIN units[u].text :
       ~Blank(units[u].text[i]) /\ (u < unit \/ (u = unit /\ i <= at)) =>
         InChunks(units[u].text[i])
  /\ Chunked => unit > Len(units)

\* The types, as the proofs below need them.
LEMMA Typed ==
  ASSUME TypeOK
  PROVE  /\ pos \in Nat \ {0} /\ DOMAIN object = 1..Len(object) /\ Len(object) \in Nat
         /\ pos <= Len(object) + 1
         /\ unit \in Nat \ {0} /\ at \in Nat /\ index \in Nat
         /\ lines \in Seq(Nat) /\ DOMAIN lines = 1..Len(lines) /\ Len(lines) \in Nat
         /\ \A i \in DOMAIN lines : lines[i] \in Nat
         /\ units \in Seq(Unit) /\ DOMAIN units = 1..Len(units) /\ Len(units) \in Nat
         /\ \A u \in DOMAIN units :
              LET text == units[u].text
              IN  /\ text \in Seq(Nat) /\ DOMAIN text = 1..Len(text) /\ Len(text) \in Nat
                  /\ \A i \in DOMAIN text : text[i] \in Nat
         /\ chunks \in Seq(Chunk) /\ DOMAIN chunks = 1..Len(chunks) /\ Len(chunks) \in Nat
         /\ \A k \in DOMAIN chunks :
              LET text == chunks[k].content
              IN  /\ text \in Seq(Nat) /\ DOMAIN text = 1..Len(text) /\ Len(text) \in Nat
                  /\ \A i \in DOMAIN text : text[i] \in Nat
<1>1. \A text \in Text : /\ text \in Seq(Nat) /\ DOMAIN text = 1..Len(text) /\ Len(text) \in Nat
                         /\ \A i \in DOMAIN text : text[i] \in Nat
  <2> SUFFICES ASSUME NEW text \in Text
               PROVE  /\ text \in Seq(Nat) /\ DOMAIN text = 1..Len(text) /\ Len(text) \in Nat
                      /\ \A i \in DOMAIN text : text[i] \in Nat
    OBVIOUS
  <2>1. text \in Seq(Nat)
    BY SizesAssumption, SeqMonotonic DEF Text
  <2>2. QED
    BY <2>1, LenProperties
<1>2. \A u \in DOMAIN units : units[u].text \in Text
  <2>1. \A u \in DOMAIN units : units[u] \in Unit
    BY DEF TypeOK
  <2>2. QED
    BY <2>1 DEF Unit
<1>3. \A k \in DOMAIN chunks : chunks[k].content \in Text
  <2>1. \A k \in DOMAIN chunks : chunks[k] \in Chunk
    BY DEF TypeOK
  <2>2. QED
    BY <2>1 DEF Chunk
<1>4. /\ lines \in Text /\ units \in Seq(Unit) /\ chunks \in Seq(Chunk) /\ object \in Seq(Line)
      /\ pos \in 1..(Len(object) + 1)
      /\ unit \in Nat \ {0} /\ at \in Nat /\ index \in Nat
  BY DEF TypeOK
<1>5. /\ DOMAIN units = 1..Len(units) /\ Len(units) \in Nat
      /\ DOMAIN chunks = 1..Len(chunks) /\ Len(chunks) \in Nat
      /\ DOMAIN object = 1..Len(object) /\ Len(object) \in Nat
  BY <1>4, LenProperties
<1>6. QED
  BY <1>1, <1>2, <1>3, <1>4, <1>5

\* A loader appends the lines it holds as a unit, or holds none.
LEMMA UnitAdded ==
  ASSUME TypeOK, NEW grown, grown \in {PageUnit, SectionUnit, TextUnit}
  PROVE  \/ grown = units /\ lines = <<>>
         \/ /\ DOMAIN grown = 1..(Len(units) + 1)
            /\ \A u \in DOMAIN units : u \in DOMAIN grown /\ grown[u] = units[u]
            /\ grown[Len(units) + 1].text = lines
<1>1. units \in Seq(Unit) /\ DOMAIN units = 1..Len(units) /\ Len(units) \in Nat
  BY Typed
<1>2. ASSUME NEW pg, NEW h, grown = Append(units, [text |-> lines, page |-> pg, heading |-> h])
      PROVE  /\ DOMAIN grown = 1..(Len(units) + 1)
             /\ \A u \in DOMAIN units : u \in DOMAIN grown /\ grown[u] = units[u]
             /\ grown[Len(units) + 1].text = lines
  BY <1>1, <1>2
<1>3. QED
  BY <1>2 DEF PageUnit, SectionUnit, TextUnit

\* Reading a line keeps the order, and so does ending a unit.
LEMMA LineKeepsOrder ==
  ASSUME TypeOK, TextsInOrder, pos' = pos + 1, units' = units, lines' = Append(lines, pos)
  PROVE  TextsInOrder'
<1>1. /\ pos \in Nat /\ lines \in Seq(Nat) /\ DOMAIN lines = 1..Len(lines) /\ Len(lines) \in Nat
      /\ \A u \in DOMAIN units : \A i \in DOMAIN units[u].text : units[u].text[i] \in Nat
      /\ \A i \in DOMAIN lines : lines[i] \in Nat
  BY Typed
<1>2. /\ DOMAIN lines' = 1..(Len(lines) + 1) /\ lines'[Len(lines) + 1] = pos
      /\ \A i \in DOMAIN lines : lines'[i] = lines[i]
  BY <1>1
<1>3. \A i \in DOMAIN lines' : \/ (i \in DOMAIN lines /\ lines'[i] = lines[i] /\ lines[i] < pos)
                             \/ (i = Len(lines) + 1 /\ lines'[i] = pos)
  BY <1>1, <1>2 DEF TextsInOrder
<1>4. \A i \in DOMAIN lines' : lines'[i] < pos'
  BY <1>1, <1>3
<1>5. Ascending(lines)'
  <2>1. ASSUME NEW i \in DOMAIN lines', NEW j \in DOMAIN lines', i < j
        PROVE  lines'[i] < lines'[j]
    <3>1. i \in DOMAIN lines /\ lines'[i] = lines[i] /\ lines[i] < pos
      BY <1>1, <1>2, <1>3, <2>1
    <3>2. CASE j \in DOMAIN lines /\ lines'[j] = lines[j]
      BY <2>1, <3>1, <3>2 DEF TextsInOrder, Ascending
    <3>3. CASE lines'[j] = pos
      BY <3>1, <3>3
    <3>4. QED
      BY <1>3, <3>2, <3>3
  <2>2. QED
    BY <2>1 DEF Ascending
<1>6. ASSUME NEW u \in DOMAIN units
      PROVE  /\ Ascending(units[u].text) /\ \A i \in DOMAIN units[u].text : units[u].text[i] < pos'
             /\ \A i \in DOMAIN units[u].text, j \in DOMAIN lines' : units[u].text[i] < lines'[j]
             /\ \A v \in DOMAIN units : u < v => Precedes(units[u].text, units[v].text)
  BY <1>1, <1>3, <1>6 DEF TextsInOrder, Precedes
<1>7. QED
  BY <1>4, <1>5, <1>6 DEF TextsInOrder, Precedes, Ascending

LEMMA UnitKeepsOrder ==
  ASSUME TypeOK, TextsInOrder, units' \in {units, PageUnit, SectionUnit, TextUnit},
         pos' \in Nat, pos <= pos', lines' = <<>>
  PROVE  TextsInOrder'
<1>1. /\ pos \in Nat /\ lines \in Seq(Nat) /\ DOMAIN lines = 1..Len(lines) /\ Len(lines) \in Nat
      /\ DOMAIN units = 1..Len(units) /\ Len(units) \in Nat
      /\ \A u \in DOMAIN units : \A i \in DOMAIN units[u].text : units[u].text[i] \in Nat
      /\ \A i \in DOMAIN lines : lines[i] \in Nat
  BY Typed
<1>2. DOMAIN lines' = {}
  OBVIOUS
<1>3. ASSUME NEW u \in DOMAIN units
      PROVE  /\ Ascending(units[u].text) /\ \A i \in DOMAIN units[u].text : units[u].text[i] < pos'
             /\ \A v \in DOMAIN units : u < v => Precedes(units[u].text, units[v].text)
             /\ Precedes(units[u].text, lines)
  BY <1>1, <1>3 DEF TextsInOrder
<1>4. CASE units' = units
  BY <1>2, <1>3, <1>4 DEF TextsInOrder, Precedes, Ascending
<1>5. CASE /\ DOMAIN units' = 1..(Len(units) + 1)
           /\ \A u \in DOMAIN units : u \in DOMAIN units' /\ units'[u] = units[u]
           /\ units'[Len(units) + 1].text = lines
  <2>1. \A u \in DOMAIN units' : \/ (u \in DOMAIN units /\ units'[u] = units[u])
                                 \/ (u = Len(units) + 1 /\ units'[u].text = lines)
    BY <1>1, <1>5
  <2>2. Ascending(lines) /\ \A i \in DOMAIN lines : lines[i] < pos'
    BY <1>1 DEF TextsInOrder
  <2>3. ASSUME NEW u \in DOMAIN units'
        PROVE  Ascending(units'[u].text) /\ \A i \in DOMAIN units'[u].text : units'[u].text[i] < pos'
    BY <1>3, <2>1, <2>2
  <2>4. ASSUME NEW u \in DOMAIN units', NEW v \in DOMAIN units', u < v
        PROVE  Precedes(units'[u].text, units'[v].text)
    <3>1. u \in DOMAIN units /\ units'[u] = units[u]
      BY <1>1, <1>5, <2>1, <2>4
    <3>2. CASE v \in DOMAIN units /\ units'[v] = units[v]
      BY <1>3, <2>4, <3>1, <3>2
    <3>3. CASE units'[v].text = lines
      BY <1>3, <3>1, <3>3
    <3>4. QED
      BY <2>1, <3>2, <3>3
  <2>5. QED
    BY <1>2, <2>3, <2>4 DEF TextsInOrder, Precedes, Ascending
<1>6. QED
  BY <1>4, <1>5, UnitAdded

\* A loader that ends a unit leaves the lines it held in a unit.
LEMMA UnitsGather ==
  ASSUME TypeOK, units' \in {PageUnit, SectionUnit, TextUnit}
  PROVE  \A p : InLines(p) \/ InUnits(p) => InUnits(p)'
<1>1. DOMAIN units = 1..Len(units) /\ Len(units) \in Nat
  BY Typed
<1>2. \/ units' = units /\ lines = <<>>
      \/ /\ DOMAIN units' = 1..(Len(units) + 1)
         /\ \A u \in DOMAIN units : u \in DOMAIN units' /\ units'[u] = units[u]
         /\ units'[Len(units) + 1].text = lines
  BY UnitAdded
<1>3. ASSUME NEW p, InUnits(p)
      PROVE  InUnits(p)'
  BY <1>2, <1>3 DEF InUnits
<1>4. ASSUME NEW p, InLines(p)
      PROVE  InUnits(p)'
  <2>1. PICK i \in DOMAIN lines : lines[i] = p
    BY <1>4 DEF InLines
  <2>2. lines # <<>>
    BY <2>1
  <2>3. Len(units) + 1 \in DOMAIN units' /\ units'[Len(units) + 1].text = lines
    BY <1>1, <1>2, <2>2
  <2>4. QED
    BY <2>1, <2>3 DEF InUnits
<1>5. QED
  BY <1>3, <1>4

\* A loader that reads a line into its lines loses none of the others.
LEMMA LinesGather ==
  ASSUME TypeOK, units' = units, lines' = Append(lines, pos)
  PROVE  /\ \A p : InLines(p) \/ InUnits(p) => InLines(p)' \/ InUnits(p)'
         /\ \E i \in DOMAIN lines' : lines'[i] = pos
<1>1. lines \in Seq(Nat) /\ DOMAIN lines = 1..Len(lines) /\ Len(lines) \in Nat /\ pos \in Nat
  BY Typed
<1>2. /\ DOMAIN lines' = 1..(Len(lines) + 1) /\ lines'[Len(lines) + 1] = pos
      /\ \A i \in DOMAIN lines : i \in DOMAIN lines' /\ lines'[i] = lines[i]
  BY <1>1
<1>3. Len(lines) + 1 \in DOMAIN lines'
  BY <1>1, <1>2
<1>4. QED
  BY <1>2, <1>3 DEF InLines, InUnits

\* The steps that neither load nor cut.
Aside == \/ Fetch \/ Unreadable \/ EndChunks \/ Embed \/ StoreRow \/ AddVectors \/ Ready \/ Fail
         \/ UNCHANGED vars

LEMMA AsideLeaves ==
  ASSUME Aside
  PROVE  /\ UNCHANGED <<type, object, loading, chunking>>
         /\ stage' \in {"fetch", "load"} => stage \in {"fetch", "load"}
         /\ stage' \in {"chunk", "embed", "rows", "add", "ready"} =>
              stage \in {"chunk", "embed", "rows", "add", "ready"}
         /\ stage' \in {"embed", "rows", "add", "ready"} =>
              stage \in {"embed", "rows", "add", "ready"} \/ unit > Len(units)
BY DEF Aside, Fetch, Unreadable, Loading, EndChunks, Embed, StoreRow, AddVectors, Ready, Fail, vars,
       loading, chunking

LEMMA OrderIsKept == Spec => [](Unstarted /\ TextsInOrder)
<1>1. Init => Unstarted /\ TextsInOrder
  <2>1. DOMAIN <<>> = {}
    OBVIOUS
  <2>2. QED
    BY <2>1 DEF Init, Unstarted, TextsInOrder, Ascending
<1>2. TypeOK /\ Unstarted /\ TextsInOrder /\ [Next]_vars => (Unstarted /\ TextsInOrder)'
  <2> SUFFICES ASSUME TypeOK, Unstarted, TextsInOrder, [Next]_vars
               PROVE  Unstarted' /\ TextsInOrder'
    OBVIOUS
  <2>0. pos \in Nat /\ pos + 1 \in Nat /\ pos <= pos + 1 /\ pos <= pos
    BY Typed
  <2>1. ASSUME UNCHANGED <<lines, pos, units>>
        PROVE  TextsInOrder'
    BY <2>1 DEF TextsInOrder, Ascending, Precedes
  <2>2. ASSUME UNCHANGED chunking, stage' \in {"fetch", "load"} => stage \in {"fetch", "load"}
        PROVE  Unstarted'
    BY <2>2 DEF Unstarted, chunking
  <2>3. CASE Aside
    BY <2>1, <2>2, <2>3, AsideLeaves DEF loading
  <2>4. CASE ReadPdf
    <3>1. /\ stage' = stage /\ UNCHANGED chunking /\ pos' = pos + 1
          /\ \/ units' = PageUnit /\ lines' = <<>>
             \/ units' = units /\ lines' = Append(lines, pos)
      BY <2>4 DEF ReadPdf
    <3>2. QED
      BY <2>0, <2>2, <3>1, LineKeepsOrder, UnitKeepsOrder
  <2>5. CASE ReadDocx
    <3>1. /\ stage' = stage /\ UNCHANGED chunking /\ pos' = pos + 1
          /\ \/ units' = SectionUnit /\ lines' = <<>>
             \/ units' = units /\ lines' = Append(lines, pos)
             \/ units' = units /\ lines' = lines
      BY <2>5 DEF ReadDocx
    <3>2. CASE units' = units /\ lines' = lines
      <4>1. \A k \in Nat : k < pos => k < pos'
        BY <2>0, <3>1
      <4>2. /\ \A i \in DOMAIN lines : lines[i] \in Nat
            /\ \A u \in DOMAIN units : \A i \in DOMAIN units[u].text : units[u].text[i] \in Nat
        BY Typed
      <4>3. TextsInOrder'
        BY <3>2, <4>1, <4>2 DEF TextsInOrder, Ascending, Precedes
      <4>4. QED
        BY <2>2, <3>1, <4>3
    <3>3. QED
      BY <2>0, <2>2, <3>1, <3>2, LineKeepsOrder, UnitKeepsOrder
  <2>6. CASE ReadText
    <3>1. /\ stage' = stage /\ UNCHANGED chunking /\ pos' = pos + 1
          /\ units' = units /\ lines' = Append(lines, pos)
      BY <2>6 DEF ReadText
    <3>2. QED
      BY <2>2, <3>1, LineKeepsOrder
  <2>7. CASE EndLoad
    <3>1. /\ stage' = "chunk" /\ UNCHANGED <<pos, chunking>> /\ lines' = <<>>
          /\ units' \in {PageUnit, SectionUnit, TextUnit, units}
      BY <2>7 DEF EndLoad
    <3>2. QED
      BY <2>0, <2>2, <3>1, UnitKeepsOrder
  <2>8. CASE NextPiece \/ NextUnit
    <3>1. stage = "chunk" /\ stage' = stage /\ UNCHANGED loading
      BY <2>8 DEF NextPiece, NextUnit
    <3>2. QED
      BY <2>1, <3>1 DEF loading, Unstarted
  <2>9. QED
    BY <2>3, <2>4, <2>5, <2>6, <2>7, <2>8 DEF Next, Aside
<1>3. QED
  BY <1>1, <1>2, TypeCorrect, PTL DEF Spec

LEMMA NothingStaysUnread == Spec => []NothingUnread
<1>1. Init => NothingUnread
  BY DEF Init, NothingUnread, Chunked
<1>2. TypeOK /\ NothingUnread /\ [Next]_vars => NothingUnread'
  <2> SUFFICES ASSUME TypeOK, NothingUnread, [Next]_vars
               PROVE  NothingUnread'
    OBVIOUS
  <2>0. pos \in Nat \ {0}
    BY Typed
  <2>1. CASE Aside
    <3>1. UNCHANGED <<type, object, pos, lines, units>>
      BY <2>1, AsideLeaves DEF loading
    <3>2. \A p \in 1..(pos' - 1) : Wanted(p)' => InUnits(p)' \/ InLines(p)'
      BY <3>1 DEF NothingUnread, Wanted, InUnits, InLines
    <3>3. (Chunked \/ stage = "chunk")' => Chunked \/ stage = "chunk"
      BY <2>1, AsideLeaves DEF Chunked
    <3>4. QED
      BY <3>1, <3>2, <3>3 DEF NothingUnread
  <2>2. ASSUME stage = "load", stage' = stage, UNCHANGED <<type, object>>, pos' = pos + 1,
               \A p : InLines(p) \/ InUnits(p) => InLines(p)' \/ InUnits(p)',
               Wanted(pos) => \E i \in DOMAIN lines' : lines'[i] = pos
        PROVE  NothingUnread'
    <3>1. ASSUME NEW p \in 1..(pos' - 1), Wanted(p)'
          PROVE  InUnits(p)' \/ InLines(p)'
      <4>1. Wanted(p)
        BY <2>2, <3>1 DEF Wanted
      <4>2. CASE p \in 1..(pos - 1)
        BY <2>2, <4>1, <4>2 DEF NothingUnread
      <4>3. CASE p = pos
        BY <2>2, <4>1, <4>3 DEF InLines
      <4>4. QED
        BY <2>0, <2>2, <4>2, <4>3
    <3>2. QED
      BY <2>2, <3>1 DEF NothingUnread, Chunked
  <2>3. CASE ReadPdf
    <3>1. /\ stage = "load" /\ stage' = stage /\ UNCHANGED <<type, object>> /\ pos' = pos + 1
          /\ \/ object[pos] = "break" /\ units' = PageUnit
             \/ units' = units /\ lines' = Append(lines, pos)
      BY <2>3 DEF ReadPdf, Loading
    <3>2. CASE object[pos] = "break" /\ units' = PageUnit
      BY <2>2, <3>1, <3>2, UnitsGather DEF Wanted
    <3>3. CASE units' = units /\ lines' = Append(lines, pos)
      BY <2>2, <3>1, <3>3, LinesGather
    <3>4. QED
      BY <3>1, <3>2, <3>3
  <2>4. CASE ReadDocx
    <3>1. /\ stage = "load" /\ stage' = stage /\ UNCHANGED <<type, object>> /\ pos' = pos + 1
          /\ type = "docx"
          /\ \/ Blank(pos) /\ units' = units /\ lines' = lines
             \/ object[pos] = "table" /\ units' = units /\ lines' = lines
             \/ object[pos] = "heading" /\ units' = SectionUnit
             \/ units' = units /\ lines' = Append(lines, pos)
      BY <2>4 DEF ReadDocx, Loading
    <3>2. CASE (Blank(pos) \/ object[pos] = "table") /\ units' = units /\ lines' = lines
      <4>1. ~Wanted(pos)
        BY <3>1, <3>2 DEF Blank, Wanted
      <4>2. \A p : InLines(p) \/ InUnits(p) => InLines(p)' \/ InUnits(p)'
        BY <3>2 DEF InLines, InUnits
      <4>3. QED
        BY <2>2, <3>1, <4>1, <4>2
    <3>3. CASE object[pos] = "heading" /\ units' = SectionUnit
      <4>1. ~Wanted(pos)
        BY <3>1, <3>3 DEF Wanted
      <4>2. QED
        BY <2>2, <3>1, <3>3, <4>1, UnitsGather
    <3>4. CASE units' = units /\ lines' = Append(lines, pos)
      BY <2>2, <3>1, <3>4, LinesGather
    <3>5. QED
      BY <3>1, <3>2, <3>3, <3>4
  <2>5. CASE ReadText
    <3>1. /\ stage = "load" /\ stage' = stage /\ UNCHANGED <<type, object>> /\ pos' = pos + 1
          /\ units' = units /\ lines' = Append(lines, pos)
      BY <2>5 DEF ReadText, Loading
    <3>2. QED
      BY <2>2, <3>1, LinesGather
  <2>6. CASE EndLoad
    <3>1. /\ pos > Len(object) /\ UNCHANGED <<type, object, pos>> /\ lines' = <<>>
          /\ units' \in {PageUnit, SectionUnit, TextUnit, units}
          /\ type \in {"pdf", "docx", "text"}
      BY <2>6 DEF EndLoad
    <3>2. units' \in {PageUnit, SectionUnit, TextUnit}
      BY <2>6 DEF EndLoad
    <3>3. \A p \in 1..(pos' - 1) : Wanted(p)' => InUnits(p)'
      BY <3>1, <3>2, UnitsGather DEF NothingUnread, Wanted
    <3>4. QED
      BY <3>1, <3>3 DEF NothingUnread
  <2>7. CASE NextPiece \/ NextUnit
    <3>1. stage = "chunk" /\ stage' = stage /\ UNCHANGED <<type, object, pos, lines, units>>
      BY <2>7 DEF NextPiece, NextUnit, loading
    <3>2. \A p \in 1..(pos' - 1) : Wanted(p)' => InUnits(p)' \/ InLines(p)'
      BY <3>1 DEF NothingUnread, Wanted, InUnits, InLines
    <3>3. QED
      BY <3>1, <3>2 DEF NothingUnread
  <2>8. QED
    BY <2>1, <2>3, <2>4, <2>5, <2>6, <2>7 DEF Next, Aside
<1>3. QED
  BY <1>1, <1>2, TypeCorrect, PTL DEF Spec

\* A chunk cut from first to last of a text begins and ends there.
LEMMA CutEnds ==
  ASSUME NEW text \in Seq(Nat), NEW first \in DOMAIN text, NEW last \in DOMAIN text, first <= last
  PROVE  LET cut == SubSeq(text, first, last)
         IN  /\ cut # <<>> /\ Len(cut) = last - first + 1 /\ cut[Len(cut)] = text[last]
             /\ \A k \in first..last : \E i \in DOMAIN cut : cut[i] = text[k]
<1> DEFINE cut == SubSeq(text, first, last)
<1>1. first \in Nat /\ last \in Nat /\ first >= 1
  BY LenProperties
<1>2. /\ cut \in Seq(Nat) /\ Len(cut) = last - first + 1
      /\ \A i \in DOMAIN cut : first + i - 1 \in first..last /\ cut[i] = text[first + i - 1]
  BY CutIsText
<1> HIDE DEF cut
<1>3. DOMAIN cut = 1..(last - first + 1)
  BY <1>2, LenProperties
<1>4. last - first + 1 \in DOMAIN cut /\ first + (last - first + 1) - 1 = last
  <2>1. last - first + 1 \in 1..(last - first + 1) /\ first + (last - first + 1) - 1 = last
    BY <1>1
  <2>2. QED
    BY <1>3, <2>1
<1>5. cut[Len(cut)] = text[last] /\ cut # <<>>
  BY <1>2, <1>4
<1>6. ASSUME NEW k \in first..last
      PROVE  \E i \in DOMAIN cut : cut[i] = text[k]
  <2>1. k - first + 1 \in DOMAIN cut /\ first + (k - first + 1) - 1 = k
    BY <1>1, <1>3
  <2>2. QED
    BY <1>2, <2>1
<1>7. QED
  BY <1>2, <1>5, <1>6 DEF cut

\* What a cut of the text can be: blank, or a chunk from its first line that
\* is not to its last.
LEMMA PieceTaken ==
  ASSUME TypeOK, NextPiece
  PROVE  /\ unit \in DOMAIN units /\ stage = "chunk"
         /\ UNCHANGED <<type, object, stage, loading, unit, storing>>
         /\ \E from, to \in DOMAIN units[unit].text :
              /\ Follows(from, to) /\ at' = to
              /\ \/ /\ \A k \in from..to : Blank(units[unit].text[k])
                    /\ UNCHANGED <<index, chunks>>
                 \/ \E first, last \in from..to :
                      /\ first <= last /\ ~Blank(units[unit].text[last])
                      /\ \A k \in from..to : ~Blank(units[unit].text[k]) => k \in first..last
                      /\ chunks' = Append(chunks, NewChunk(SubSeq(units[unit].text, first, last)))
                      /\ index' = index + 1
<1>1. unit \in DOMAIN units /\ stage = "chunk"
  BY Typed DEF NextPiece
<1>2. /\ DOMAIN units[unit].text = 1..Len(units[unit].text) /\ Len(units[unit].text) \in Nat
  BY <1>1, Typed
<1>3. PICK from \in DOMAIN units[unit].text, to \in DOMAIN units[unit].text :
        LET text == units[unit].text
            solid == {k \in from..to : ~Blank(text[k])} IN
        /\ Follows(from, to)
        /\ at' = to
        /\ \/ solid = {} /\ UNCHANGED <<index, chunks>>
           \/ \E first, last \in solid :
                /\ solid \subseteq first..last
                /\ chunks' = Append(chunks, NewChunk(SubSeq(text, first, last)))
                /\ index' = index + 1
  BY DEF NextPiece
<1> DEFINE solid == {k \in from..to : ~Blank(units[unit].text[k])}
<1>4. CASE solid = {} /\ UNCHANGED <<index, chunks>>
  <2>1. \A k \in from..to : Blank(units[unit].text[k])
    BY <1>4
  <2>2. QED
    BY <1>1, <1>3, <1>4, <2>1 DEF NextPiece
<1>5. ASSUME NEW first \in solid, NEW last \in solid, solid \subseteq first..last,
             chunks' = Append(chunks, NewChunk(SubSeq(units[unit].text, first, last))),
             index' = index + 1
      PROVE  /\ first \in from..to /\ last \in from..to
             /\ first <= last /\ ~Blank(units[unit].text[last])
             /\ \A k \in from..to : ~Blank(units[unit].text[k]) => k \in first..last
  BY <1>2, <1>5
<1>6. CASE \E first, last \in solid :
             /\ solid \subseteq first..last
             /\ chunks' = Append(chunks, NewChunk(SubSeq(units[unit].text, first, last)))
             /\ index' = index + 1
  BY <1>1, <1>3, <1>5, <1>6 DEF NextPiece
<1>7. QED
  BY <1>3, <1>4, <1>6

\* NextPiece keeps the numbers and the order of the chunks.
LEMMA PieceKeepsNumbers ==
  ASSUME TypeOK, TextsInOrder, Numbered, NextPiece
  PROVE  Numbered'
<1> DEFINE text == units[unit].text
<1>1. /\ unit \in DOMAIN units /\ UNCHANGED <<object, units, unit>>
  BY PieceTaken DEF loading
<1>2. /\ unit \in Nat \ {0} /\ at \in Nat /\ index \in Nat
      /\ DOMAIN units = 1..Len(units) /\ Len(units) \in Nat
      /\ text \in Seq(Nat) /\ DOMAIN text = 1..Len(text) /\ Len(text) \in Nat
      /\ \A u \in DOMAIN units : \A i \in DOMAIN units[u].text : units[u].text[i] \in Nat
      /\ \A u \in DOMAIN units : DOMAIN units[u].text = 1..Len(units[u].text) /\ Len(units[u].text) \in Nat
      /\ chunks \in Seq(Chunk) /\ DOMAIN chunks = 1..Len(chunks) /\ Len(chunks) \in Nat
  BY <1>1, Typed
<1>3. PICK from \in DOMAIN text, to \in DOMAIN text :
        /\ Follows(from, to) /\ at' = to
        /\ \/ /\ \A k \in from..to : Blank(text[k])
              /\ UNCHANGED <<index, chunks>>
           \/ \E first, last \in from..to :
                /\ first <= last /\ ~Blank(text[last])
                /\ \A k \in from..to : ~Blank(text[k]) => k \in first..last
                /\ chunks' = Append(chunks, NewChunk(SubSeq(text, first, last)))
                /\ index' = index + 1
  BY PieceTaken
<1>4. from \in Nat \ {0} /\ to \in Nat /\ from <= at + 1 /\ at < to /\ to <= Len(text)
  BY <1>2, <1>3 DEF Follows
<1>5. CASE UNCHANGED <<index, chunks>>
  <2>1. ASSUME chunks # <<>>
        PROVE  EndsBehind(chunks[Len(chunks)])'
    <3>1. PICK u, p :
            /\ u \in 1..unit /\ p \in DOMAIN units[u].text /\ u <= Len(units)
            /\ LastLine(chunks[Len(chunks)]) = units[u].text[p] /\ ~Blank(units[u].text[p])
            /\ u = unit => p <= at
      BY <2>1 DEF Numbered, EndsBehind
    <3>2. u = unit => p <= at'
      BY <1>2, <1>3, <1>4, <3>1
    <3>3. QED
      BY <1>1, <1>5, <3>1, <3>2 DEF EndsBehind, LastLine, Blank
  <2>2. QED
    BY <1>5, <2>1 DEF Numbered, IndicesFollowTheText
<1>6. ASSUME NEW first \in from..to, NEW last \in from..to,
             first <= last, ~Blank(text[last]),
             \A k \in from..to : ~Blank(text[k]) => k \in first..last,
             chunks' = Append(chunks, NewChunk(SubSeq(text, first, last))),
             index' = index + 1
      PROVE  Numbered'
  <2> DEFINE cut == SubSeq(text, first, last)
             n == Len(chunks)
  <2>1. /\ first \in DOMAIN text /\ last \in DOMAIN text /\ last \in Nat /\ first \in Nat
        /\ last <= to
    <3>1. first \in from..to /\ last \in from..to
      BY <1>6
    <3>2. DOMAIN text = 1..Len(text) /\ Len(text) \in Nat
      BY <1>2
    <3> HIDE DEF text
    <3>3. from..to \subseteq 1..Len(text)
      BY <1>4, <3>2
    <3>4. QED
      BY <1>4, <3>1, <3>2, <3>3
  <2>2. cut # <<>> /\ cut[Len(cut)] = text[last]
    BY <1>2, <1>6, <2>1, CutEnds
  <2>3. NewChunk(cut).content = cut /\ NewChunk(cut).index = index
    BY DEF NewChunk
  <2>4. /\ DOMAIN chunks' = 1..(n + 1) /\ Len(chunks') = n + 1 /\ chunks' # <<>>
        /\ chunks'[n + 1] = NewChunk(cut)
        /\ \A k \in 1..n : chunks'[k] = chunks[k]
    <3> HIDE DEF cut
    <3>1. chunks' = Append(chunks, NewChunk(cut))
      BY <1>6 DEF cut
    <3>2. chunks \in Seq(Chunk) /\ Len(chunks) = n /\ n \in Nat
      BY <1>2 DEF Numbered
    <3>3. QED
      BY <3>1, <3>2
  <2>5. index = n /\ n \in Nat
    BY <1>2 DEF Numbered
  <2>6. ASSUME n > 0
        PROVE  LastLine(chunks[n]) <= text[last]
    <3>1. chunks # <<>>
      BY <2>6
    <3>2. PICK u, p :
            /\ u \in 1..unit /\ p \in DOMAIN units[u].text /\ u <= Len(units)
            /\ LastLine(chunks[n]) = units[u].text[p] /\ ~Blank(units[u].text[p])
            /\ u = unit => p <= at
      BY <3>1 DEF Numbered, EndsBehind
    <3>3. u \in DOMAIN units
      BY <1>2, <3>2
    <3>4. CASE u < unit
      <4>1. Precedes(units[u].text, text)
        BY <1>1, <3>3, <3>4 DEF TextsInOrder
      <4>2. units[u].text[p] < text[last]
        BY <2>1, <3>2, <4>1 DEF Precedes
      <4>3. units[u].text[p] \in Nat /\ text[last] \in Nat
        BY <1>1, <1>2, <2>1, <3>2, <3>3
      <4>4. QED
        BY <3>2, <4>2, <4>3
    <3>5. CASE u = unit
      <4>0. p \in DOMAIN text /\ p <= at /\ ~Blank(text[p])
        BY <3>2, <3>5
      <4>1. p \in DOMAIN text /\ p \in Nat /\ p < to /\ ~Blank(text[p])
        BY <1>2, <1>4, <4>0
      <4>2. p <= last
        <5>1. CASE p \in from..to
          BY <1>6, <2>1, <4>1, <5>1
        <5>2. CASE p < from
          BY <1>4, <1>6, <4>1, <5>2
        <5>3. QED
          BY <1>4, <4>1, <5>1, <5>2
      <4>3. text[p] <= text[last]
        <5>1. Ascending(text)
          BY <1>1 DEF TextsInOrder
        <5>2. text[p] \in Nat /\ text[last] \in Nat
          BY <1>1, <1>2, <2>1, <4>1
        <5>3. CASE p < last
          BY <2>1, <4>1, <5>1, <5>2, <5>3 DEF Ascending
        <5>4. QED
          BY <2>1, <4>1, <4>2, <5>2, <5>3
      <4>4. QED
        BY <3>2, <3>5, <4>3
    <3>6. QED
      BY <1>2, <3>2, <3>4, <3>5
  <2> HIDE DEF cut, n
  <2>7. LastLine(chunks'[n + 1]) = text[last]
    BY <2>2, <2>3, <2>4 DEF LastLine
  <2>8. EndsBehind(chunks[Len(chunks)])'
    <3>1. unit \in 1..unit' /\ last \in DOMAIN units'[unit].text /\ unit <= Len(units') /\ last <= at'
      BY <1>1, <1>2, <1>3, <2>1
    <3>2. LastLine(chunks'[Len(chunks')]) = units'[unit].text[last] /\ ~Blank(text[last])'
      BY <1>1, <1>6, <2>4, <2>7 DEF Blank
    <3>3. QED
      BY <1>1, <3>1, <3>2 DEF EndsBehind, LastLine
  <2>9. IndicesFollowTheText'
    <3>1. ASSUME NEW k \in 1..(n + 1)
          PROVE  /\ chunks'[k].index = k - 1 /\ chunks'[k].content # <<>>
                 /\ k > 1 => LastLine(chunks'[k - 1]) <= LastLine(chunks'[k])
      <4>1. CASE k \in 1..n
        <5>1. /\ chunks[k].index = k - 1 /\ chunks[k].content # <<>>
              /\ k > 1 => LastLine(chunks[k - 1]) <= LastLine(chunks[k])
          BY <1>2, <4>1 DEF Numbered, IndicesFollowTheText, LastLine, n
        <5>2. chunks'[k] = chunks[k] /\ (k > 1 => chunks'[k - 1] = chunks[k - 1])
          BY <2>4, <2>5, <4>1
        <5>3. QED
          BY <5>1, <5>2
      <4>2. CASE k = n + 1
        <5>1. k > 1 => n > 0 /\ chunks'[k - 1] = chunks[n]
          BY <2>4, <2>5, <4>2
        <5>2. QED
          BY <2>2, <2>3, <2>4, <2>5, <2>6, <2>7, <4>2, <5>1
      <4>3. QED
        BY <2>5, <3>1, <4>1, <4>2
    <3>2. QED
      BY <2>4, <3>1 DEF IndicesFollowTheText, LastLine
  <2>10. index' = Len(chunks)'
    BY <1>6, <2>4, <2>5
  <2>11. QED
    BY <2>8, <2>9, <2>10 DEF Numbered
<1>7. QED
  BY <1>3, <1>5, <1>6

LEMMA ChunksStayNumbered == Spec => []Numbered
<1>1. Init => Numbered
  BY DEF Init, Numbered, IndicesFollowTheText
<1>2. TypeOK /\ Unstarted /\ TextsInOrder /\ Numbered /\ [Next]_vars => Numbered'
  <2> SUFFICES ASSUME TypeOK, Unstarted, TextsInOrder, Numbered, [Next]_vars
               PROVE  Numbered'
    OBVIOUS
  <2>1. CASE Aside
    <3>1. UNCHANGED <<object, units, unit, at, index, chunks>>
      BY <2>1, AsideLeaves DEF loading, chunking
    <3>2. QED
      BY <3>1 DEF Numbered, EndsBehind, LastLine, Blank, IndicesFollowTheText
  <2>2. CASE ReadPdf \/ ReadDocx \/ ReadText \/ EndLoad
    <3>1. stage = "load" /\ UNCHANGED chunking
      BY <2>2 DEF ReadPdf, ReadDocx, ReadText, EndLoad, Loading
    <3>2. chunks' = <<>> /\ index' = 0
      BY <3>1 DEF Unstarted, chunking
    <3>3. QED
      BY <3>2 DEF Numbered, IndicesFollowTheText
  <2>3. CASE NextPiece
    BY <2>3, PieceKeepsNumbers
  <2>4. CASE NextUnit
    <3>1. /\ UNCHANGED <<object, units, index, chunks>> /\ unit' = unit + 1 /\ at' = 0
      BY <2>4 DEF NextUnit, loading
    <3>2. ASSUME chunks # <<>>
          PROVE  EndsBehind(chunks[Len(chunks)])'
      <4>1. PICK u, p :
              /\ u \in 1..unit /\ p \in DOMAIN units[u].text /\ u <= Len(units)
              /\ LastLine(chunks[Len(chunks)]) = units[u].text[p] /\ ~Blank(units[u].text[p])
        BY <3>2 DEF Numbered, EndsBehind
      <4>2. u \in 1..unit' /\ u # unit'
        BY <3>1, <4>1, Typed
      <4>3. QED
        BY <3>1, <4>1, <4>2 DEF EndsBehind, LastLine, Blank
    <3>3. QED
      BY <3>1, <3>2 DEF Numbered, IndicesFollowTheText
  <2>5. QED
    BY <2>1, <2>2, <2>3, <2>4 DEF Next, Aside
<1>3. QED
  BY <1>1, <1>2, TypeCorrect, OrderIsKept, PTL DEF Spec

\* IndicesFollowTheText: the chunks of a document are numbered from 0 in the
\* order of its text, across its units and whatever pieces were dropped.
THEOREM ChunksFollowTheText == Spec => []IndicesFollowTheText
<1>1. Numbered => IndicesFollowTheText
  BY DEF Numbered
<1>2. QED
  BY <1>1, ChunksStayNumbered, PTL

\* NextPiece puts what it covers into the chunks, unless it is blank.
LEMMA PieceCovers ==
  ASSUME TypeOK, Covered, NextPiece
  PROVE  Covered'
<1> DEFINE text == units[unit].text
<1>1. /\ unit \in DOMAIN units /\ stage = "chunk" /\ UNCHANGED <<object, units, unit, stage>>
  BY PieceTaken DEF loading
<1>2. /\ unit \in Nat \ {0} /\ at \in Nat
      /\ DOMAIN units = 1..Len(units) /\ Len(units) \in Nat
      /\ text \in Seq(Nat) /\ DOMAIN text = 1..Len(text) /\ Len(text) \in Nat
      /\ \A u \in DOMAIN units : DOMAIN units[u].text = 1..Len(units[u].text) /\ Len(units[u].text) \in Nat
      /\ chunks \in Seq(Chunk) /\ DOMAIN chunks = 1..Len(chunks) /\ Len(chunks) \in Nat
  BY <1>1, Typed
<1>3. PICK from \in DOMAIN text, to \in DOMAIN text :
        /\ Follows(from, to) /\ at' = to
        /\ \/ /\ \A k \in from..to : Blank(text[k])
              /\ UNCHANGED <<index, chunks>>
           \/ \E first, last \in from..to :
                /\ first <= last /\ ~Blank(text[last])
                /\ \A k \in from..to : ~Blank(text[k]) => k \in first..last
                /\ chunks' = Append(chunks, NewChunk(SubSeq(text, first, last)))
                /\ index' = index + 1
  BY PieceTaken
<1>4. from \in Nat /\ to \in Nat /\ from <= at + 1 /\ at < to
  BY <1>2, <1>3 DEF Follows
<1>5. /\ \A p : InChunks(p) => InChunks(p)'
      /\ \A k \in from..to : ~Blank(text[k]) => \E c \in DOMAIN chunks' :
           \E i \in DOMAIN chunks'[c].content : chunks'[c].content[i] = text[k]
  <2>1. CASE /\ \A k \in from..to : Blank(text[k])
             /\ UNCHANGED <<index, chunks>>
    BY <2>1 DEF InChunks
  <2>2. ASSUME NEW first \in from..to, NEW last \in from..to, first <= last,
               \A k \in from..to : ~Blank(text[k]) => k \in first..last,
               chunks' = Append(chunks, NewChunk(SubSeq(text, first, last)))
        PROVE  /\ \A p : InChunks(p) => InChunks(p)'
               /\ \A k \in from..to : ~Blank(text[k]) => \E c \in DOMAIN chunks' :
                    \E i \in DOMAIN chunks'[c].content : chunks'[c].content[i] = text[k]
    <3> DEFINE cut == SubSeq(text, first, last)
               n == Len(chunks)
    <3>1. first \in DOMAIN text /\ last \in DOMAIN text
      BY <1>2
    <3>2. \A k \in first..last : \E i \in DOMAIN cut : cut[i] = text[k]
      BY <1>2, <2>2, <3>1, CutEnds
    <3>3. NewChunk(cut).content = cut
      BY DEF NewChunk
    <3>4. /\ n + 1 \in DOMAIN chunks' /\ chunks'[n + 1] = NewChunk(cut)
          /\ \A k \in DOMAIN chunks : k \in DOMAIN chunks' /\ chunks'[k] = chunks[k]
      <4> HIDE DEF cut
      <4> QED BY <1>2, <2>2 DEF cut
    <3> HIDE DEF cut, n
    <3>5. \A p : InChunks(p) => InChunks(p)'
      BY <3>4 DEF InChunks
    <3>6. QED
      BY <2>2, <3>2, <3>3, <3>4, <3>5
  <2>3. QED
    BY <1>3, <2>1, <2>2
<1>6. ASSUME NEW u \in DOMAIN units, NEW i \in DOMAIN units[u].text,
             ~Blank(units[u].text[i]), u < unit \/ (u = unit /\ i <= to)
      PROVE  InChunks(units[u].text[i])'
  <2>1. CASE u < unit \/ (u = unit /\ i <= at)
    <3>1. InChunks(units[u].text[i])
      BY <1>6, <2>1 DEF Covered
    <3>2. \E c \in DOMAIN chunks' : \E j \in DOMAIN chunks'[c].content :
            chunks'[c].content[j] = units[u].text[i]
      BY <1>5, <3>1 DEF InChunks
    <3>3. QED
      BY <1>1, <3>2 DEF InChunks
  <2>2. CASE u = unit /\ i > at
    <3>1. i \in from..to
      BY <1>2, <1>4, <1>6, <2>2
    <3>2. \E c \in DOMAIN chunks' : \E j \in DOMAIN chunks'[c].content :
            chunks'[c].content[j] = units[u].text[i]
      BY <1>5, <1>6, <2>2, <3>1
    <3>3. QED
      BY <1>1, <3>2 DEF InChunks
  <2>3. QED
    BY <1>2, <1>6, <2>1, <2>2
<1>7. QED
  BY <1>1, <1>3, <1>6 DEF Covered, Blank, Chunked, InChunks

LEMMA TextStaysCovered == Spec => []Covered
<1>1. Init => Covered
  BY DEF Init, Covered, Chunked
<1>2. TypeOK /\ TypeOK' /\ Unstarted /\ Covered /\ [Next]_vars => Covered'
  <2> SUFFICES ASSUME TypeOK, TypeOK', Unstarted, Covered, [Next]_vars
               PROVE  Covered'
    OBVIOUS
  <2>0. /\ unit \in Nat \ {0} /\ at \in Nat
        /\ \A u \in DOMAIN units : DOMAIN units[u].text = 1..Len(units[u].text) /\ Len(units[u].text) \in Nat
        /\ DOMAIN units = 1..Len(units) /\ Len(units) \in Nat
    BY Typed
  <2>1. CASE Aside
    <3>1. UNCHANGED <<object, units, unit, at, chunks>> /\ (Chunked' => Chunked \/ unit > Len(units))
      BY <2>1, AsideLeaves DEF loading, chunking, Chunked
    <3>2. QED
      BY <3>1 DEF Covered, Blank, InChunks
  <2>2. CASE ReadPdf \/ ReadDocx \/ ReadText \/ EndLoad
    <3>1. stage = "load" /\ UNCHANGED chunking /\ stage' \in {"load", "chunk"}
      BY <2>2 DEF ReadPdf, ReadDocx, ReadText, EndLoad, Loading
    <3>2. unit' = 1 /\ at' = 0
      BY <3>1 DEF Unstarted, chunking
    <3>3. \A u \in DOMAIN units' : \A i \in DOMAIN units'[u].text :
            ~(u < unit' \/ (u = unit' /\ i <= at'))
      <4>1. units' \in Seq(Unit) /\ \A u \in DOMAIN units' : units'[u].text \in Text
        <5>1. units' \in Seq(Unit)
          BY DEF TypeOK
        <5>2. \A u \in DOMAIN units' : units'[u] \in Unit
          BY <5>1
        <5>3. QED
          BY <5>1, <5>2 DEF Unit
      <4>2. \A u \in DOMAIN units' : units'[u].text \in Seq(Nat)
        BY <4>1, SizesAssumption, SeqMonotonic DEF Text
      <4>3. QED
        BY <3>2, <4>1, <4>2
    <3>4. QED
      BY <3>1, <3>3 DEF Covered, Chunked
  <2>3. CASE NextPiece
    BY <2>3, PieceCovers
  <2>4. CASE NextUnit
    <3>1. /\ UNCHANGED <<object, units, chunks, stage>> /\ unit' = unit + 1 /\ at' = 0
          /\ unit <= Len(units) /\ at = Len(units[unit].text) /\ stage = "chunk"
      BY <2>4 DEF NextUnit, loading
    <3>2. ASSUME NEW u \in DOMAIN units, NEW i \in DOMAIN units[u].text,
                 u < unit' \/ (u = unit' /\ i <= at')
          PROVE  u < unit \/ (u = unit /\ i <= at)
      BY <2>0, <3>1, <3>2
    <3>3. QED
      BY <3>1, <3>2 DEF Covered, Blank, Chunked, InChunks
  <2>5. QED
    BY <2>1, <2>2, <2>3, <2>4 DEF Next, Aside
<1>3. QED
  BY <1>1, <1>2, TypeCorrect, OrderIsKept, PTL DEF Spec

\* ParagraphsReachChunks: what is chunked has every line of text in it that the
\* loader takes in (all but the headings and tables of a DOCX), whatever the
\* overlap, the blank pieces and the empty pages and sections.
THEOREM EveryParagraphIsFound == Spec => []ParagraphsReachChunks
<1>1. TypeOK /\ NothingUnread /\ Covered => ParagraphsReachChunks
  <2> SUFFICES ASSUME TypeOK, NothingUnread, Covered, Chunked, NEW p \in DOMAIN object, Wanted(p)
               PROVE  InChunks(p)
    BY DEF ParagraphsReachChunks, Wanted, InChunks
  <2>1. p \in 1..(pos - 1)
    BY Typed DEF NothingUnread
  <2>2. InUnits(p)
    <3>1. DOMAIN lines = {}
      BY DEF NothingUnread
    <3>2. QED
      BY <2>1, <3>1 DEF NothingUnread, InLines
  <2>3. PICK u \in DOMAIN units : \E i \in DOMAIN units[u].text : units[u].text[i] = p
    BY <2>2 DEF InUnits
  <2>4. PICK i \in DOMAIN units[u].text : units[u].text[i] = p
    BY <2>3
  <2>5. ~Blank(p)
    BY DEF Wanted, Blank
  <2>6. u < unit
    BY Typed DEF Covered
  <2>7. QED
    BY <2>4, <2>5, <2>6 DEF Covered
<1>2. QED
  BY <1>1, TypeCorrect, NothingStaysUnread, TextStaysCovered, PTL

=============================================================================
