--------------------------- MODULE DocumentPipeline ---------------------------
(***************************************************************************)
(* What IngestionService._pipeline makes of one stored object: fetch, load *)
(* (PDF pages, DOCX sections or plain text), split and chunk, embed, store *)
(* rows and vectors.  IngestionService knows this as its step Load.        *)
(*                                                                         *)
(* The object is a sequence of lines, told apart by what the loaders and   *)
(* strip() see of them; a text is the sequence of its line numbers.  How   *)
(* the splitter libraries cut a text is left open within what the code     *)
(* relies on: pieces in order, nothing skipped, overlap and size bounded.  *)
(***************************************************************************)
EXTENDS Integers, Sequences, FiniteSets

CONSTANTS MaxLines,     \* bound: lines of an object
          ChunkSize,    \* settings.rag_chunk_size, in lines
          ChunkOverlap, \* settings.rag_chunk_overlap, in lines
          OnePerText    \* TRUE: the embedder returns a vector per text, in order

ASSUME SizesAssumption ==
  MaxLines \in Nat /\ ChunkSize \in Nat \ {0} /\ ChunkOverlap \in 0..ChunkSize
ASSUME OnePerTextAssumption == OnePerText \in BOOLEAN

VARIABLES type,     \* content type of the upload
          object,   \* the stored lines
          stage,    \* where the pipeline is
          pos,      \* the line the loader reads next
          page,     \* the page it is on
          heading,  \* the heading it has seen last, 0 before any
          lines,    \* the text it has collected since
          units,    \* the LoadedDocuments
          unit,     \* the unit being split
          at,       \* how much of it is in the pieces so far
          index,    \* the next chunk's index
          chunks,   \* the TextChunks
          vectors,  \* what the embedder returned: the text each vector is of
          rows,     \* rows of the open transaction
          vectorIds,\* the row each string in vector_ids names
          stored    \* the two lists the vector store was given

loading == <<pos, page, heading, lines, units>>
chunking == <<unit, at, index, chunks>>
storing == <<vectors, rows, vectorIds, stored>>
vars == <<type, object, stage, loading, chunking, storing>>

-----------------------------------------------------------------------------

\* A page break is white space to everything but the PDF loader; a heading and
\* a row of a table are text to everything but the DOCX loader.
Line == {"blank", "body", "heading", "table", "break"}
Blank(p) == object[p] \in {"blank", "break"}

NoPage == -1
NoHeading == 0

Text == Seq(1..MaxLines)
Unit == [text : Text, page : Int, heading : 0..MaxLines]
Chunk == [content : Text, index : Nat, page : Int, heading : 0..MaxLines]

Nothing == [vectors |-> <<>>, ids |-> <<>>]

Stage == {"fetch", "load", "chunk", "embed", "rows", "add", "ready", "failed"}

TypeOK ==
  /\ type \in {"pdf", "docx", "text", "other"}
  /\ object \in Seq(Line) /\ Len(object) <= MaxLines
  /\ stage \in Stage
  /\ pos \in 1..(Len(object) + 1)
  /\ page \in Nat
  /\ heading \in 0..Len(object)
  /\ lines \in Text
  /\ units \in Seq(Unit)
  /\ unit \in Nat \ {0} /\ unit <= Len(units) + 1
  /\ at \in Nat
  /\ index \in Nat
  /\ chunks \in Seq(Chunk)
  /\ vectors \in Seq(Text)
  /\ rows \in Seq(Chunk)
  /\ vectorIds \in Seq(Nat)
  /\ stored \in [vectors : Seq(Text), ids : Seq(Nat)]

Init ==
  /\ type \in {"pdf", "docx", "text", "other"}
  /\ object \in UNION {[1..n -> Line] : n \in 0..MaxLines}
  /\ stage = "fetch"
  /\ pos = 1 /\ page = 0 /\ heading = NoHeading
  /\ lines = <<>> /\ units = <<>>
  /\ unit = 1 /\ at = 0 /\ index = 0
  /\ chunks = <<>>
  /\ vectors = <<>> /\ rows = <<>> /\ vectorIds = <<>>
  /\ stored = Nothing

-----------------------------------------------------------------------------
(* get_bytes and the loaders *)

HasLoader == type # "other"

\* A missing object raises, and so does a type without a loader.
Fetch ==
  /\ stage = "fetch"
  /\ \/ stage' = "load" /\ HasLoader
     \/ stage' = "failed"
  /\ UNCHANGED <<type, object, loading, chunking, storing>>

Loading(t) == stage = "load" /\ type = t

\* Appending the text collected so far as a unit.
PageUnit == Append(units, [text |-> lines, page |-> page, heading |-> NoHeading])
SectionUnit ==
  IF lines = <<>> THEN units
  ELSE Append(units, [text |-> lines, page |-> NoPage, heading |-> heading])
TextUnit == Append(units, [text |-> lines, page |-> NoPage, heading |-> NoHeading])

\* Mutant: blank pages are left out of the count.
ReadPdfUncounted ==
  /\ Loading("pdf") /\ pos <= Len(object)
  /\ pos' = pos + 1
  /\ \/ /\ object[pos] = "break"
        /\ units' = PageUnit
        /\ lines' = <<>>
        /\ page' = IF lines = <<>> THEN page ELSE page + 1
     \/ /\ object[pos] # "break"
        /\ lines' = Append(lines, pos)
        /\ UNCHANGED <<units, page>>
  /\ UNCHANGED <<type, object, stage, heading, chunking, storing>>

\* PyMuPDFLoader: one document per page, blank pages included.
ReadPdf ==
  /\ Loading("pdf") /\ pos <= Len(object)
  /\ pos' = pos + 1
  /\ \/ /\ object[pos] = "break"
        /\ units' = PageUnit
        /\ lines' = <<>>
        /\ page' = page + 1
     \/ /\ object[pos] # "break"
        /\ lines' = Append(lines, pos)
        /\ UNCHANGED <<units, page>>
  /\ UNCHANGED <<type, object, stage, heading, chunking, storing>>

\* Mutant: the heading is replaced before the section is flushed.
ReadDocxHeadingFirst ==
  /\ Loading("docx") /\ pos <= Len(object)
  /\ pos' = pos + 1
  /\ \/ /\ object[pos] = "heading"
        /\ units' = IF lines = <<>> THEN units
                    ELSE Append(units, [text |-> lines, page |-> NoPage, heading |-> pos])
        /\ heading' = pos
        /\ lines' = <<>>
     \/ /\ object[pos] # "heading"
        /\ lines' = IF object[pos] = "body" THEN Append(lines, pos) ELSE lines
        /\ UNCHANGED <<units, heading>>
  /\ UNCHANGED <<type, object, stage, page, chunking, storing>>

\* document.paragraphs by style: blank ones are skipped, a heading ends the
\* section.  Tables are not among them: their text is never read.
ReadDocx ==
  /\ Loading("docx") /\ pos <= Len(object)
  /\ pos' = pos + 1
  /\ \/ /\ Blank(pos) \/ object[pos] = "table"
        /\ UNCHANGED <<units, lines, heading>>
     \/ /\ object[pos] = "heading"
        /\ units' = SectionUnit
        /\ heading' = pos
        /\ lines' = <<>>
     \/ /\ object[pos] = "body"
        /\ lines' = Append(lines, pos)
        /\ UNCHANGED <<units, heading>>
  /\ UNCHANGED <<type, object, stage, page, chunking, storing>>

\* The whole file is one text.
ReadText ==
  /\ Loading("text") /\ pos <= Len(object)
  /\ pos' = pos + 1
  /\ lines' = Append(lines, pos)
  /\ UNCHANGED <<type, object, stage, page, heading, units, chunking, storing>>

\* Mutant: the last section of a DOCX is not flushed.
EndLoadUnflushed ==
  /\ stage = "load" /\ pos > Len(object)
  /\ stage' = "chunk"
  /\ \/ type = "pdf" /\ units' = PageUnit
     \/ type = "docx" /\ UNCHANGED units
     \/ type = "text" /\ units' = TextUnit
  /\ lines' = <<>>
  /\ UNCHANGED <<type, object, pos, page, heading, chunking, storing>>

\* The last page, the last section, or the one text there is.
EndLoad ==
  /\ stage = "load" /\ pos > Len(object)
  /\ stage' = "chunk"
  /\ \/ type = "pdf" /\ units' = PageUnit
     \/ type = "docx" /\ units' = SectionUnit
     \/ type = "text" /\ units' = TextUnit
  /\ lines' = <<>>
  /\ UNCHANGED <<type, object, pos, page, heading, chunking, storing>>

\* Bytes that are no PDF or no DOCX; any bytes decode as text.
Unreadable ==
  /\ Loading("pdf") \/ Loading("docx")
  /\ stage' = "failed"
  /\ UNCHANGED <<type, object, loading, chunking, storing>>

-----------------------------------------------------------------------------
(* TextSplitter.split and ChunkManager.chunk_document *)

\* A piece that can follow when `at' lines of a text are covered: it goes on
\* where the last one ended or overlaps it, and fits the chunk size.
Follows(from, to) ==
  /\ from <= at + 1 /\ from > at - ChunkOverlap
  /\ to > at /\ to < from + ChunkSize

NewChunk(content) == [content |-> content, index |-> index,
                      page |-> units[unit].page, heading |-> units[unit].heading]

\* Mutant: blank pieces use up an index.
NextPieceCounted ==
  /\ stage = "chunk" /\ unit <= Len(units)
  /\ LET text == units[unit].text IN
     \E from, to \in DOMAIN text :
       LET solid == {k \in from..to : ~Blank(text[k])} IN
       /\ Follows(from, to)
       /\ at' = to
       /\ \/ solid = {} /\ UNCHANGED chunks
          \/ \E first, last \in solid :
               /\ solid \subseteq first..last
               /\ chunks' = Append(chunks, NewChunk(SubSeq(text, first, last)))
  /\ index' = index + 1
  /\ UNCHANGED <<type, object, stage, loading, unit, storing>>

\* A chunk is a piece without the white space at its ends, with its unit's
\* place.  Blank pieces are dropped and take no index.
NextPiece ==
  /\ stage = "chunk" /\ unit <= Len(units)
  /\ LET text == units[unit].text IN
     \E from, to \in DOMAIN text :
       LET solid == {k \in from..to : ~Blank(text[k])} IN
       /\ Follows(from, to)
       /\ at' = to
       /\ \/ solid = {} /\ UNCHANGED <<index, chunks>>
          \/ \E first, last \in solid :
               /\ solid \subseteq first..last
               /\ chunks' = Append(chunks, NewChunk(SubSeq(text, first, last)))
               /\ index' = index + 1
  /\ UNCHANGED <<type, object, stage, loading, unit, storing>>

NextUnit ==
  /\ stage = "chunk" /\ unit <= Len(units)
  /\ at = Len(units[unit].text)
  /\ unit' = unit + 1
  /\ at' = 0
  /\ UNCHANGED <<type, object, stage, loading, index, chunks, storing>>

EndChunks ==
  /\ stage = "chunk" /\ unit > Len(units)
  /\ stage' = "embed"
  /\ UNCHANGED <<type, object, loading, chunking, storing>>

-----------------------------------------------------------------------------
(* Embedding, rows and vectors *)

Contents == [k \in DOMAIN chunks |-> chunks[k].content]

\* encode returns a vector per text.  Nothing checks that: a list of another
\* length is taken as it is.  A model of the wrong dimension raises; without
\* chunks the embedder is not called.
Embed ==
  /\ stage = "embed"
  /\ \/ /\ stage' = "rows"
        /\ \/ vectors' = Contents
           \/ /\ ~OnePerText /\ chunks # <<>>
              /\ \E k \in DOMAIN chunks :
                   vectors' \in {SubSeq(Contents, 1, k - 1), Append(Contents, Contents[k])}
     \/ stage' = "failed" /\ chunks # <<>> /\ UNCHANGED vectors
  /\ UNCHANGED <<type, object, loading, chunking, rows, vectorIds, stored>>

\* zip ends with the shorter list.
Zipped == IF Len(chunks) <= Len(vectors) THEN Len(chunks) ELSE Len(vectors)

\* Mutant: the row id is taken before the flush that assigns it.
StoreRowEarly ==
  /\ stage = "rows" /\ Len(rows) < Zipped
  /\ rows' = Append(rows, chunks[Len(rows) + 1])
  /\ vectorIds' = Append(vectorIds, Len(rows))
  /\ UNCHANGED <<type, object, stage, loading, chunking, vectors, stored>>

\* The row of the next chunk, and the id that names it.
StoreRow ==
  /\ stage = "rows" /\ Len(rows) < Zipped
  /\ rows' = Append(rows, chunks[Len(rows) + 1])
  /\ vectorIds' = Append(vectorIds, Len(rows) + 1)
  /\ UNCHANGED <<type, object, stage, loading, chunking, vectors, stored>>

\* The vector store takes both lists as they are or refuses them; without
\* vectors it is not called.
AddVectors ==
  /\ stage = "rows" /\ Len(rows) = Zipped
  /\ stage' = "add"
  /\ stored' = IF vectors = <<>> THEN stored ELSE [vectors |-> vectors, ids |-> vectorIds]
  /\ UNCHANGED <<type, object, loading, chunking, vectors, rows, vectorIds>>

Ready ==
  /\ stage = "add"
  /\ stage' = "ready"
  /\ UNCHANGED <<type, object, loading, chunking, storing>>

\* The document was deleted, the database or the vector store refused: the
\* transaction rolls back and the failure path purges the vectors.
Fail ==
  /\ stage \in {"rows", "add"}
  /\ stage' = "failed"
  /\ vectors' = <<>> /\ rows' = <<>> /\ vectorIds' = <<>>
  /\ stored' = Nothing
  /\ UNCHANGED <<type, object, loading, chunking>>

Next ==
  \/ Fetch \/ ReadPdf \/ ReadDocx \/ ReadText \/ EndLoad \/ Unreadable
  \/ NextPiece \/ NextUnit \/ EndChunks
  \/ Embed \/ StoreRow \/ AddVectors \/ Ready \/ Fail

Spec == Init /\ [][Next]_vars

-----------------------------------------------------------------------------
(* Properties *)

Chunked == stage \in {"embed", "rows", "add", "ready"}

Preceding(p, mark) == {q \in 1..(p - 1) : object[q] = mark}

\* "a chunk never spans two pages", "the page number for citations": all the
\* lines of a PDF chunk are on the page it names, counted from 0.
PagesAreTruthful ==
  type = "pdf" =>
    \A k \in DOMAIN chunks : \A i \in DOMAIN chunks[k].content :
      chunks[k].page = Cardinality(Preceding(chunks[k].content[i], "break"))

\* All the lines of a DOCX chunk are under the heading it names, which is the
\* last one before them: no heading comes in between.
HeadingsAreTruthful ==
  type = "docx" =>
    \A k \in DOMAIN chunks : \A i \in DOMAIN chunks[k].content :
      LET above == Preceding(chunks[k].content[i], "heading") IN
      /\ chunks[k].heading \in above \cup {NoHeading}
      /\ \A q \in above : q <= chunks[k].heading

\* "a monotonically increasing chunk index within the document": the indices
\* are 0, 1, 2, ... across units and dropped pieces, in the order of the text.
IndicesFollowTheText ==
  \A k \in DOMAIN chunks :
    /\ chunks[k].index = k - 1
    /\ chunks[k].content # <<>>
    /\ k > 1 => LET last(c) == chunks[c].content[Len(chunks[c].content)]
                IN  last(k - 1) <= last(k)

\* The lines of text a loader takes in: a heading of a DOCX goes to the chunks'
\* metadata, and the text of its tables nowhere.
Wanted(p) == object[p] = "body" \/ (object[p] \in {"heading", "table"} /\ type # "docx")

\* Every line of a PDF or a text and every body paragraph of a DOCX reaches a
\* chunk, whatever the overlap, the blank pieces and the empty pages and
\* sections.  (Not the tables of a DOCX, which its loader does not see.)
ParagraphsReachChunks ==
  Chunked =>
    \A p \in DOMAIN object : Wanted(p) =>
      \E k \in DOMAIN chunks : \E i \in DOMAIN chunks[k].content : chunks[k].content[i] = p

\* chunks, vectors and vector_ids are three lists that nothing but their order
\* holds together.  The store is given as many ids as vectors, each id names
\* the row with the text its vector is of, and a ready document has a row and
\* a vector for every chunk, so that a hit is cited with its own text.
VectorsNameTheirRows ==
  /\ Len(stored.ids) = Len(stored.vectors)
  /\ \A k \in DOMAIN stored.ids :
       stored.ids[k] \in DOMAIN rows /\ rows[stored.ids[k]].content = stored.vectors[k]
  /\ stage = "ready" => rows = chunks /\ Len(stored.vectors) = Len(chunks)
=============================================================================
