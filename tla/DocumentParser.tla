--------------------------- MODULE DocumentParser ---------------------------
(***************************************************************************)
(* From a document to its chunks: app/utils/file_parser.py and the loop of *)
(* index_file over the pages.  A document is a sequence of slides or       *)
(* pages, each a sequence of texts.  A text stands for what the splitter   *)
(* makes one chunk of.                                                     *)
(***************************************************************************)
EXTENDS Integers, Sequences, SequencesExt

None == 0  \* page_number of a text whose page is not known

(* A piece of markdown: a text, or the comment that numbers a slide. *)
IsNumber(piece) == piece[1] = "slide"

(* No text of a document reads like the number of a slide. *)
IsDocument(doc) ==
  /\ doc.slides \in BOOLEAN
  /\ doc.body \in Seq(Range(doc.body))
  /\ \A slide \in Range(doc.body) :
       /\ slide \in Seq(Range(slide))
       /\ \A text \in Range(slide) : ~IsNumber(text)

(* What MarkItDown makes of a document: for a presentation, every slide    *)
(* after the comment with its number, counted from 1; of any other the     *)
(* texts, and not where a page ends.                                       *)
ParseToMarkdown(doc) ==
  IF doc.slides
  THEN FlattenSeq([n \in DOMAIN doc.body |-> <<<<"slide", n>>>> \o doc.body[n]])
  ELSE FlattenSeq(doc.body)

(* re.split keeps what its group matched: text, number, text, ... number,  *)
(* text.                                                                   *)
AddTo(parts, piece) ==
  IF IsNumber(piece)
  THEN parts \o <<piece[2], <<>>>>
  ELSE [parts EXCEPT ![Len(parts)] = Append(@, piece)]

Parts(markdown) ==
  LET upTo[i \in 0..Len(markdown)] ==
        IF i = 0 THEN <<<<>>>> ELSE AddTo(upTo[i - 1], markdown[i])
  IN  upTo[Len(markdown)]

(* The k-th pair of number and text, if it has a text. *)
PageAt(parts, k) ==
  IF parts[2 * k + 1] # <<>>
  THEN <<[number |-> parts[2 * k], text |-> parts[2 * k + 1]]>>
  ELSE <<>>

(* Faulty variant: the loop stops one pair early. *)
SplitOnePairShort(markdown) ==
  LET parts == Parts(markdown)
  IN  FlattenSeq([k \in 1..((Len(parts) - 2) \div 2) |-> PageAt(parts, k)])

(* _split_by_slide_number: the pages of all pairs.                         *)
SplitBySlideNumber(markdown) ==
  LET parts == Parts(markdown)
  IN  FlattenSeq([k \in 1..((Len(parts) - 1) \div 2) |-> PageAt(parts, k)])

(* parse_to_pages *)
ParseToPages(doc) ==
  LET markdown == ParseToMarkdown(doc)
      pages == SplitBySlideNumber(markdown)
  IN  IF doc.slides /\ pages # <<>>
      THEN pages
      ELSE <<[number |-> None, text |-> markdown]>>

(* What the splitter makes of a page. *)
OfPage(page) ==
  [i \in DOMAIN page.text |-> [page |-> page.number, text |-> page.text[i]]]

(* The rows index_file makes, chunk_index counting through all pages.      *)
Chunks(doc) ==
  LET pages == ParseToPages(doc)
      all == FlattenSeq([p \in DOMAIN pages |-> OfPage(pages[p])])
  IN  [i \in DOMAIN all |->
         [index |-> i - 1, page |-> all[i].page, text |-> all[i].text]]

-----------------------------------------------------------------------------
(* Reference: where the i-th text of a document stands. *)
Texts(doc) == FlattenSeq(doc.body)

SlideOf(doc, i) ==
  CHOOSE s \in DOMAIN doc.body :
    /\ i > Len(FlattenSeq(SubSeq(doc.body, 1, s - 1)))
    /\ i <= Len(FlattenSeq(SubSeq(doc.body, 1, s)))

(* Every text of the document is a chunk, in reading order, and no chunk   *)
(* has the number of a page or slide that its text does not stand on.  (A  *)
(* presentation without any text is kept as the comments that number its   *)
(* slides.)                                                                *)
Carries(chunks, doc) ==
  LET texts == Texts(doc)
  IN  texts # <<>> =>
        /\ DOMAIN chunks = DOMAIN texts
        /\ \A i \in DOMAIN texts :
             /\ chunks[i].index = i - 1 /\ chunks[i].text = texts[i]
             /\ chunks[i].page \in {None, SlideOf(doc, i)}

(* The same, and which chunks have a number: those of presentations        *)
(* (file_parser.py:22-26), although file-upload/spec.md:7-20 wants one for *)
(* the pages of a PDF and none for slides.                                 *)
Follows(chunks, doc) ==
  LET texts == Texts(doc)
  IN  texts # <<>> =>
        chunks = [i \in DOMAIN texts |->
                    [index |-> i - 1,
                     page  |-> IF doc.slides THEN SlideOf(doc, i) ELSE None,
                     text  |-> texts[i]]]
=============================================================================
