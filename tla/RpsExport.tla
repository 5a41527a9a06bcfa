----------------------------- MODULE RpsExport ------------------------------
(***************************************************************************)
(* What the model gets to read of an RPS: document_to_yaml turns the JSON  *)
(* of the converter into blocks (services/rps/yaml_export.py).             *)
(*                                                                         *)
(* A text is its words, whether it is short (CHROME_MAX_CHARS), and what   *)
(* it says of the lecturer: nothing, a name behind a keyword of the        *)
(* template, or the mark that replaced it.  Empty texts, which are         *)
(* dropped, and the writing of YAML itself are left out.  Its words are    *)
(* those outside what the patterns take for a name, which may include      *)
(* capitalised words that follow the name.                                 *)
(***************************************************************************)
EXTENDS Integers, Sequences, FiniteSets, Ranking

CONSTANTS
  SourceDocuments,   \* JSON of documents: [texts, tables]
  MinPages           \* CHROME_MIN_PAGES

\* What the parts of a document are.
SourceText == [words : STRING, short : BOOLEAN, who : {"silent", "named", "redacted"}]

SourceItem == [layer : STRING, label : STRING, text : SourceText, page : Nat]

SourceCell ==
  [row : Nat, column : Nat, holds : {"academic", "admin", "page number"}, text : SourceText]

SourceTable ==
  [layer : STRING, label : STRING, page : Nat, caption : SourceText, cells : Seq(SourceCell)]

ASSUME RpsExportAssumption ==
  /\ MinPages \in Nat \ {0}
  /\ \A doc \in SourceDocuments :
       doc.texts \in Seq(SourceItem) /\ doc.tables \in Seq(SourceTable)

VARIABLES
  source,   \* the document exported last
  blocks    \* what came of it

exportVars == <<source, blocks>>

NothingYet == [texts |-> <<>>, tables |-> <<>>]

ExportInit == source = NothingYet /\ blocks = <<>>

\* _is_page_chrome.
IsPageChrome(item) ==
  item.layer = "furniture" \/ item.label \in {"page_header", "page_footer"}

\* _redact_identity.
RedactIdentity(text) == IF text.who = "named" THEN [text EXCEPT !.who = "redacted"] ELSE text

\* The texts of the body that are short.
ShortTexts(doc) ==
  {i \in DOMAIN doc.texts : ~IsPageChrome(doc.texts[i]) /\ doc.texts[i].text.short}

\* _repeated_chrome_texts: short texts, as they stand, that are on many pages.
RepeatedChromeTexts(doc) ==
  LET pages(text) == {doc.texts[i].page : i \in {j \in ShortTexts(doc) : doc.texts[j].text = text}} IN
  {text \in {doc.texts[i].text : i \in ShortTexts(doc)} : Cardinality(pages(text)) >= MinPages}

HeadingLabels == {"title", "section_header", "subtitle"}

TextBlock(item) ==
  [page |-> item.page, kind |-> IF item.label \in HeadingLabels THEN "heading" ELSE "text",
   text |-> RedactIdentity(item.text)]

\* The texts that remain, in their order.
KeptTexts(doc) ==
  {i \in DOMAIN doc.texts : /\ ~IsPageChrome(doc.texts[i])
                            /\ RedactIdentity(doc.texts[i].text) \notin RepeatedChromeTexts(doc)}

TextBlocks(doc) == Sublist([i \in DOMAIN doc.texts |-> TextBlock(doc.texts[i])], KeptTexts(doc))

\* Mutated: a cell is taken as it stands.
CellTextBare(cell) == cell.text

CellText(cell) == RedactIdentity(cell.text)

Place(cell) == <<cell.row, cell.column>>

\* _table_rows: of the cells at one place the last one counts; page numbers and
\* the rows of the template's head are dropped.
Grid(cells) ==
  LET kept == {i \in DOMAIN cells : cells[i].holds # "page number"} IN
  {cells[i] : i \in {j \in kept : \A k \in kept : Place(cells[k]) = Place(cells[j]) => k <= j}}

RowNumbers(grid) == {cell.row : cell \in grid} \ {cell.row : cell \in {c \in grid : c.holds = "admin"}}

RowOfTable(grid, n) ==
  {[column |-> cell.column, text |-> CellText(cell)] : cell \in {c \in grid : c.row = n}}

TableRows(table) ==
  LET grid == Grid(table.cells)
      numbers == RowNumbers(grid) IN
  [i \in 1 .. Cardinality(numbers) |-> RowOfTable(grid, Ascending(numbers)[i])]

\* The caption is the text it refers to, as it stands.
TableBlock(table) ==
  [page |-> table.page, kind |-> "table", rows |-> TableRows(table), caption |-> table.caption]

\* The tables that remain, in their order.
KeptTables(doc) ==
  {i \in DOMAIN doc.tables : ~IsPageChrome(doc.tables[i]) /\ TableRows(doc.tables[i]) # <<>>}

TableBlocks(doc) == Sublist([i \in DOMAIN doc.tables |-> TableBlock(doc.tables[i])], KeptTables(doc))

\* Mutated: the tables come after all texts.
InReadingOrderUnsorted(list) == list

\* The sort by page, which leaves the blocks of a page in their order.
InReadingOrder(list) ==
  LET before(i, j) == list[i].page < list[j].page \/ (list[i].page = list[j].page /\ i <= j)
      order == Ranked(DOMAIN list, before) IN
  [i \in DOMAIN list |-> list[order[i]]]

DocumentToYaml(doc) == InReadingOrder(TextBlocks(doc) \o TableBlocks(doc))

Export(doc) ==
  /\ source' = doc
  /\ blocks' = DocumentToYaml(doc)

\* One document: what is made of it depends on no other.
ExportNext == source = NothingYet /\ \E doc \in SourceDocuments : Export(doc)

-----------------------------------------------------------------------------
(* Properties.                                                             *)

TextsOf(doc) == {doc.texts[i] : i \in DOMAIN doc.texts}

InBody(x) == x.layer # "furniture" /\ x.label \notin {"page_header", "page_footer"}

\* The pages on which the body of the document shows a text.
ShownOn(doc, text) == {item.page : item \in {x \in TextsOf(doc) : InBody(x) /\ x.text = text}}

\* No name behind a keyword of the template reaches the prompt through a
\* heading, a paragraph or a cell of a table (yaml_export.py, lines 15-19).
NamesStayBehind ==
  \A i \in DOMAIN blocks :
    IF blocks[i].kind = "table"
    THEN \A r \in DOMAIN blocks[i].rows : \A cell \in blocks[i].rows[r] : cell.text.who # "named"
    ELSE blocks[i].text.who # "named"

\* Nothing else is lost: a text of the body that says nothing of the lecturer
\* is among the blocks, on each of its pages, unless it is short and on
\* MinPages pages; every place of a table that holds something academic in the
\* end is there, unless its row is one of the template's head; and the blocks
\* follow the pages.
AcademicTextKept ==
  /\ \A item \in TextsOf(source) :
       /\ item.page \in ShownOn(source, item.text) /\ item.text.who = "silent"
       /\ item.text.short => Cardinality(ShownOn(source, item.text)) < MinPages
       => \E i \in DOMAIN blocks : /\ blocks[i].kind # "table" /\ blocks[i].page = item.page
                                   /\ blocks[i].text = item.text
  /\ \A t \in {source.tables[i] : i \in DOMAIN source.tables} : \A k \in DOMAIN t.cells :
       /\ InBody(t) /\ t.cells[k].holds = "academic"
       /\ \A j \in DOMAIN t.cells :
            /\ j > k => Place(t.cells[j]) # Place(t.cells[k])
            /\ t.cells[j].row = t.cells[k].row => t.cells[j].holds # "admin"
       => \E i \in DOMAIN blocks : /\ blocks[i].kind = "table" /\ blocks[i].page = t.page
                                   /\ \E r \in DOMAIN blocks[i].rows : \E cell \in blocks[i].rows[r] :
                                        cell.column = t.cells[k].column /\ cell.text.words = t.cells[k].text.words
  /\ \A i, j \in DOMAIN blocks : i < j => blocks[i].page <= blocks[j].page
=============================================================================
