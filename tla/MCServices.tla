----------------------------- MODULE MCServices -----------------------------
\* Instances of the services for TLC.
EXTENDS Services

CONSTANTS admin, staff, w1, w2, w3

MCFolded == [x \in Usernames |-> "seed"]
MCPolicies == {{admin}}

\* Two tasks of the server and one run of the script.
MCHostOf == [w \in Converters |-> IF w \in Scripts THEN "script" ELSE "server"]

-----------------------------------------------------------------------------
(* Documents: up to three texts, or one and a table of up to three cells.  *)

Silent(words, short) == [words |-> words, short |-> short, who |-> "silent"]
Named == [words |-> "w", short |-> TRUE, who |-> "named"]

Item(layer, label, text, page) ==
  [layer |-> layer, label |-> label, text |-> text, page |-> page]

MCItems ==
  {Item("furniture", "text", Named, 1), Item("body", "page_footer", Silent("v", TRUE), 2),
   Item("body", "section_header", Silent("v", TRUE), 2)}
  \cup {Item("body", "text", text, page) :
          text \in {Named, Silent("v", TRUE), Silent("v", FALSE)}, page \in 1 .. 3}

Cell(row, column, holds, text) ==
  [row |-> row, column |-> column, holds |-> holds, text |-> text]

MCCells ==
  {Cell(r, c, "academic", text) :
     r \in 1 .. 2, c \in 1 .. 2, text \in {Named, Silent("v", TRUE)}}
  \cup {Cell(1, 2, "page number", Silent("v", TRUE)), Cell(2, 1, "admin", Silent("v", TRUE))}

Table(page, cells) ==
  [layer |-> "body", label |-> "table", page |-> page, caption |-> Named, cells |-> cells]

MCSourceDocuments ==
  {[texts |-> t, tables |-> <<>>] : t \in UNION {[1 .. n -> MCItems] : n \in 1 .. 3}}
  \cup {[texts |-> <<t>>, tables |-> <<Table(1, c)>>] :
          t \in MCItems, c \in UNION {[1 .. n -> MCCells] : n \in 1 .. 3}}

-----------------------------------------------------------------------------
(* Analyses and plans of two weeks.                                        *)

MCConfigurations == [{"quiz"} -> BOOLEAN]

Week(n, t) == [week |-> n, type |-> t]
Analysis(declared, weeks) == [named |-> FALSE, declared |-> declared, weeks |-> weeks]

MCAnalyses ==
  {Analysis({}, <<>>), Analysis({"sub1", "sub2"}, <<>>),
   Analysis({}, <<Week(1, "regular")>>), Analysis({"sub1"}, <<Week(1, "uas")>>),
   Analysis({"sub1"}, <<Week(2, "uts"), Week(1, "kuis")>>),
   Analysis({"sub1", "sub2"}, <<Week(1, "regular"), Week(3, "regular")>>),
   Analysis({}, <<Week(1, "regular"), Week(1, "uts")>>)}

MCPlanWeeks ==
  [number : 1 .. 2, topics : BOOLEAN, methods : {TRUE}, outcomes : {{"sub1"}, {"sub2"}},
   activities : {{}, {"quiz", "assignment"}}]
  \cup [number : {0, 1}, topics : {FALSE}, methods : {FALSE}, outcomes : {{}}, activities : {{}}]

MCOutputs == UNION {[1 .. n -> MCPlanWeeks] : n \in 0 .. 2}
=============================================================================
