------------------------ MODULE ContentReview_proofs ------------------------
(***************************************************************************)
(* Proofs about ContentReview.  The copies the consoles write back may be  *)
(* as old as they like: what the proofs need of a copy is that the row has *)
(* once been like it, unless its text was judged or written blindly; both  *)
(* stay true.                                                              *)
(***************************************************************************)
EXTENDS ContentReview, TLAPS

Text == Nat \cup {None}

Content == [week : Weeks, version : Nat, status : Statuses, text : Text]

Past == [past : SUBSET (Text \X Statuses), blind : SUBSET Text]

Place == {"menu", "review", "retrying", "generating", "saving"}

Console ==
  [at : Place, id : Nat \cup Weeks \cup {None},
   copy : Content \cup [id : Nat, row : Content] \cup {None}]

Generation ==
  [at : {"no", "waiting", "calling", "valid", "failed"}, attempt : Nat, text : Text]

\* A text is not validated before it was a draft, not submitted before it was
\* validated, and not approved before it was submitted.
InOrder(past, text) ==
  /\ <<text, "VALIDATED">> \in past => <<text, "DRAFT">> \in past
  /\ <<text, "PENDING_REVIEW">> \in past => <<text, "VALIDATED">> \in past
  /\ <<text, "APPROVED">> \in past => <<text, "PENDING_REVIEW">> \in past

\* The history of a row that is there now.
RowInv(row, b) ==
  /\ <<row.text, row.status>> \in b.past
  /\ \A text \in Text : text \in b.blind \/ InOrder(b.past, text)

TableInv ==
  /\ contents \in Seq(Content)
  /\ been \in Seq(Past)
  /\ Len(been) = Len(contents)
  /\ \A i \in DOMAIN contents : RowInv(contents[i], been[i])

\* A row with this history had this text once.
HadText(text, b) == \E s \in Statuses : <<text, s>> \in b.past

\* A row with this history was once like this copy, unless the text of the copy
\* was judged or written blindly.
WasLike(copy, b) ==
  /\ HadText(copy.text, b)
  /\ copy.text \in b.blind \/ <<copy.text, copy.status>> \in b.past

\* The copy is one that may have been read from the row i.
Reading(row, i) ==
  /\ row \in Content
  /\ i \in DOMAIN contents
  /\ row.week = contents[i].week
  /\ WasLike(row, been[i])

SessionInv(c) ==
  /\ console[c].at \in {"review", "retrying"} =>
       /\ console[c].id \in DOMAIN contents
       /\ Held(c) # None => Reading(Held(c), console[c].id)
  /\ console[c].at = "retrying" => Held(c) # None
  /\ console[c].at = "saving" =>
       /\ console[c].id \in Weeks
       /\ Held(c) # None =>
            /\ Reading(Held(c).row, Held(c).id)
            /\ Held(c).row.week = console[c].id

TypeInv ==
  /\ console \in [Consoles -> Console]
  /\ gen \in [Consoles -> [Weeks -> Generation]]
  /\ result \in [Consoles -> [Weeks -> Text]]
  /\ texts \in Nat

ContentInv ==
  /\ TypeInv
  /\ TableInv
  /\ \A c \in Consoles : SessionInv(c)
  /\ ReportsAreSaved

-----------------------------------------------------------------------------
(* The table only gathers: rows are added, and their past grows.           *)

Grows ==
  /\ DOMAIN contents \subseteq DOMAIN contents'
  /\ \A i \in DOMAIN contents : /\ contents'[i].week = contents[i].week
                                /\ been[i].past \subseteq been'[i].past
                                /\ been[i].blind \subseteq been'[i].blind

LEMMA TableSame ==
  ASSUME UNCHANGED <<contents, been>>
  PROVE  Grows /\ (TableInv => TableInv')
BY DEF Grows, TableInv

LEMMA ReadingStays ==
  ASSUME Grows, NEW row, NEW i, Reading(row, i)
  PROVE  Reading(row, i)'
BY DEF Grows, Reading, WasLike, HadText

\* A copy that is read now is a reading.
LEMMA ReadNow ==
  ASSUME TableInv, NEW i \in DOMAIN contents
  PROVE  /\ i \in Nat /\ contents[i] \in Content /\ contents[i].text \in Text
         /\ RowInv(contents[i], been[i])
         /\ Reading(contents[i], i)
<1>1. i \in Nat /\ contents[i] \in Content /\ RowInv(contents[i], been[i])
  BY DEF TableInv
<1>2. contents[i].text \in Text /\ contents[i].status \in Statuses
  BY <1>1 DEF Content
<1>3. WasLike(contents[i], been[i])
  BY <1>1, <1>2 DEF RowInv, WasLike, HadText
<1> QED
  BY <1>1, <1>2, <1>3 DEF Reading

LEMMA SessionStays ==
  ASSUME Grows, NEW c \in Consoles, SessionInv(c), console'[c] = console[c]
  PROVE  SessionInv(c)'
<1>1. \A row, i : Reading(row, i) => Reading(row, i)'
  BY ReadingStays
<1>2. DOMAIN contents \subseteq DOMAIN contents'
  BY DEF Grows
<1> QED
  BY <1>1, <1>2 DEF SessionInv, Held

\* What the services write is a status the old one may change to, or a new draft.
Writes(old, new) ==
  \/ new.text = old.text /\ new.status \in Allowed[old.status]
  \/ new.status = "DRAFT"

Written(row, old, new) ==
  [f \in DOMAIN new |-> IF new[f] = old[f] THEN row[f] ELSE new[f]]

\* The history after a flush, of a row that is now "to".
Noted(b, row, to, old, new) ==
  [past |-> b.past \cup {<<to.text, to.status>>},
   blind |-> b.blind \cup IF Seen(row, old, new) THEN {} ELSE {to.text, new.text}]

LEMMA WrittenIs ==
  ASSUME NEW row \in Content, NEW old \in Content, NEW new \in Content,
         new.week = old.week
  PROVE  /\ Written(row, old, new) \in Content
         /\ Written(row, old, new).week = row.week
         /\ Written(row, old, new).status = IF new.status = old.status THEN row.status
                                                                       ELSE new.status
         /\ Written(row, old, new).text = IF new.text = old.text THEN row.text ELSE new.text
BY DEF Written, Content

\* What the transitions allow keeps the past of a text in order.
LEMMA AllowedInOrder ==
  ASSUME NEW past, NEW text, InOrder(past, text), NEW from \in Statuses,
         <<text, from>> \in past, NEW target \in Allowed[from] \cup {"DRAFT"}
  PROVE  InOrder(past \cup {<<text, target>>}, text)
BY DEF InOrder, Allowed, Statuses

\* A flush of a copy the row was once like leaves the row with its history in
\* order, and like the new copy.
LEMMA FlushedRow ==
  ASSUME NEW row \in Content, NEW old \in Content, NEW new \in Content, NEW b \in Past,
         new.week = old.week, Writes(old, new), RowInv(row, b), WasLike(old, b),
         NEW to, to = Written(row, old, new),
         NEW then, then = Noted(b, row, to, old, new)
  PROVE  /\ then \in Past
         /\ b.past \subseteq then.past /\ b.blind \subseteq then.blind
         /\ RowInv(to, then)
         /\ WasLike(new, then)
<1>1. /\ to \in Content
      /\ to.status = IF new.status = old.status THEN row.status ELSE new.status
      /\ to.text = IF new.text = old.text THEN row.text ELSE new.text
  BY WrittenIs
<1>2. /\ row.status \in Statuses /\ old.status \in Statuses /\ new.status \in Statuses
      /\ row.text \in Text /\ old.text \in Text /\ new.text \in Text
      /\ to.status \in Statuses /\ to.text \in Text
      /\ b.past \in SUBSET (Text \X Statuses) /\ b.blind \in SUBSET Text
  BY <1>1 DEF Content, Past
<1>3. /\ then.past = b.past \cup {<<to.text, to.status>>}
      /\ then.blind = b.blind \cup IF Seen(row, old, new) THEN {} ELSE {to.text, new.text}
  BY DEF Noted
<1>4. then \in Past
  BY <1>2 DEF Noted, Past
<1>5. b.past \subseteq then.past /\ b.blind \subseteq then.blind
  BY <1>3
<1>6. HadText(new.text, then)
  <2>1. CASE new.text = old.text
    BY <1>5, <2>1 DEF WasLike, HadText
  <2>2. CASE new.text # old.text
    BY <1>1, <1>2, <1>3, <2>2 DEF HadText
  <2> QED
    BY <2>1, <2>2
<1>7. CASE ~Seen(row, old, new)
  <2>1. to.text \in then.blind /\ new.text \in then.blind
    BY <1>3, <1>7
  <2>2. ASSUME NEW text \in Text, text \notin then.blind
        PROVE  InOrder(then.past, text)
    <3>1. text # to.text /\ InOrder(b.past, text)
      BY <1>5, <2>1, <2>2 DEF RowInv
    <3> QED
      BY <1>3, <3>1 DEF InOrder
  <2>3. RowInv(to, then)
    BY <1>3, <2>2 DEF RowInv
  <2> QED
    BY <1>4, <1>5, <1>6, <2>1, <2>3 DEF WasLike
<1>8. CASE Seen(row, old, new)
  <2>1. then.blind = b.blind
    BY <1>3, <1>8
  <2>2. \/ to.text = old.text /\ new.text = old.text
        \/ to.text = new.text /\ new.text # old.text /\ to.status = "DRAFT" /\ new.status = "DRAFT"
    BY <1>1, <1>8 DEF Seen, Writes
  <2>3. to.text = new.text
    BY <2>2
  <2>4. to.text \in b.blind \/ InOrder(then.past, to.text)
    <3>1. SUFFICES ASSUME to.text \notin b.blind
                   PROVE  InOrder(b.past \cup {<<to.text, to.status>>}, to.text)
      BY <1>3
    <3>2. InOrder(b.past, to.text)
      BY <1>2, <3>1 DEF RowInv
    <3>3. CASE to.status = "DRAFT"
      BY <3>2, <3>3 DEF InOrder
    <3>4. CASE to.text = old.text /\ new.text = old.text
      <4>1. <<to.text, old.status>> \in b.past
        BY <3>1, <3>4 DEF WasLike
      <4>2. CASE to.status = new.status
        <5>1. to.status \in Allowed[old.status] \cup {"DRAFT"}
          BY <4>2 DEF Writes
        <5> QED
          BY <1>2, <3>2, <4>1, <5>1, AllowedInOrder
      <4>3. CASE to.status = row.status
        <5>1. <<to.text, to.status>> \in b.past
          BY <1>8, <3>4, <4>3 DEF Seen, RowInv
        <5>2. b.past \cup {<<to.text, to.status>>} = b.past
          BY <5>1
        <5> QED
          BY <3>2, <5>2
      <4> QED
        BY <1>1, <4>2, <4>3
    <3> QED
      BY <2>2, <3>3, <3>4
  <2>5. ASSUME NEW text \in Text, text \notin then.blind
        PROVE  InOrder(then.past, text)
    <3>1. InOrder(b.past, text)
      BY <2>1, <2>5 DEF RowInv
    <3> QED
      BY <1>3, <2>1, <2>4, <2>5, <3>1 DEF InOrder
  <2>6. RowInv(to, then)
    BY <1>3, <2>5 DEF RowInv
  <2>7. new.text \in then.blind \/ <<new.text, new.status>> \in then.past
    <3>1. CASE to.status = new.status
      BY <1>3, <2>3, <3>1
    <3>2. CASE new.status = old.status /\ new.text = old.text
      BY <1>3, <2>1, <3>2 DEF WasLike
    <3> QED
      BY <1>1, <2>2, <3>1, <3>2
  <2> QED
    BY <1>4, <1>5, <1>6, <2>6, <2>7 DEF WasLike
<1> QED
  BY <1>7, <1>8

LEMMA FlushKeeps ==
  ASSUME TableInv, NEW id, NEW old, NEW new \in Content, Reading(old, id),
         new.week = old.week, Writes(old, new), Flush(id, old, new)
  PROVE  TableInv' /\ Grows /\ Reading(new, id)'
<1>1. PICK row, b : row = contents[id] /\ b = been[id]
  OBVIOUS
<1>2. PICK to : to = Written(row, old, new)
  OBVIOUS
<1>3. PICK then : then = Noted(b, row, to, old, new)
  OBVIOUS
<1>4. /\ id \in 1 .. Len(contents) /\ id \in 1 .. Len(been)
      /\ row \in Content /\ b \in Past /\ old \in Content
      /\ RowInv(row, b) /\ WasLike(old, b) /\ old.week = row.week
  BY <1>1 DEF Reading, TableInv
<1>5. to \in Content /\ to.week = row.week
  BY <1>2, <1>4, WrittenIs
<1>6. /\ then \in Past
      /\ b.past \subseteq then.past /\ b.blind \subseteq then.blind
      /\ RowInv(to, then)
      /\ WasLike(new, then)
  BY <1>2, <1>3, <1>4, FlushedRow
<1>7. contents' = [contents EXCEPT ![id] = to] /\ been' = [been EXCEPT ![id] = then]
  <2>1. to = [f \in DOMAIN new |-> IF new[f] = old[f] THEN contents[id][f] ELSE new[f]]
    BY <1>1, <1>2 DEF Written
  <2>2. contents' = [contents EXCEPT ![id] = to]
    BY <2>1 DEF Flush
  <2>3. then = [past |-> been[id].past \cup {<<to.text, to.status>>},
                blind |-> been[id].blind \cup IF Seen(contents[id], old, new) THEN {}
                                              ELSE {to.text, new.text}]
    BY <1>1, <1>3 DEF Noted
  <2>4. been' = [been EXCEPT ![id] = then]
    BY <2>1, <2>3 DEF Flush
  <2> QED
    BY <2>2, <2>4
<1>8. /\ contents' \in Seq(Content) /\ Len(contents') = Len(contents)
      /\ contents'[id] = to
      /\ \A i \in 1 .. Len(contents) : i # id => contents'[i] = contents[i]
  BY <1>4, <1>5, <1>7 DEF TableInv
<1>9. /\ been' \in Seq(Past) /\ Len(been') = Len(been)
      /\ been'[id] = then
      /\ \A i \in 1 .. Len(been) : i # id => been'[i] = been[i]
  BY <1>4, <1>6, <1>7 DEF TableInv
<1>10. /\ DOMAIN contents = 1 .. Len(contents) /\ DOMAIN contents' = 1 .. Len(contents)
       /\ Len(been) = Len(contents)
  BY <1>8 DEF TableInv
<1>11. Grows
  <2>1. ASSUME NEW i \in 1 .. Len(contents)
        PROVE  /\ contents'[i].week = contents[i].week
               /\ been[i].past \subseteq been'[i].past
               /\ been[i].blind \subseteq been'[i].blind
    BY <1>1, <1>5, <1>6, <1>8, <1>9, <1>10
  <2> QED
    BY <1>10, <2>1 DEF Grows
<1>12. TableInv'
  <2>1. \A i \in 1 .. Len(contents) : RowInv(contents'[i], been'[i])
    BY <1>6, <1>8, <1>9, <1>10 DEF TableInv
  <2> QED
    BY <1>8, <1>9, <1>10, <2>1 DEF TableInv
<1>13. Reading(new, id)'
  <2>1. new.week = contents'[id].week /\ WasLike(new, been'[id])
    BY <1>4, <1>5, <1>6, <1>8, <1>9
  <2> QED
    BY <1>4, <1>10, <2>1 DEF Reading
<1> QED
  BY <1>11, <1>12, <1>13

-----------------------------------------------------------------------------
(* What a console does to its own session, generations and reports.        *)

LEMMA ConsoleMoves ==
  ASSUME TypeInv, NEW c \in Consoles, NEW at \in Place,
         NEW copy \in Content \cup [id : Nat, row : Content] \cup {None},
         console' = [console EXCEPT ![c].at = at, ![c].copy = copy]
  PROVE  /\ console' \in [Consoles -> Console]
         /\ console'[c] = [at |-> at, id |-> console[c].id, copy |-> copy]
         /\ \A d \in Consoles \ {c} : console'[d] = console[d]
<1>1. console[c] \in Console /\ console \in [Consoles -> Console]
  BY DEF TypeInv
<1>2. PICK one : one = [console EXCEPT ![c] = [console[c] EXCEPT !.at = at]]
  OBVIOUS
<1>3. one[c] = [at |-> at, id |-> console[c].id, copy |-> console[c].copy]
  BY <1>1, <1>2 DEF Console
<1>4. /\ one \in [Consoles -> Console]
      /\ \A d \in Consoles \ {c} : one[d] = console[d]
  BY <1>1, <1>2, <1>3 DEF Console
<1>5. console' = [one EXCEPT ![c] = [one[c] EXCEPT !.copy = copy]]
  BY <1>1, <1>2
<1>6. [one[c] EXCEPT !.copy = copy] = [at |-> at, id |-> console[c].id, copy |-> copy]
  BY <1>3
<1>7. [at |-> at, id |-> console[c].id, copy |-> copy] \in Console
  BY <1>1 DEF Console
<1>8. PICK to : to = [at |-> at, id |-> console[c].id, copy |-> copy]
  OBVIOUS
<1>9. console' = [one EXCEPT ![c] = to]
  BY <1>5, <1>6, <1>8
<1> QED
  BY <1>4, <1>7, <1>8, <1>9

LEMMA ConsoleBecomes ==
  ASSUME TypeInv, NEW c \in Consoles, NEW to \in Console,
         console' = [console EXCEPT ![c] = to]
  PROVE  /\ console' \in [Consoles -> Console]
         /\ console'[c] = to
         /\ \A d \in Consoles \ {c} : console'[d] = console[d]
BY DEF TypeInv

LEMMA GenMoves ==
  ASSUME TypeInv, NEW c \in Consoles, NEW w \in Weeks, NEW g \in Generation,
         gen' = [gen EXCEPT ![c][w] = g]
  PROVE  gen' \in [Consoles -> [Weeks -> Generation]]
BY DEF TypeInv

LEMMA ResultMoves ==
  ASSUME TypeInv, NEW c \in Consoles, NEW w \in Weeks, NEW text \in Text,
         result' = [result EXCEPT ![c][w] = text]
  PROVE  /\ result' \in [Consoles -> [Weeks -> Text]]
         /\ \A d \in Consoles, v \in Weeks :
              result'[d][v] = IF d = c /\ v = w THEN text ELSE result[d][v]
BY DEF TypeInv

LEMMA Idle ==
  /\ Untried \in Generation
  /\ \A at \in {"waiting", "failed"} : [Untried EXCEPT !.at = at] \in Generation
  /\ \A text \in Text : [Untried EXCEPT !.at = "valid", !.text = text] \in Generation
  /\ [Menu EXCEPT !.at = "generating"] = [at |-> "generating", id |-> None, copy |-> None]
  /\ Menu \in Console /\ [Menu EXCEPT !.at = "generating"] \in Console
<1>1. /\ Untried \in Generation
      /\ \A at \in {"waiting", "failed"} : [Untried EXCEPT !.at = at] \in Generation
  BY DEF Untried, Generation, Text
<1>2. ASSUME NEW text \in Text
      PROVE  [Untried EXCEPT !.at = "valid", !.text = text] \in Generation
  <2>1. PICK one : one = [Untried EXCEPT !.at = "valid"]
    OBVIOUS
  <2>2. one = [at |-> "valid", attempt |-> 0, text |-> None]
    BY <2>1 DEF Untried
  <2>3. [one EXCEPT !.text = text] = [at |-> "valid", attempt |-> 0, text |-> text]
    BY <2>2
  <2>4. [Untried EXCEPT !.at = "valid", !.text = text] = [one EXCEPT !.text = text]
    BY <2>1 DEF Untried
  <2>5. [at |-> "valid", attempt |-> 0, text |-> text] \in Generation
    BY DEF Generation
  <2> QED
    BY <2>3, <2>4, <2>5
<1>3. [Menu EXCEPT !.at = "generating"] = [at |-> "generating", id |-> None, copy |-> None]
  BY DEF Menu
<1>4. Menu \in Console
  BY DEF Menu, Console, Place
<1>5. [Menu EXCEPT !.at = "generating"] \in Console
  BY <1>3 DEF Console, Place
<1> QED
  BY <1>1, <1>2, <1>3, <1>4, <1>5

\* What is reported anew has been written.
Told ==
  \A d \in Consoles, w \in Weeks :
    \/ result'[d][w] \in {None, result[d][w]}
    \/ \E i \in DOMAIN contents' : contents'[i].week = w /\ HadText(result'[d][w], been'[i])

\* What a step of the console c keeps.
Kept(c) ==
  /\ TypeInv' /\ Grows /\ TableInv'
  /\ SessionInv(c)'
  /\ \A d \in Consoles \ {c} : console'[d] = console[d]
  /\ Told

LEMMA KeptKeeps ==
  ASSUME ContentInv, NEW c \in Consoles, Kept(c)
  PROVE  ContentInv'
<1>1. \A d \in Consoles : SessionInv(d)'
  BY SessionStays DEF Kept, ContentInv
<1>2. ASSUME NEW d \in Consoles, NEW w \in Weeks, result'[d][w] # None
      PROVE  \E i \in DOMAIN contents' :
               contents'[i].week = w /\ HadText(result'[d][w], been'[i])
  <2>1. CASE result'[d][w] = result[d][w]
    <3>1. PICK i \in DOMAIN contents :
            contents[i].week = w /\ HadText(result[d][w], been[i])
      BY <1>2, <2>1 DEF ContentInv, ReportsAreSaved, HadText
    <3> QED
      BY <2>1, <3>1 DEF Kept, Grows, HadText
  <2> QED
    BY <1>2, <2>1 DEF Kept, Told
<1>3. ReportsAreSaved'
  BY <1>2 DEF ReportsAreSaved, HadText
<1> QED
  BY <1>1, <1>3 DEF Kept, ContentInv

\* A step that neither writes a row nor reports a week.
LEMMA QuietKept ==
  ASSUME ContentInv, NEW c \in Consoles, UNCHANGED <<contents, been, result>>,
         console' \in [Consoles -> Console], gen' \in [Consoles -> [Weeks -> Generation]],
         texts' \in Nat,
         SessionInv(c)', \A d \in Consoles \ {c} : console'[d] = console[d]
  PROVE  Kept(c)
<1>1. Grows /\ TableInv'
  BY TableSame DEF ContentInv
<1>2. TypeInv'
  BY DEF TypeInv, ContentInv
<1>3. Told
  BY DEF Told
<1> QED
  BY <1>1, <1>2, <1>3 DEF Kept

LEMMA SessionSame ==
  ASSUME ContentInv, NEW c \in Consoles, UNCHANGED <<contents, been, console>>
  PROVE  SessionInv(c)' /\ \A d \in Consoles \ {c} : console'[d] = console[d]
<1>1. Grows
  BY TableSame
<1> QED
  BY <1>1, SessionStays DEF ContentInv

-----------------------------------------------------------------------------
(* The actions.                                                            *)

LEMMA ForgetKept ==
  ASSUME ContentInv, NEW c \in Consoles, console[c].at \in {"review", "retrying"},
         Forget(c), UNCHANGED <<contents, been, result, texts>>,
         gen' \in [Consoles -> [Weeks -> Generation]]
  PROVE  Kept(c)
<1>1. /\ console' \in [Consoles -> Console]
      /\ console'[c] = [at |-> "review", id |-> console[c].id, copy |-> None]
      /\ \A d \in Consoles \ {c} : console'[d] = console[d]
  BY ConsoleMoves DEF Forget, ContentInv, Place
<1>2. SessionInv(c)'
  BY <1>1 DEF SessionInv, ContentInv, Held
<1>3. texts' \in Nat
  BY DEF ContentInv, TypeInv
<1> QED
  BY <1>1, <1>2, <1>3, QuietKept

LEMMA OpenKept ==
  ASSUME ContentInv, NEW c \in Consoles, NEW id \in DOMAIN contents, OpenReview(c, id)
  PROVE  Kept(c)
<1>1. [at |-> "review", id |-> id, copy |-> None] \in Console
  BY DEF Console, Place, ContentInv, TableInv
<1>2. /\ console' \in [Consoles -> Console]
      /\ console'[c] = [at |-> "review", id |-> id, copy |-> None]
      /\ \A d \in Consoles \ {c} : console'[d] = console[d]
  BY <1>1, ConsoleBecomes DEF OpenReview, ContentInv
<1>3. SessionInv(c)'
  BY <1>2 DEF SessionInv, Held, OpenReview
<1> QED
  BY <1>2, <1>3, QuietKept DEF OpenReview, ContentInv, TypeInv

LEMMA MenuKept ==
  ASSUME ContentInv, NEW c \in Consoles,
         NEW to \in {Menu, [Menu EXCEPT !.at = "generating"]},
         console' = [console EXCEPT ![c] = to],
         UNCHANGED <<contents, been, texts>>,
         gen' \in [Consoles -> [Weeks -> Generation]],
         result' \in [Consoles -> [Weeks -> Text]],
         \A d \in Consoles, w \in Weeks : result'[d][w] \in {None, result[d][w]}
  PROVE  Kept(c)
<1>1. /\ console' \in [Consoles -> Console]
      /\ console'[c] = to
      /\ \A d \in Consoles \ {c} : console'[d] = console[d]
  BY ConsoleBecomes, Idle DEF ContentInv
<1>2. to.at \in {"menu", "generating"}
  <2>1. CASE to = Menu
    BY <2>1 DEF Menu
  <2>2. CASE to = [Menu EXCEPT !.at = "generating"]
    BY <2>2, Idle
  <2> QED
    BY <2>1, <2>2
<1>3. SessionInv(c)'
  BY <1>1, <1>2 DEF SessionInv, Held
<1>4. Grows /\ TableInv'
  BY TableSame DEF ContentInv
<1>5. TypeInv'
  BY <1>1 DEF TypeInv, ContentInv
<1> QED
  BY <1>1, <1>3, <1>4, <1>5 DEF Kept, Told

LEMMA GetContentKept ==
  ASSUME ContentInv, NEW c \in Consoles, GetContent(c)
  PROVE  Kept(c)
<1>0. PICK row, id : row = contents[console[c].id] /\ id = console[c].id
  OBVIOUS
<1>1. row \in Content /\ Reading(row, id)
  BY <1>0, ReadNow DEF GetContent, ContentInv, SessionInv
<1>2. console' = [console EXCEPT ![c].at = "review", ![c].copy = row]
  BY <1>0 DEF GetContent, ContentInv, TypeInv, Console
<1>3. /\ console' \in [Consoles -> Console]
      /\ console'[c] = [at |-> "review", id |-> console[c].id, copy |-> row]
      /\ \A d \in Consoles \ {c} : console'[d] = console[d]
  BY <1>1, <1>2, ConsoleMoves DEF ContentInv, Place
<1>4. Reading(row, id)'
  BY <1>1, TableSame, ReadingStays DEF GetContent
<1>5. SessionInv(c)'
  BY <1>0, <1>3, <1>4 DEF SessionInv, Held, Reading, GetContent
<1> QED
  BY <1>3, <1>5, QuietKept DEF GetContent, ContentInv, TypeInv

LEMMA UpdateStatusKept ==
  ASSUME ContentInv, NEW c \in Consoles, NEW target \in Statuses, UpdateStatus(c, target)
  PROVE  Kept(c)
<1>1. /\ Held(c) # None /\ Reading(Held(c), console[c].id)
      /\ Held(c) \in Content
  BY DEF UpdateStatus, ContentInv, SessionInv, Reading
<1>2. CASE /\ target \in Allowed[Held(c).status]
           /\ LET new == [Held(c) EXCEPT !.status = target] IN
                /\ Flush(console[c].id, Held(c), new)
                /\ console' = [console EXCEPT ![c].copy = new]
           /\ UNCHANGED <<gen, result, texts, failures>>
  <2>1. PICK new : new = [Held(c) EXCEPT !.status = target]
    OBVIOUS
  <2>2. /\ new \in Content /\ new.week = Held(c).week /\ new.status = target
    BY <1>1, <2>1 DEF Content
  <2>3. Flush(console[c].id, Held(c), new) /\ console' = [console EXCEPT ![c].copy = new]
    BY <1>2, <2>1
  <2>4. Writes(Held(c), new)
    BY <1>1, <1>2, <2>1, <2>2 DEF Writes, Content
  <2>5. TableInv' /\ Grows /\ Reading(new, console[c].id)'
    BY <1>1, <2>2, <2>3, <2>4, FlushKeeps DEF ContentInv
  <2>6. console' = [console EXCEPT ![c].at = "review", ![c].copy = new]
    BY <2>3 DEF UpdateStatus, ContentInv, TypeInv, Console
  <2>7. /\ console' \in [Consoles -> Console]
        /\ console'[c] = [at |-> "review", id |-> console[c].id, copy |-> new]
        /\ \A d \in Consoles \ {c} : console'[d] = console[d]
    BY <2>2, <2>6, ConsoleMoves DEF ContentInv, Place
  <2>8. SessionInv(c)'
    BY <2>5, <2>7 DEF SessionInv, Held, Reading
  <2> QED
    BY <1>2, <2>5, <2>7, <2>8 DEF Kept, ContentInv, TypeInv, Told
<1>3. CASE Refused(c)
  BY <1>3, ForgetKept DEF UpdateStatus, Refused, ContentInv, TypeInv
<1> QED
  BY <1>2, <1>3 DEF UpdateStatus

LEMMA RetryContentKept ==
  ASSUME ContentInv, NEW c \in Consoles, RetryContent(c)
  PROVE  Kept(c)
<1>1. /\ Held(c) # None /\ Reading(Held(c), console[c].id)
      /\ Held(c) \in Content /\ Held(c).week \in Weeks
  BY DEF RetryContent, ContentInv, SessionInv, Reading, Content
<1>2. CASE /\ console' = [console EXCEPT ![c].at = "retrying"]
           /\ gen' = [gen EXCEPT ![c][Held(c).week].at = "waiting"]
           /\ UNCHANGED <<contents, been, result, texts, failures>>
  <2>1. console' = [console EXCEPT ![c].at = "retrying", ![c].copy = Held(c)]
    BY <1>2 DEF Held, ContentInv, TypeInv, Console
  <2>2. /\ console' \in [Consoles -> Console]
        /\ console'[c] = [at |-> "retrying", id |-> console[c].id, copy |-> Held(c)]
        /\ \A d \in Consoles \ {c} : console'[d] = console[d]
    BY <1>1, <2>1, ConsoleMoves DEF ContentInv, Place
  <2>3. PICK g : g = [gen[c][Held(c).week] EXCEPT !.at = "waiting"]
    OBVIOUS
  <2>4. g \in Generation /\ gen' = [gen EXCEPT ![c][Held(c).week] = g]
    <3>1. gen[c][Held(c).week] \in Generation
      BY <1>1 DEF ContentInv, TypeInv
    <3>2. g \in Generation
      BY <2>3, <3>1 DEF Generation
    <3> QED
      BY <1>1, <1>2, <2>3, <3>2 DEF ContentInv, TypeInv
  <2>5. gen' \in [Consoles -> [Weeks -> Generation]]
    BY <1>1, <2>4, GenMoves DEF ContentInv
  <2>6. PICK row, id : row = Held(c) /\ id = console[c].id
    OBVIOUS
  <2>7. Reading(row, id)'
    BY <1>1, <1>2, <2>6, TableSame, ReadingStays
  <2>8. SessionInv(c)'
    BY <1>1, <2>2, <2>6, <2>7 DEF SessionInv, Held, Reading
  <2> QED
    BY <1>2, <2>2, <2>5, <2>8, QuietKept DEF ContentInv, TypeInv
<1>3. CASE Refused(c)
  BY <1>3, ForgetKept DEF RetryContent, Refused, ContentInv, TypeInv
<1> QED
  BY <1>2, <1>3 DEF RetryContent

LEMMA OverwrittenIs ==
  ASSUME NEW row \in Content, NEW text \in Text
  PROVE  /\ Overwritten(row, text) \in Content
         /\ Overwritten(row, text).week = row.week
         /\ Overwritten(row, text).status = "DRAFT"
         /\ Overwritten(row, text).text = text
<1>1. PICK one : one = [row EXCEPT !.text = text]
  OBVIOUS
<1>2. one \in Content /\ one.week = row.week /\ one.text = text
  BY <1>1 DEF Content
<1>3. PICK two : two = [one EXCEPT !.version = @ + 1]
  OBVIOUS
<1>4. two \in Content /\ two.week = row.week /\ two.text = text
  BY <1>2, <1>3 DEF Content
<1>5. PICK three : three = [two EXCEPT !.status = "DRAFT"]
  OBVIOUS
<1>6. three \in Content /\ three.week = row.week /\ three.text = text /\ three.status = "DRAFT"
  BY <1>4, <1>5 DEF Content, Statuses
<1>7. Overwritten(row, text) = three
  BY <1>1, <1>3, <1>5 DEF Overwritten, Content
<1> QED
  BY <1>6, <1>7

LEMMA OverwriteWrites ==
  ASSUME ContentInv, NEW id, NEW row, NEW text \in Text, Reading(row, id),
         Flush(id, row, Overwritten(row, text))
  PROVE  TableInv' /\ Grows /\ Reading(Overwritten(row, text), id)'
<1>1. PICK new : new = Overwritten(row, text)
  OBVIOUS
<1>2. new \in Content /\ new.week = row.week /\ new.status = "DRAFT"
  BY <1>1, OverwrittenIs DEF Reading
<1>3. TableInv' /\ Grows /\ Reading(new, id)'
  BY <1>1, <1>2, FlushKeeps DEF ContentInv, Writes
<1> QED
  BY <1>1, <1>3

LEMMA RetryEndsKept ==
  ASSUME ContentInv, NEW c \in Consoles, RetryEnds(c)
  PROVE  Kept(c)
<1> DEFINE g == gen[c][Held(c).week]
<1>1. /\ Held(c) # None /\ Reading(Held(c), console[c].id)
      /\ Held(c) \in Content /\ Held(c).week \in Weeks
  BY DEF RetryEnds, ContentInv, SessionInv, Reading, Content
<1>2. g.text \in Text
  BY <1>1 DEF ContentInv, TypeInv, Generation
<1>3. gen' \in [Consoles -> [Weeks -> Generation]]
  BY <1>1, Idle, GenMoves DEF RetryEnds, ContentInv
<1>4. CASE /\ LET new == Overwritten(Held(c), g.text) IN
                /\ Flush(console[c].id, Held(c), new)
                /\ console' = [console EXCEPT ![c].at = "review", ![c].copy = new]
           /\ UNCHANGED <<result, texts, failures>>
  <2>1. PICK new, id, text : /\ text = g.text
                             /\ new = Overwritten(Held(c), text)
                             /\ id = console[c].id
    OBVIOUS
  <2>2. TableInv' /\ Grows /\ Reading(new, id)'
    BY <1>1, <1>2, <1>4, <2>1, OverwriteWrites
  <2>3. new \in Content
    BY <1>1, <1>2, <2>1, OverwrittenIs
  <2>4. /\ console' \in [Consoles -> Console]
        /\ console'[c] = [at |-> "review", id |-> id, copy |-> new]
        /\ \A d \in Consoles \ {c} : console'[d] = console[d]
    BY <1>4, <2>1, <2>3, ConsoleMoves DEF ContentInv, Place
  <2>5. SessionInv(c)'
    BY <2>2, <2>4 DEF SessionInv, Held, Reading
  <2> QED
    BY <1>3, <1>4, <2>2, <2>4, <2>5 DEF Kept, ContentInv, TypeInv, Told
<1>5. CASE Forget(c) /\ UNCHANGED <<contents, been, result, texts>>
  BY <1>3, <1>5, ForgetKept DEF RetryEnds
<1> QED
  BY <1>4, <1>5 DEF RetryEnds

LEMMA AdvanceKept ==
  ASSUME ContentInv, NEW c \in Consoles, NEW w \in Weeks, NEW g \in Generation,
         Advance(c, w, g), texts' \in Nat
  PROVE  Kept(c)
<1>1. SessionInv(c)' /\ \A d \in Consoles \ {c} : console'[d] = console[d]
  BY SessionSame DEF Advance
<1>2. gen' \in [Consoles -> [Weeks -> Generation]]
  BY GenMoves DEF Advance, ContentInv
<1> QED
  BY <1>1, <1>2, QuietKept DEF Advance, ContentInv, TypeInv

LEMMA CallKept ==
  ASSUME ContentInv, NEW c \in Consoles, NEW w \in Weeks,
         \/ GenerationStarts(c, w) \/ ProviderFails(c, w)
         \/ OutputValid(c, w) \/ OutputInvalid(c, w)
  PROVE  Kept(c)
<1>1. gen[c][w] \in Generation /\ texts \in Nat
  BY DEF ContentInv, TypeInv
<1>2. CASE GenerationStarts(c, w)
  <2>1. [at |-> "calling", attempt |-> 1, text |-> gen[c][w].text] \in Generation
    BY <1>1 DEF Generation
  <2>2. [gen[c][w] EXCEPT !.at = "calling", !.attempt = 1]
        = [at |-> "calling", attempt |-> 1, text |-> gen[c][w].text]
    <3>1. PICK one : one = [gen[c][w] EXCEPT !.at = "calling"]
      OBVIOUS
    <3>2. one = [at |-> "calling", attempt |-> gen[c][w].attempt, text |-> gen[c][w].text]
      BY <1>1, <3>1 DEF Generation
    <3>3. [gen[c][w] EXCEPT !.at = "calling", !.attempt = 1] = [one EXCEPT !.attempt = 1]
      BY <1>1, <3>1 DEF Generation
    <3> QED
      BY <3>2, <3>3
  <2> QED
    BY <1>1, <1>2, <2>1, <2>2, AdvanceKept DEF GenerationStarts
<1>3. CASE ProviderFails(c, w)
  BY <1>1, <1>3, Idle, AdvanceKept DEF ProviderFails
<1>4. CASE OutputValid(c, w)
  <2>1. texts + 1 \in Text /\ texts' \in Nat
    BY <1>1, <1>4 DEF OutputValid, Text
  <2>2. [Untried EXCEPT !.at = "valid", !.text = texts + 1] \in Generation
    BY <2>1, Idle
  <2> QED
    BY <1>4, <2>1, <2>2, AdvanceKept DEF OutputValid
<1>5. CASE OutputInvalid(c, w)
  <2>1. [gen[c][w] EXCEPT !.attempt = @ + 1] \in Generation
    BY <1>1 DEF Generation
  <2> QED
    BY <1>1, <1>5, <2>1, Idle, AdvanceKept DEF OutputInvalid
<1> QED
  BY <1>2, <1>3, <1>4, <1>5

\* A week that is reported leaves the generation.
LEMMA ReportMoves ==
  ASSUME ContentInv, NEW c \in Consoles, NEW w \in Weeks, NEW text \in Text, Report(c, w, text)
  PROVE  /\ gen' \in [Consoles -> [Weeks -> Generation]]
         /\ result' \in [Consoles -> [Weeks -> Text]]
         /\ \A d \in Consoles, v \in Weeks :
              result'[d][v] = IF d = c /\ v = w THEN text ELSE result[d][v]
<1>1. TypeInv /\ Untried \in Generation
  BY Idle DEF ContentInv
<1>2. gen' \in [Consoles -> [Weeks -> Generation]]
  BY <1>1, GenMoves DEF Report
<1>3. result' = [result EXCEPT ![c][w] = text]
  BY DEF Report
<1> QED
  BY <1>1, <1>2, <1>3, ResultMoves

LEMMA UnsavedKept ==
  ASSUME ContentInv, NEW c \in Consoles, SaveFails(c) \/ KeepApproved(c)
  PROVE  Kept(c)
<1>1. PICK w \in Weeks : w = console[c].id
  BY DEF SaveFails, KeepApproved, ContentInv, SessionInv
<1>2. /\ gen' \in [Consoles -> [Weeks -> Generation]]
      /\ result' \in [Consoles -> [Weeks -> Text]]
      /\ \A d \in Consoles, v \in Weeks : result'[d][v] \in {None, result[d][v]}
  BY <1>1, ReportMoves DEF SaveFails, KeepApproved, Text
<1> QED
  BY <1>2, MenuKept DEF SaveFails, KeepApproved

LEMMA FindExistingKept ==
  ASSUME ContentInv, NEW c \in Consoles, NEW w \in Weeks, FindExisting(c, w)
  PROVE  Kept(c)
<1>1. gen' \in [Consoles -> [Weeks -> Generation]] /\ texts' \in Nat
  BY DEF FindExisting, ContentInv, TypeInv
<1>2. CASE console' = [console EXCEPT ![c] = [at |-> "saving", id |-> w, copy |-> None]]
  <2>1. PICK to : to = [at |-> "saving", id |-> w, copy |-> None]
    OBVIOUS
  <2>2. to \in Console
    BY <2>1 DEF Console, Place
  <2>3. /\ console' \in [Consoles -> Console]
        /\ console'[c] = to
        /\ \A d \in Consoles \ {c} : console'[d] = console[d]
    BY <1>2, <2>1, <2>2, ConsoleBecomes DEF ContentInv
  <2>4. SessionInv(c)'
    BY <2>1, <2>3 DEF SessionInv, Held
  <2> QED
    BY <1>1, <2>3, <2>4, QuietKept DEF FindExisting
<1>3. ASSUME NEW i \in LatestOf(w),
             console' = [console EXCEPT ![c] = [at |-> "saving", id |-> w,
                                                copy |-> [id |-> i, row |-> contents[i]]]]
      PROVE  Kept(c)
  <2>1. PICK row, to : /\ row = contents[i]
                       /\ to = [at |-> "saving", id |-> w, copy |-> [id |-> i, row |-> row]]
    OBVIOUS
  <2>2. i \in DOMAIN contents /\ i \in Nat /\ row \in Content /\ row.week = w
    BY <2>1 DEF LatestOf, ContentInv, TableInv
  <2>3. Reading(row, i)
    BY <2>1, <2>2, ReadNow DEF ContentInv
  <2>4. Reading(row, i)'
    BY <2>3, TableSame, ReadingStays DEF FindExisting
  <2>5. to \in Console
    BY <2>1, <2>2 DEF Console, Place
  <2>6. /\ console' \in [Consoles -> Console]
        /\ console'[c] = to
        /\ \A d \in Consoles \ {c} : console'[d] = console[d]
    BY <1>3, <2>1, <2>5, ConsoleBecomes DEF ContentInv
  <2>7. SessionInv(c)'
    BY <2>1, <2>2, <2>4, <2>6 DEF SessionInv, Held
  <2> QED
    BY <1>1, <2>6, <2>7, QuietKept DEF FindExisting
<1> QED
  BY <1>2, <1>3 DEF FindExisting

LEMMA CreateKept ==
  ASSUME ContentInv, NEW c \in Consoles, Create(c)
  PROVE  Kept(c)
<1>1. PICK w \in Weeks, text \in Text : w = console[c].id /\ text = gen[c][w].text
  BY DEF Create, ContentInv, SessionInv, TypeInv, Generation
<1>2. PICK row, past : /\ row = [week |-> w, version |-> 1, status |-> "DRAFT", text |-> text]
                       /\ past = [past |-> {<<text, "DRAFT">>}, blind |-> {}]
  OBVIOUS
<1>3. row \in Content /\ past \in Past /\ RowInv(row, past) /\ HadText(text, past)
  BY <1>2 DEF Content, Past, Statuses, RowInv, InOrder, HadText
<1>4. contents' = Append(contents, row) /\ been' = Append(been, past)
  BY <1>1, <1>2 DEF Create
<1>5. /\ contents' \in Seq(Content) /\ been' \in Seq(Past)
      /\ DOMAIN contents = 1 .. Len(contents)
      /\ DOMAIN contents' = 1 .. Len(contents) + 1
      /\ Len(been') = Len(contents')
      /\ contents'[Len(contents) + 1] = row /\ been'[Len(contents) + 1] = past
      /\ \A i \in 1 .. Len(contents) : contents'[i] = contents[i] /\ been'[i] = been[i]
      /\ Len(contents) \in Nat
  BY <1>3, <1>4 DEF ContentInv, TableInv
<1>6. Grows
  BY <1>5 DEF Grows
<1>7. TableInv'
  <2>1. ASSUME NEW i \in DOMAIN contents'
        PROVE  RowInv(contents'[i], been'[i])
    <3>1. CASE i = Len(contents) + 1
      BY <1>3, <1>5, <3>1
    <3>2. CASE i \in 1 .. Len(contents)
      BY <1>5, <3>2 DEF ContentInv, TableInv
    <3> QED
      BY <1>5, <3>1, <3>2
  <2> QED
    BY <1>5, <2>1 DEF TableInv
<1>8. /\ gen' \in [Consoles -> [Weeks -> Generation]]
      /\ result' \in [Consoles -> [Weeks -> Text]]
      /\ \A d \in Consoles, v \in Weeks :
           result'[d][v] = IF d = c /\ v = w THEN text ELSE result[d][v]
  BY <1>1, ReportMoves DEF Create
<1>9. Told
  BY <1>2, <1>3, <1>5, <1>8 DEF Told
<1>10. PICK to : to = [Menu EXCEPT !.at = "generating"]
  OBVIOUS
<1>11. /\ console' \in [Consoles -> Console]
       /\ console'[c] = to
       /\ \A d \in Consoles \ {c} : console'[d] = console[d]
  BY <1>10, Idle, ConsoleBecomes DEF Create, ContentInv
<1>12. SessionInv(c)'
  BY <1>10, <1>11, Idle DEF SessionInv
<1>13. TypeInv'
  BY <1>8, <1>11 DEF Create, TypeInv, ContentInv
<1> QED
  BY <1>6, <1>7, <1>9, <1>11, <1>12, <1>13 DEF Kept

LEMMA OverwriteKept ==
  ASSUME ContentInv, NEW c \in Consoles, Overwrite(c)
  PROVE  Kept(c)
<1>1. PICK w \in Weeks, text \in Text : w = console[c].id /\ text = gen[c][w].text
  BY DEF Overwrite, ContentInv, SessionInv, TypeInv, Generation
<1>2. PICK row, id : row = Held(c).row /\ id = Held(c).id
  OBVIOUS
<1>3. Reading(row, id) /\ row.week = w /\ row \in Content
  BY <1>1, <1>2 DEF Overwrite, ContentInv, SessionInv, Reading
<1>4. PICK new : new = Overwritten(row, text)
  OBVIOUS
<1>5. new.week = w /\ new.text = text
  BY <1>3, <1>4, OverwrittenIs
<1>6. TableInv' /\ Grows /\ Reading(new, id)'
  BY <1>1, <1>2, <1>3, <1>4, OverwriteWrites DEF Overwrite
<1>7. /\ gen' \in [Consoles -> [Weeks -> Generation]]
      /\ result' \in [Consoles -> [Weeks -> Text]]
      /\ \A d \in Consoles, v \in Weeks :
           result'[d][v] = IF d = c /\ v = w THEN text ELSE result[d][v]
  BY <1>1, ReportMoves DEF Overwrite
<1>8. Told
  BY <1>5, <1>6, <1>7 DEF Told, Reading, WasLike
<1>9. PICK to : to = [Menu EXCEPT !.at = "generating"]
  OBVIOUS
<1>10. /\ console' \in [Consoles -> Console]
       /\ console'[c] = to
       /\ \A d \in Consoles \ {c} : console'[d] = console[d]
  BY <1>9, Idle, ConsoleBecomes DEF Overwrite, ContentInv
<1>11. SessionInv(c)'
  BY <1>9, <1>10, Idle DEF SessionInv
<1>12. TypeInv'
  BY <1>7, <1>10 DEF Overwrite, TypeInv, ContentInv
<1> QED
  BY <1>6, <1>8, <1>10, <1>11, <1>12 DEF Kept

LEMMA RunKept ==
  ASSUME ContentInv, NEW c \in Consoles, NEW weeks,
         \/ GenerateContents(c, weeks) \/ GenerationBreaks(c)
         \/ GenerationEnds(c) \/ CloseReview(c)
  PROVE  Kept(c)
<1>1. CASE GenerateContents(c, weeks)
  <2>1. PICK started : started = [w \in Weeks |->
          IF w \in weeks THEN [Untried EXCEPT !.at = "waiting"] ELSE Untried]
    OBVIOUS
  <2>2. started \in [Weeks -> Generation]
    BY <2>1, Idle
  <2>3. gen' \in [Consoles -> [Weeks -> Generation]]
    BY <1>1, <2>1, <2>2 DEF GenerateContents, ContentInv, TypeInv
  <2>4. console' = [console EXCEPT ![c] = [Menu EXCEPT !.at = "generating"]]
    <3>1. console' = [console EXCEPT ![c] = [console[c] EXCEPT !.at = "generating"]]
      BY <1>1 DEF GenerateContents, ContentInv, TypeInv
    <3> QED
      BY <1>1, <3>1 DEF GenerateContents
  <2> QED
    BY <1>1, <2>3, <2>4, MenuKept DEF GenerateContents, ContentInv, TypeInv
<1>2. CASE GenerationBreaks(c)
  <2>1. PICK idle : idle = [w \in Weeks |-> Untried]
    OBVIOUS
  <2>2. idle \in [Weeks -> Generation]
    BY <2>1, Idle
  <2>3. gen' \in [Consoles -> [Weeks -> Generation]]
    BY <1>2, <2>1, <2>2 DEF GenerationBreaks, ContentInv, TypeInv
  <2> QED
    BY <1>2, <2>3, MenuKept DEF GenerationBreaks, ContentInv, TypeInv
<1>3. CASE GenerationEnds(c)
  <2>1. PICK idle, none : idle = [w \in Weeks |-> Untried] /\ none = [w \in Weeks |-> None]
    OBVIOUS
  <2>2. idle \in [Weeks -> Generation] /\ none \in [Weeks -> Text]
    BY <2>1, Idle DEF Text
  <2>3. gen' = [gen EXCEPT ![c] = idle] /\ result' = [result EXCEPT ![c] = none]
    BY <1>3, <2>1 DEF GenerationEnds
  <2>4. /\ gen' \in [Consoles -> [Weeks -> Generation]]
        /\ result' \in [Consoles -> [Weeks -> Text]]
        /\ \A d \in Consoles, w \in Weeks : result'[d][w] \in {None, result[d][w]}
    BY <2>1, <2>2, <2>3 DEF ContentInv, TypeInv
  <2> QED
    BY <1>3, <2>4, MenuKept DEF GenerationEnds
<1>4. CASE CloseReview(c)
  BY <1>4, MenuKept DEF CloseReview, ContentInv, TypeInv
<1> QED
  BY <1>1, <1>2, <1>3, <1>4

-----------------------------------------------------------------------------
(* The theorems.                                                           *)

LEMMA InitKept ==
  ASSUME Init
  PROVE  ContentInv
<1>1. TypeInv
  BY Idle DEF Init, TypeInv, Text
<1>2. TableInv
  BY DEF Init, TableInv
<1>3. \A c \in Consoles : SessionInv(c)
  BY DEF Init, SessionInv, Menu
<1>4. ReportsAreSaved
  BY DEF Init, ReportsAreSaved
<1> QED
  BY <1>1, <1>2, <1>3, <1>4 DEF ContentInv

LEMMA NextKept ==
  ASSUME ContentInv, [ContentNext]_vars
  PROVE  ContentInv'
<1>1. CASE UNCHANGED vars
  <2>1. Grows /\ TableInv'
    BY <1>1, TableSame DEF vars, ContentInv
  <2>2. \A c \in Consoles : SessionInv(c)'
    BY <1>1, <2>1, SessionStays DEF vars, ContentInv
  <2> QED
    BY <1>1, <2>1, <2>2 DEF vars, ContentInv, TypeInv, ReportsAreSaved
<1>2. ASSUME NEW c \in Consoles, Choose(c)
      PROVE  Kept(c)
  <2>1. {"VALIDATED", "PENDING_REVIEW", "APPROVED", "REJECTED"} \subseteq Statuses
    BY DEF Statuses
  <2>2. CASE ValidateContent(c) \/ SubmitForReview(c) \/ ApproveContent(c) \/ RejectContent(c)
    BY <2>1, <2>2, UpdateStatusKept
       DEF ValidateContent, SubmitForReview, ApproveContent, RejectContent
  <2> QED
    BY <1>2, <2>2, RunKept, OpenKept, GetContentKept, RetryContentKept DEF Choose
<1>3. ASSUME NEW c \in Consoles, Generate(c)
      PROVE  Kept(c)
  BY <1>3, CallKept, FindExistingKept, UnsavedKept, CreateKept,
     OverwriteKept, RunKept, RetryEndsKept DEF Generate
<1>4. CASE ContentNext
  BY <1>2, <1>3, <1>4, RunKept, KeptKeeps DEF ContentNext
<1> QED
  BY <1>1, <1>4

LEMMA ContentInvariant == ContentSpec => []ContentInv
<1>1. Init => ContentInv
  BY InitKept
<1>2. ContentInv /\ [ContentNext]_vars => ContentInv'
  BY NextKept
<1> QED
  BY <1>1, <1>2, PTL DEF ContentSpec

\* However many consoles work on the contents and however old the copies are
\* that they write back, no text stands approved that was not itself a draft,
\* validated and submitted for review before, unless a console judged it without
\* having seen it or put it over a status it had not seen (_ensure_transition of
\* review_service.py, and the flush of the columns that changed).
THEOREM ReviewedBeforeApproved == ContentSpec => []ApprovedAfterReview
<1>1. ContentInv => ApprovedAfterReview
  <2>1. SUFFICES ASSUME ContentInv, NEW i \in DOMAIN contents,
                        contents[i].status = "APPROVED",
                        contents[i].text \notin been[i].blind
                 PROVE  \A s \in {"DRAFT", "VALIDATED", "PENDING_REVIEW"} :
                          <<contents[i].text, s>> \in been[i].past
    BY DEF ApprovedAfterReview
  <2>2. contents[i].text \in Text /\ RowInv(contents[i], been[i])
    BY <2>1, ReadNow DEF ContentInv
  <2> QED
    BY <2>1, <2>2 DEF RowInv, InOrder
<1> QED
  BY <1>1, ContentInvariant, PTL

\* A week reported as generated has been written, for any number of weeks,
\* consoles, failed commits and overwritten rows (_save of generate_service.py).
THEOREM GeneratedIsSaved == ContentSpec => []ReportsAreSaved
<1>1. ContentInv => ReportsAreSaved
  BY DEF ContentInv
<1> QED
  BY <1>1, ContentInvariant, PTL
=============================================================================
