--------------------------- MODULE ContentReview ---------------------------
(***************************************************************************)
(* The learning material of a course plan's weeks: its generation by the   *)
(* model (services/content/generate_service.py) and its review             *)
(* (services/content/review_service.py), as the operator's console         *)
(* scripts/run_content_workflow.py drives them.                            *)
(*                                                                         *)
(* A console is a process with one database session for all it does.  The  *)
(* session keeps the content under review as long as the script refers to  *)
(* it, does not expire it on commit and does not refresh it when it is     *)
(* selected again; a flush writes the columns that differ from that copy,  *)
(* and no other.  A rollback forgets the copy.                             *)
(*                                                                         *)
(* A text stands for title, type, data and markdown, which are replaced    *)
(* together.  Left out: the prompt, its feedback and the trace of every    *)
(* attempt, on which nothing here depends.                                 *)
(***************************************************************************)
EXTENDS Integers, Sequences, FiniteSets

CONSTANTS
  Consoles,
  Weeks,            \* the weeks of the plan
  Regular,          \* those whose week_type is "regular"
  MaxFixAttempts,   \* content_generation_max_fix_attempts
  Concurrency,      \* weeks generated at a time
  None,
  MaxTexts,         \* bound on the texts the model writes
  MaxFailures       \* bound on the commits the database refuses

ASSUME ContentAssumption ==
  /\ Regular \subseteq Weeks /\ Regular # {}
  /\ MaxFixAttempts \in Nat /\ Concurrency \in Nat \ {0}

VARIABLES
  contents,   \* the rows of "contents"
  been,       \* the texts each row has had, with which statuses, and those of
              \* them that were judged or written blindly
  console,    \* what each console does: its choice, and the copy it holds
  gen,        \* per console and week: the generation under way
  result,     \* per console and week: the text of the WeekResult, until it is
              \* printed, None for an error or no report
  texts, failures   \* counters of the bounds

vars == <<contents, been, console, gen, result, texts, failures>>

Statuses == {"DRAFT", "VALIDATED", "PENDING_REVIEW", "APPROVED", "REJECTED"}

\* ALLOWED_TRANSITIONS
Allowed == [s \in Statuses |->
  CASE s = "DRAFT" -> {"VALIDATED"}
    [] s = "VALIDATED" -> {"PENDING_REVIEW", "DRAFT"}
    [] s = "PENDING_REVIEW" -> {"APPROVED", "REJECTED"}
    [] s = "REJECTED" -> {"DRAFT"}
    [] s = "APPROVED" -> {}]

Retryable == {"DRAFT", "VALIDATED", "REJECTED"}

Menu == [at |-> "menu", id |-> None, copy |-> None]

Untried == [at |-> "no", attempt |-> 0, text |-> None]

Init ==
  /\ contents = <<>> /\ been = <<>>
  /\ console = [c \in Consoles |-> Menu]
  /\ gen = [c \in Consoles |-> [w \in Weeks |-> Untried]]
  /\ result = [c \in Consoles |-> [w \in Weeks |-> None]]
  /\ texts = 0 /\ failures = 0

-----------------------------------------------------------------------------
(* The session of a console.                                               *)

Held(c) == console[c].copy

\* A session that gives a row another status has seen the text it judges, and
\* one that replaces the text has seen the status it resets.
Seen(row, old, new) ==
  IF new.text = old.text THEN old.text = row.text ELSE old.status = row.status

\* flush and commit: the columns that differ from the copy the session loaded.
\* Where it has not seen what it writes over, both the text of the row and that
\* of the copy count as judged or written blindly.
Flush(id, old, new) ==
  LET row == [f \in DOMAIN new |-> IF new[f] = old[f] THEN contents[id][f] ELSE new[f]] IN
  /\ contents' = [contents EXCEPT ![id] = row]
  /\ been' = [been EXCEPT ![id] =
       [past |-> @.past \cup {<<row.text, row.status>>},
        blind |-> @.blind \cup IF Seen(contents[id], old, new) THEN {}
                                 ELSE {row.text, new.text}]]

Forget(c) == console' = [console EXCEPT ![c].at = "review", ![c].copy = None]

\* A commit that fails is rolled back, and so is every choice the service
\* rejects.
Refused(c) ==
  /\ Forget(c)
  /\ UNCHANGED <<contents, been, gen, result, texts>>

-----------------------------------------------------------------------------
(* Review.                                                                 *)

OpenReview(c, id) ==
  /\ console[c] = Menu
  /\ console' = [console EXCEPT ![c] = [at |-> "review", id |-> id, copy |-> None]]
  /\ UNCHANGED <<contents, been, gen, result, texts, failures>>

CloseReview(c) ==
  /\ console[c].at = "review"
  /\ console' = [console EXCEPT ![c] = Menu]
  /\ UNCHANGED <<contents, been, gen, result, texts, failures>>

\* _get_content, when the session holds no copy of the row.
GetContent(c) ==
  /\ console[c].at = "review" /\ Held(c) = None
  /\ console' = [console EXCEPT ![c].copy = contents[console[c].id]]
  /\ UNCHANGED <<contents, been, gen, result, texts, failures>>

\* validate_content, submit_for_review, approve_content and reject_content:
\* _ensure_transition, update_status, commit.
UpdateStatus(c, target) ==
  /\ console[c].at = "review" /\ Held(c) # None
  /\ \/ /\ target \in Allowed[Held(c).status]
        /\ LET new == [Held(c) EXCEPT !.status = target] IN
             /\ Flush(console[c].id, Held(c), new)
             /\ console' = [console EXCEPT ![c].copy = new]
        /\ UNCHANGED <<gen, result, texts, failures>>
     \/ /\ target \notin Allowed[Held(c).status]
        /\ Refused(c) /\ UNCHANGED failures
     \/ /\ target \in Allowed[Held(c).status] /\ failures < MaxFailures
        /\ failures' = failures + 1
        /\ Refused(c)

ValidateContent(c) == UpdateStatus(c, "VALIDATED")
SubmitForReview(c) == UpdateStatus(c, "PENDING_REVIEW")
ApproveContent(c) == UpdateStatus(c, "APPROVED")
RejectContent(c) == UpdateStatus(c, "REJECTED")

\* retry_content, up to the generation, which works on one week.
RetryContent(c) ==
  /\ console[c].at = "review" /\ Held(c) # None
  /\ \/ /\ Held(c).status \in Retryable
        /\ console' = [console EXCEPT ![c].at = "retrying"]
        /\ gen' = [gen EXCEPT ![c][Held(c).week].at = "waiting"]
        /\ UNCHANGED <<contents, been, result, texts, failures>>
     \/ /\ Held(c).status \notin Retryable
        /\ Refused(c) /\ UNCHANGED failures

\* Mutated: the new text keeps the status of the old one.
OverwrittenAsItWas(copy, text) ==
  [copy EXCEPT !.text = text, !.version = @ + 1]

\* update_content: the new text, as a draft of the next version.
Overwritten(copy, text) ==
  [copy EXCEPT !.text = text, !.version = @ + 1, !.status = "DRAFT"]

\* retry_content, once the model has answered.
RetryEnds(c) ==
  LET g == gen[c][Held(c).week] IN
  /\ console[c].at = "retrying"
  /\ gen' = [gen EXCEPT ![c][Held(c).week] = Untried]
  /\ \/ /\ g.at = "valid"
        /\ LET new == Overwritten(Held(c), g.text) IN
             /\ Flush(console[c].id, Held(c), new)
             /\ console' = [console EXCEPT ![c].at = "review", ![c].copy = new]
        /\ UNCHANGED <<result, texts, failures>>
     \/ /\ g.at = "failed"
        /\ Forget(c)
        /\ UNCHANGED <<contents, been, result, texts, failures>>
     \/ /\ g.at = "valid" /\ failures < MaxFailures
        /\ failures' = failures + 1
        /\ Forget(c)
        /\ UNCHANGED <<contents, been, result, texts>>

-----------------------------------------------------------------------------
(* Generation of one week (_generate_week_content).                        *)

Advance(c, w, g) ==
  /\ gen' = [gen EXCEPT ![c][w] = g]
  /\ UNCHANGED <<contents, been, console, result, failures>>

\* The semaphore lets a week in.
GenerationStarts(c, w) ==
  /\ gen[c][w].at = "waiting"
  /\ Cardinality({v \in Weeks : gen[c][v].at = "calling"}) < Concurrency
  /\ Advance(c, w, [gen[c][w] EXCEPT !.at = "calling", !.attempt = 1])
  /\ UNCHANGED texts

\* A provider error is not tried again.
ProviderFails(c, w) ==
  /\ gen[c][w].at = "calling"
  /\ Advance(c, w, [Untried EXCEPT !.at = "failed"])
  /\ UNCHANGED texts

OutputValid(c, w) ==
  /\ gen[c][w].at = "calling" /\ texts < MaxTexts
  /\ texts' = texts + 1
  /\ Advance(c, w, [Untried EXCEPT !.at = "valid", !.text = texts + 1])

\* An output that is no JSON or breaks the schema is sent back for repair, as
\* long as attempts are left.
OutputInvalid(c, w) ==
  /\ gen[c][w].at = "calling"
  /\ Advance(c, w, IF gen[c][w].attempt < MaxFixAttempts + 1
                   THEN [gen[c][w] EXCEPT !.attempt = @ + 1]
                   ELSE [Untried EXCEPT !.at = "failed"])
  /\ UNCHANGED texts

-----------------------------------------------------------------------------
(* Generation of a plan (generate_contents).                               *)

\* The weeks asked for are regular ones of the plan.
GenerateContents(c, weeks) ==
  /\ console[c] = Menu
  /\ weeks # {} /\ weeks \subseteq Regular
  /\ console' = [console EXCEPT ![c].at = "generating"]
  /\ gen' = [gen EXCEPT ![c] =
       [w \in Weeks |-> IF w \in weeks THEN [Untried EXCEPT !.at = "waiting"] ELSE Untried]]
  /\ UNCHANGED <<contents, been, result, texts, failures>>

\* An error that is no ContentGenerationError leaves gather: what the other
\* weeks produce is dropped.
GenerationBreaks(c) ==
  /\ console[c].at = "generating"
  /\ \E w \in Weeks : gen[c][w].at = "calling"
  /\ console' = [console EXCEPT ![c] = Menu]
  /\ gen' = [gen EXCEPT ![c] = [w \in Weeks |-> Untried]]
  /\ UNCHANGED <<contents, been, result, texts, failures>>

\* gather: every week has its material or its error.
Gathered(c) == \A w \in Weeks : gen[c][w].at \in {"no", "valid", "failed"}

\* A material with its text, or an error without.
Report(c, w, text) ==
  /\ result' = [result EXCEPT ![c][w] = text]
  /\ gen' = [gen EXCEPT ![c][w] = Untried]

\* get_by_week_id: a row of the highest version.
LatestOf(w) ==
  {i \in DOMAIN contents : contents[i].week = w /\
     \A j \in DOMAIN contents : contents[j].week = w => contents[j].version <= contents[i].version}

\* The loop saves one week after the other: it reads what the week has ...
FindExisting(c, w) ==
  /\ console[c].at = "generating" /\ Gathered(c) /\ gen[c][w].at = "valid"
  /\ IF LatestOf(w) = {}
     THEN console' = [console EXCEPT ![c] = [at |-> "saving", id |-> w, copy |-> None]]
     ELSE \E i \in LatestOf(w) :
            console' = [console EXCEPT ![c] = [at |-> "saving", id |-> w,
                                               copy |-> [id |-> i, row |-> contents[i]]]]
  /\ UNCHANGED <<contents, been, gen, result, texts, failures>>

\* Mutated: one commit after the loop, so that a week the database refuses takes
\* back those that were saved before it.
SaveFailsForAll(c) ==
  LET w == console[c].id
      kept == {i \in DOMAIN contents : \A v \in Weeks : contents[i].text # result[c][v]} IN
  /\ console[c].at = "saving" /\ failures < MaxFailures
  /\ failures' = failures + 1
  /\ Report(c, w, None)
  /\ console' = [console EXCEPT ![c] = [Menu EXCEPT !.at = "generating"]]
  /\ contents' = SubSeq(contents, 1, Cardinality(kept))
  /\ been' = SubSeq(been, 1, Cardinality(kept))
  /\ UNCHANGED texts

\* The database refuses the week: rollback, and its result becomes an error.
SaveFails(c) ==
  LET w == console[c].id IN
  /\ console[c].at = "saving" /\ failures < MaxFailures
  /\ failures' = failures + 1
  /\ Report(c, w, None)
  /\ console' = [console EXCEPT ![c] = [Menu EXCEPT !.at = "generating"]]
  /\ UNCHANGED <<contents, been, texts>>

\* ... leaves approved content alone ...
KeepApproved(c) ==
  LET w == console[c].id IN
  /\ console[c].at = "saving" /\ Held(c) # None /\ Held(c).row.status = "APPROVED"
  /\ Report(c, w, None)
  /\ console' = [console EXCEPT ![c] = [Menu EXCEPT !.at = "generating"]]
  /\ UNCHANGED <<contents, been, texts, failures>>

\* ... creates the row that is missing ...
Create(c) ==
  LET w == console[c].id IN
  /\ console[c].at = "saving" /\ Held(c) = None
  /\ contents' = Append(contents, [week |-> w, version |-> 1, status |-> "DRAFT",
                                   text |-> gen[c][w].text])
  /\ been' = Append(been, [past |-> {<<gen[c][w].text, "DRAFT">>}, blind |-> {}])
  /\ Report(c, w, gen[c][w].text)
  /\ console' = [console EXCEPT ![c] = [Menu EXCEPT !.at = "generating"]]
  /\ UNCHANGED <<texts, failures>>

\* ... or overwrites the one that is there.
Overwrite(c) ==
  LET w == console[c].id IN
  /\ console[c].at = "saving" /\ Held(c) # None /\ Held(c).row.status # "APPROVED"
  /\ Flush(Held(c).id, Held(c).row, Overwritten(Held(c).row, gen[c][w].text))
  /\ Report(c, w, gen[c][w].text)
  /\ console' = [console EXCEPT ![c] = [Menu EXCEPT !.at = "generating"]]
  /\ UNCHANGED <<texts, failures>>

\* The weeks that failed, which the loop passes over, have stayed without a text.
\* The results are printed, and dropped.
GenerationEnds(c) ==
  /\ console[c].at = "generating" /\ \A w \in Weeks : gen[c][w].at \in {"no", "failed"}
  /\ console' = [console EXCEPT ![c] = Menu]
  /\ gen' = [gen EXCEPT ![c] = [w \in Weeks |-> Untried]]
  /\ result' = [result EXCEPT ![c] = [w \in Weeks |-> None]]
  /\ UNCHANGED <<contents, been, texts, failures>>

-----------------------------------------------------------------------------
Generate(c) ==
  \/ \E w \in Weeks : GenerationStarts(c, w) \/ ProviderFails(c, w) \/ OutputValid(c, w)
                      \/ OutputInvalid(c, w) \/ FindExisting(c, w)
  \/ SaveFails(c) \/ KeepApproved(c) \/ Create(c) \/ Overwrite(c) \/ GenerationEnds(c)
  \/ RetryEnds(c)

Choose(c) ==
  \/ \E weeks \in SUBSET Weeks : GenerateContents(c, weeks)
  \/ \E id \in DOMAIN contents : OpenReview(c, id)
  \/ CloseReview(c) \/ GetContent(c) \/ RetryContent(c)
  \/ ValidateContent(c) \/ SubmitForReview(c) \/ ApproveContent(c) \/ RejectContent(c)

ContentNext == \E c \in Consoles : Choose(c) \/ Generate(c) \/ GenerationBreaks(c)

ContentSpec == Init /\ [][ContentNext]_vars

-----------------------------------------------------------------------------
(* Properties.                                                             *)

\* A text stands approved only when this very text, and not an earlier one of the
\* row, has been a draft, validated and submitted for review, however old the
\* copies are that the consoles write back.  Excepted are the texts that a console
\* judged without having seen them, or put over a status it had not seen
\* (_ensure_transition of review_service.py, update_content of repository.py).
ApprovedAfterReview ==
  \A i \in DOMAIN contents :
    contents[i].status = "APPROVED" /\ contents[i].text \notin been[i].blind
    => \A s \in {"DRAFT", "VALIDATED", "PENDING_REVIEW"} :
         <<contents[i].text, s>> \in been[i].past

\* A week is reported as generated only when its text has been committed, also
\* when the database refuses one of several weeks and other consoles overwrite
\* the rows meanwhile (the loop over the results in generate_contents).
ReportsAreSaved ==
  \A c \in Consoles, w \in Weeks :
    result[c][w] # None
    => \E i \in DOMAIN contents :
         /\ contents[i].week = w
         /\ \E s \in Statuses : <<result[c][w], s>> \in been[i].past

=============================================================================
