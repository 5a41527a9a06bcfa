----------------------------- MODULE MoodleSite -----------------------------
(***************************************************************************)
(* The backend's writes to Moodle: save_section                            *)
(* (services/moodle_integration_service.py), create_course of the adapter  *)
(* (services/moodle_adapter.py) and the table of which course of the       *)
(* system is which course of Moodle (services/moodle_mapping_sql.py).      *)
(*                                                                         *)
(* Moodle is a service that others change too.  It is modelled as far as   *)
(* its answers are used: the sections of one course, in their order, and   *)
(* how many courses were created.  Every call of it is a step, and every   *)
(* call may fail; a write may fail before or after it took effect, which   *)
(* is what a timeout means.                                                *)
(***************************************************************************)
EXTENDS Integers, Sequences, FiniteSets

CONSTANTS
  Callers,        \* the requests at work on Moodle
  MoodleCourses,  \* the courses of the system that may be created in Moodle
  SectionNames,
  Unnamed,        \* the name of a section that nobody has named
  MaxSectionIds,  \* bound on the sections ever added
  MaxCourseIds    \* bound on the courses ever created

ASSUME MoodleAssumption ==
  /\ Unnamed \notin SectionNames
  /\ MaxSectionIds \in Nat /\ MaxCourseIds \in Nat

VARIABLES
  sections,   \* the sections of the Moodle course, the general one first
  lastId,     \* the last id Moodle gave to a section
  made,       \* Moodle courses created; their ids are 1 .. made
  mapping,    \* moodle_entity_mappings: the Moodle course of a course, 0 if none
  job         \* what each caller is doing

moodleVars == <<sections, lastId, made, mapping, job>>

Answers == {"ok", "error", "conflict"}

Job == [at : {"before", "add", "find", "rename", "after",
              "exists", "create", "look", "insert", "again"} \cup Answers \cup {"idle"},
        name : SectionNames \cup {Unnamed},
        number : -1 .. MaxSectionIds,         \* section_number, -1 for None
        known : SUBSET (0 .. MaxSectionIds),  \* the ids read before the addition
        own : 0 .. MaxSectionIds,             \* the section Moodle added for it, which
                                              \* Moodle does not tell it, 0 for none
        target : 0 .. MaxSectionIds,
        created : BOOLEAN,
        course : MoodleCourses,
        id : 0 .. MaxCourseIds]

Idle == [at |-> "idle", name |-> Unnamed, number |-> -1, known |-> {}, own |-> 0,
         target |-> 0, created |-> FALSE, course |-> CHOOSE k \in MoodleCourses : TRUE, id |-> 0]

MoodleInit ==
  /\ sections = <<[id |-> 0, name |-> Unnamed]>> /\ lastId = 0
  /\ made = 0 /\ mapping = [k \in MoodleCourses |-> 0]
  /\ job = [c \in Callers |-> Idle]

At(c, place) == job[c].at = place
Free(c) == job[c].at \in Answers \cup {"idle"}
Goto(c, place) ==
  job' = [job EXCEPT ![c] = IF place \in {"error", "conflict"} THEN [Idle EXCEPT !.at = place]
                            ELSE [@ EXCEPT !.at = place]]

SectionIds == {sections[i].id : i \in DOMAIN sections}

\* The position, which is Moodle's section number, plus one.
Position(id) == CHOOSE i \in DOMAIN sections : sections[i].id = id

\* The client raised: every error ends the operation.
CallFails(c) ==
  /\ ~Free(c) /\ job[c].at \notin {"exists", "look", "insert", "again"}
  /\ Goto(c, "error")
  /\ UNCHANGED <<sections, lastId, made, mapping>>

-----------------------------------------------------------------------------
(* save_section.                                                           *)

\* A request that found its course (get_course).
SaveSection(c) ==
  /\ Free(c)
  /\ \E name \in SectionNames, number \in -1 .. 1 :
       job' = [job EXCEPT ![c] = [Idle EXCEPT !.at = "before", !.name = name, !.number = number]]
  /\ UNCHANGED <<sections, lastId, made, mapping>>

\* The sections before: the one asked for, if there is one with its number.
FetchBefore(c) ==
  /\ At(c, "before")
  /\ LET i == job[c].number + 1
         found == i \in DOMAIN sections IN
     job' = [job EXCEPT ![c].at = IF found THEN "rename" ELSE "add",
                        ![c].known = SectionIds,
                        ![c].target = IF found THEN sections[i].id ELSE 0,
                        ![c].created = ~found]
  /\ UNCHANGED <<sections, lastId, made, mapping>>

Added == Append(sections, [id |-> lastId + 1, name |-> Unnamed])

\* section_add.  Moodle appends; the answer may be lost.
AddSection(c) ==
  /\ At(c, "add") /\ lastId < MaxSectionIds
  /\ sections' = Added /\ lastId' = lastId + 1
  /\ \/ job' = [job EXCEPT ![c].at = "find", ![c].own = lastId + 1]
     \/ Goto(c, "error")
  /\ UNCHANGED <<made, mapping>>

\* Mutated: the first of the sections that were not there before.
FindFirstAdded(c) ==
  /\ At(c, "find")
  /\ LET added == {i \in DOMAIN sections : sections[i].id \notin job[c].known} IN
     IF added = {} THEN Goto(c, "error")
     ELSE \E i \in added :
            /\ \A j \in added : i <= j
            /\ job' = [job EXCEPT ![c].at = "rename", ![c].target = sections[i].id]
  /\ UNCHANGED <<sections, lastId, made, mapping>>

\* The last of the sections that were not there before, or section_not_created.
FindAdded(c) ==
  /\ At(c, "find")
  /\ LET added == {i \in DOMAIN sections : sections[i].id \notin job[c].known} IN
     IF added = {} THEN Goto(c, "error")
     ELSE \E i \in added :
            /\ \A j \in added : j <= i
            /\ job' = [job EXCEPT ![c].at = "rename", ![c].target = sections[i].id]
  /\ UNCHANGED <<sections, lastId, made, mapping>>

\* core_update_inplace_editable; Moodle refuses a section that is gone.
Rename(c) ==
  /\ At(c, "rename") /\ job[c].target \in SectionIds
  /\ sections' = [sections EXCEPT ![Position(job[c].target)].name = job[c].name]
  /\ \E place \in {"after", "error"} : Goto(c, place)
  /\ UNCHANGED <<lastId, made, mapping>>

\* The section as Moodle has it now, or section_not_found.
FetchAfter(c) ==
  /\ At(c, "after")
  /\ Goto(c, IF job[c].target \in SectionIds THEN "ok" ELSE "error")
  /\ UNCHANGED <<sections, lastId, made, mapping>>

\* Somebody deletes a section in Moodle, which renumbers those after it.
SectionDeleted ==
  /\ \E i \in DOMAIN sections \ {1} :
       sections' = SubSeq(sections, 1, i - 1) \o SubSeq(sections, i + 1, Len(sections))
  /\ UNCHANGED <<lastId, made, mapping, job>>

-----------------------------------------------------------------------------
(* create_course and the mapping.                                          *)

CreateCourse(c) ==
  /\ Free(c)
  /\ \E k \in MoodleCourses :
       job' = [job EXCEPT ![c] = [Idle EXCEPT !.at = "exists", !.course = k]]
  /\ UNCHANGED <<sections, lastId, made, mapping>>

\* A mapped course is read, not created.
MappingExists(c) ==
  /\ At(c, "exists")
  /\ LET id == mapping[job[c].course] IN
     IF id = 0 THEN Goto(c, "create")
     ELSE \/ job' = [job EXCEPT ![c].at = "ok", ![c].id = id]
          \/ Goto(c, "error")
  /\ UNCHANGED <<sections, lastId, made, mapping>>

\* core_course_create_courses; the course stays if its answer is lost.
CourseCreated(c) ==
  /\ At(c, "create") /\ made < MaxCourseIds
  /\ made' = made + 1
  /\ \/ job' = [job EXCEPT ![c].at = "look", ![c].id = made + 1]
     \/ Goto(c, "error")
  /\ UNCHANGED <<sections, lastId, mapping>>

\* save, called for a Moodle course there is already.
SaveMapping(c) ==
  /\ Free(c)
  /\ \E k \in MoodleCourses, id \in 1 .. made :
       job' = [job EXCEPT ![c] = [Idle EXCEPT !.at = "look", !.course = k, !.id = id]]
  /\ UNCHANGED <<sections, lastId, made, mapping>>

Look(c) ==
  /\ At(c, "look")
  /\ LET existing == mapping[job[c].course] IN
     Goto(c, CASE existing = 0 -> "insert"
               [] existing = job[c].id -> "ok"
               [] OTHER -> "conflict")
  /\ UNCHANGED <<sections, lastId, made, mapping>>

\* The insert, under the two unique constraints of the table.
Insert(c) ==
  /\ At(c, "insert")
  /\ IF mapping[job[c].course] # 0 \/ \E k \in MoodleCourses : mapping[k] = job[c].id
     THEN Goto(c, "again") /\ UNCHANGED mapping
     ELSE Goto(c, "ok") /\ mapping' = [mapping EXCEPT ![job[c].course] = job[c].id]
  /\ UNCHANGED <<sections, lastId, made>>

\* Mutated: whoever loses the race is taken to have lost it to itself.
LookAgainTrusting(c) ==
  /\ At(c, "again")
  /\ Goto(c, "ok")
  /\ UNCHANGED <<sections, lastId, made, mapping>>

\* Lost to an identical save, or to another one.
LookAgain(c) ==
  /\ At(c, "again")
  /\ Goto(c, IF mapping[job[c].course] = job[c].id THEN "ok" ELSE "conflict")
  /\ UNCHANGED <<sections, lastId, made, mapping>>

-----------------------------------------------------------------------------
MoodleNext ==
  \/ \E c \in Callers :
       \/ SaveSection(c) \/ FetchBefore(c) \/ AddSection(c) \/ FindAdded(c)
       \/ Rename(c) \/ FetchAfter(c) \/ CallFails(c)
       \/ CreateCourse(c) \/ MappingExists(c) \/ CourseCreated(c)
       \/ SaveMapping(c) \/ Look(c) \/ Insert(c) \/ LookAgain(c)
  \/ SectionDeleted

MoodleSpec == MoodleInit /\ [][MoodleNext]_moodleVars

-----------------------------------------------------------------------------
(* Moodle does not tell a request which section it added for it.  Of the    *)
(* requests that add sections at the same time, the one whose section is    *)
(* the last finds it, whatever is deleted and renumbered meanwhile; another *)
(* takes its own or a later one, which a request that overlapped with it    *)
(* has added.  Only when its own section was deleted may it take an earlier *)
(* one, and never one that was there when it began (save_section,           *)
(* _add_section).                                                           *)
CreatorsTakeTheirOwnOrLater ==
  \A c \in Callers :
    job[c].at \in {"rename", "after", "ok"} /\ job[c].created =>
      IF job[c].own \in SectionIds THEN job[c].own <= job[c].target
      ELSE job[c].target \notin job[c].known

(* Whoever is told that its course is in Moodle is told the id that the    *)
(* mapping leads to, whatever other requests create or map at the same     *)
(* time (create_course, SqlMoodleMappingRepository.save).                  *)
AnswersAreMapped ==
  \A c \in Callers : job[c].at = "ok" /\ job[c].id # 0 => mapping[job[c].course] = job[c].id
=============================================================================
