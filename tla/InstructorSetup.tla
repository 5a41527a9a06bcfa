-------------------------- MODULE InstructorSetup --------------------------
(***************************************************************************)
(* The setup of one instructor: partial updates (services/instructor) of   *)
(* the rows instructor_profiles and activity_configurations, and the       *)
(* default setup of the seed.                                              *)
(*                                                                         *)
(* An update loads both rows, merges its change into them, validates the   *)
(* result and saves all of it.  The save selects the rows again; what it   *)
(* commits are the columns whose merged value differs from that second     *)
(* reading, for the first copies are gone by then.  A profile is one       *)
(* value, the activities are the set of those that are enabled.            *)
(***************************************************************************)
EXTENDS Integers, FiniteSets

CONSTANTS
  Editors,       \* the requests and seeds at work on the setup
  Activities,    \* ACTIVITY_FIELDS
  ByDefault,     \* those enabled by default
  Profiles,      \* the profiles, all lengths within their limits
  TooLong,       \* a profile that is too long to be saved
  Blank          \* the profile of no row

ASSUME SetupAssumption ==
  /\ ByDefault \subseteq Activities /\ ByDefault # {}
  /\ Blank \in Profiles /\ TooLong \notin Profiles

VARIABLES
  profileRow,    \* the row of instructor_profiles, {} or {profile}
  activityRow,   \* the row of activity_configurations, {} or {enabled}
  edit           \* what each editor is doing

setupVars == <<profileRow, activityRow, edit>>

Edit == [at : {"idle", "loadProfile", "loadActivity", "findProfile", "findActivity", "commit",
               "ok", "invalid", "failed"},
         seed : BOOLEAN,
         to : {{}} \cup {{p} : p \in Profiles \cup {TooLong}},  \* profile_changes
         on : SUBSET Activities, off : SUBSET Activities,       \* activity_changes
         profile : {{}} \cup {{p} : p \in Profiles},            \* the profile read, then merged
         enabled : {{}} \cup {{a} : a \in SUBSET Activities},   \* the activities read, then merged
         oldProfile : {{}} \cup {{p} : p \in Profiles},         \* the rows selected by the save
         oldEnabled : {{}} \cup {{a} : a \in SUBSET Activities}]

NoEdit == [at |-> "idle", seed |-> FALSE, to |-> {}, on |-> {}, off |-> {}, profile |-> {},
           enabled |-> {}, oldProfile |-> {}, oldEnabled |-> {}]

SetupInit ==
  /\ profileRow = {} /\ activityRow = {}
  /\ edit = [e \in Editors |-> NoEdit]

The(row, default) == IF row = {} THEN default ELSE CHOOSE v \in row : TRUE

Rests(e) == edit[e].at \in {"idle", "ok", "invalid", "failed"}

Ends(e, result) == edit' = [edit EXCEPT ![e] = [NoEdit EXCEPT !.at = result]]

-----------------------------------------------------------------------------
\* A PUT with the fields it sends.
UpdateSetup(e) ==
  /\ Rests(e)
  /\ \E to \in {{}} \cup {{p} : p \in Profiles \cup {TooLong}}, on, off \in SUBSET Activities :
       /\ on \cap off = {}
       /\ edit' = [edit EXCEPT ![e] = [NoEdit EXCEPT !.at = "loadProfile", !.to = to,
                                                     !.on = on, !.off = off]]
  /\ UNCHANGED <<profileRow, activityRow>>

\* ensure_default_setup.
EnsureDefaultSetup(e) ==
  /\ Rests(e)
  /\ edit' = [edit EXCEPT ![e] = [NoEdit EXCEPT !.at = "loadProfile", !.seed = TRUE]]
  /\ UNCHANGED <<profileRow, activityRow>>

LoadProfile(e) ==
  /\ edit[e].at = "loadProfile"
  /\ edit' = [edit EXCEPT ![e].at = "loadActivity", ![e].profile = profileRow]
  /\ UNCHANGED <<profileRow, activityRow>>

\* normalize_setup of the profile and the activities merged with the change.
Valid(profile, enabled) == profile # TooLong /\ enabled # {}

\* An instructor without a setup has the default one; a seed leaves a setup
\* that is there alone.
LoadActivity(e) ==
  /\ edit[e].at = "loadActivity"
  /\ LET profile == The(edit[e].to, The(edit[e].profile, Blank))
         enabled == (The(activityRow, ByDefault) \cup edit[e].on) \ edit[e].off IN
     IF edit[e].seed /\ (edit[e].profile # {} \/ activityRow # {}) THEN Ends(e, "ok")
     ELSE IF ~Valid(profile, enabled) THEN Ends(e, "invalid")
     ELSE edit' = [edit EXCEPT ![e] = [NoEdit EXCEPT !.at = "findProfile", !.profile = {profile},
                                                     !.enabled = {enabled}]]
  /\ UNCHANGED <<profileRow, activityRow>>

FindProfile(e) ==
  /\ edit[e].at = "findProfile"
  /\ edit' = [edit EXCEPT ![e].at = "findActivity", ![e].oldProfile = profileRow]
  /\ UNCHANGED <<profileRow, activityRow>>

FindActivity(e) ==
  /\ edit[e].at = "findActivity"
  /\ edit' = [edit EXCEPT ![e].at = "commit", ![e].oldEnabled = activityRow]
  /\ UNCHANGED <<profileRow, activityRow>>

\* The columns that changed, of the row as it is now.
Written(row, old, new) ==
  {((row \ (old \ new)) \cup (new \ old))}

\* Mutated: the rows are inserted one by one.
CommitEach(e) ==
  /\ edit[e].at = "commit"
  /\ IF edit[e].oldProfile = {} /\ profileRow # {}
     THEN /\ Ends(e, "failed")
          /\ UNCHANGED <<profileRow, activityRow>>
     ELSE /\ profileRow' = edit[e].profile
          /\ \/ Ends(e, "ok") /\ activityRow' = edit[e].enabled
             \/ Ends(e, "failed") /\ UNCHANGED activityRow

\* One commit of both rows; an insert fails when the row is there by now.
Commit(e) ==
  /\ edit[e].at = "commit"
  /\ \/ /\ \/ edit[e].oldProfile = {} /\ profileRow # {}
           \/ edit[e].oldEnabled = {} /\ activityRow # {}
        /\ Ends(e, "failed")
        /\ UNCHANGED <<profileRow, activityRow>>
     \/ /\ edit[e].oldProfile = {} => profileRow = {}
        /\ edit[e].oldEnabled = {} => activityRow = {}
        /\ profileRow' = IF edit[e].profile = edit[e].oldProfile THEN profileRow ELSE edit[e].profile
        /\ activityRow' = IF activityRow = {} THEN edit[e].enabled
                          ELSE Written(The(activityRow, {}), The(edit[e].oldEnabled, {}),
                                       The(edit[e].enabled, {}))
        /\ Ends(e, "ok")

-----------------------------------------------------------------------------
SetupNext ==
  \E e \in Editors :
    \/ UpdateSetup(e) \/ EnsureDefaultSetup(e) \/ LoadProfile(e) \/ LoadActivity(e)
    \/ FindProfile(e) \/ FindActivity(e) \/ Commit(e)

SetupSpec == SetupInit /\ [][SetupNext]_setupVars

-----------------------------------------------------------------------------
(* The two rows of an instructor come together: of first saves at the same *)
(* time one fails as a whole, and none leaves a profile without activities *)
(* (InstructorSetupRepository.save).                                       *)
RowsInPairs == profileRow = {} <=> activityRow = {}
=============================================================================
