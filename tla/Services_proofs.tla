--------------------------- MODULE Services_proofs ---------------------------
(***************************************************************************)
(* Proofs about the services.  No service reads or writes the variables of *)
(* another, so what a step of Services does to those of one service is a   *)
(* step of that service or nothing, and an invariant of one is proved from *)
(* its own steps alone.                                                    *)
(***************************************************************************)
EXTENDS Services, Ranking_proofs, FiniteSetTheorems, SequenceTheorems, TLAPS

-----------------------------------------------------------------------------
(* The steps of one service.                                               *)

LEMMA EachAlone ==
  ASSUME [ServicesNext]_servicesVars
  PROVE  /\ [MoodleNext]_moodleVars /\ [SetupNext]_setupVars /\ [UploadNext]_uploadVars
         /\ [AccountsNext]_accountVars /\ [ModelNext]_modelVars
         /\ [ConversionNext]_conversionVars /\ [ExportNext]_exportVars
         /\ [ContractNext]_contractVars
<1>1. CASE UNCHANGED servicesVars
  BY <1>1 DEF servicesVars
<1>2. CASE MoodleRuns
  BY <1>2 DEF MoodleRuns
<1>3. CASE SetupRuns
  BY <1>3 DEF SetupRuns
<1>4. CASE UploadsRun
  BY <1>4 DEF UploadsRun
<1>5. CASE AccountsRun
  BY <1>5 DEF AccountsRun
<1>6. CASE ModelRuns
  BY <1>6 DEF ModelRuns
<1>7. CASE ConversionRuns
  BY <1>7 DEF ConversionRuns
<1>8. CASE ExportRuns
  BY <1>8 DEF ExportRuns
<1>9. CASE ContractRuns
  BY <1>9 DEF ContractRuns
<1> QED
  BY <1>1, <1>2, <1>3, <1>4, <1>5, <1>6, <1>7, <1>8, <1>9 DEF ServicesNext

-----------------------------------------------------------------------------
(* The setup of an instructor.                                             *)

Saves(e) == edit[e].at \in {"findProfile", "findActivity", "commit"}

SetupTypes ==
  /\ profileRow \in {{}} \cup {{p} : p \in Profiles}
  /\ activityRow \in {{}} \cup {{a} : a \in SUBSET Activities}
  /\ edit \in [Editors -> Edit]

\* Rows are never deleted, so a row a save has selected is still there; and a
\* save has something to write into both.
SetupInv ==
  /\ SetupTypes
  /\ RowsInPairs
  /\ \A e \in Editors :
       Saves(e) => /\ edit[e].profile # {} /\ edit[e].enabled # {}
                   /\ edit[e].oldProfile # {} => profileRow # {}

LEMMA TheIsIn ==
  ASSUME NEW S, NEW row \in {{}} \cup {{v} : v \in S}, NEW default \in S
  PROVE  The(row, default) \in S
<1>1. CASE row = {}
  BY <1>1 DEF The
<1>2. CASE row # {}
  <2>1. PICK v \in S : row = {v}
    BY <1>2
  <2>2. The(row, default) = CHOOSE w \in row : TRUE
    BY <1>2 DEF The
  <2>3. (CHOOSE w \in row : TRUE) \in row
    BY <1>2
  <2> QED
    BY <2>1, <2>2, <2>3
<1> QED
  BY <1>1, <1>2

LEMMA EditMoves ==
  ASSUME SetupTypes, NEW e \in Editors, NEW to \in Edit, edit' = [edit EXCEPT ![e] = to]
  PROVE  /\ edit' \in [Editors -> Edit]
         /\ edit'[e] = to
         /\ \A d \in Editors \ {e} : edit'[d] = edit[d]
BY DEF SetupTypes

LEMMA NoEditIs ==
  /\ NoEdit \in Edit
  /\ \A result \in {"ok", "invalid", "failed"} :
       [NoEdit EXCEPT !.at = result] \in Edit /\ [NoEdit EXCEPT !.at = result].at = result
  /\ [NoEdit EXCEPT !.at = "loadProfile", !.seed = TRUE] \in Edit
  /\ [NoEdit EXCEPT !.at = "loadProfile", !.seed = TRUE].at = "loadProfile"
<1>1. NoEdit \in Edit
  BY DEF NoEdit, Edit
<1>2. ASSUME NEW result \in {"ok", "invalid", "failed"}
      PROVE  [NoEdit EXCEPT !.at = result] \in Edit /\ [NoEdit EXCEPT !.at = result].at = result
  BY DEF NoEdit, Edit
<1>3. PICK one : one = [NoEdit EXCEPT !.at = "loadProfile"]
  OBVIOUS
<1>4. one \in Edit /\ one.at = "loadProfile"
  BY <1>3 DEF NoEdit, Edit
<1>5. PICK two : two = [one EXCEPT !.seed = TRUE]
  OBVIOUS
<1>6. two \in Edit /\ two.at = "loadProfile"
  BY <1>4, <1>5 DEF Edit
<1>7. two = [NoEdit EXCEPT !.at = "loadProfile", !.seed = TRUE]
  BY <1>3, <1>5 DEF NoEdit
<1> QED
  BY <1>1, <1>2, <1>6, <1>7

LEMMA AskedIs ==
  ASSUME NEW to \in {{}} \cup {{p} : p \in Profiles \cup {TooLong}},
         NEW on \in SUBSET Activities, NEW off \in SUBSET Activities
  PROVE  LET asked == [NoEdit EXCEPT !.at = "loadProfile", !.to = to, !.on = on, !.off = off]
         IN asked \in Edit /\ asked.at = "loadProfile"
<1>1. PICK one : one = [NoEdit EXCEPT !.at = "loadProfile"]
  OBVIOUS
<1>2. one \in Edit /\ one.at = "loadProfile"
  BY <1>1 DEF NoEdit, Edit
<1>3. PICK two : two = [one EXCEPT !.to = to]
  OBVIOUS
<1>4. two \in Edit /\ two.at = "loadProfile"
  BY <1>2, <1>3 DEF Edit
<1>5. PICK three : three = [two EXCEPT !.on = on]
  OBVIOUS
<1>6. three \in Edit /\ three.at = "loadProfile"
  BY <1>4, <1>5 DEF Edit
<1>7. PICK four : four = [three EXCEPT !.off = off]
  OBVIOUS
<1>8. four \in Edit /\ four.at = "loadProfile"
  BY <1>6, <1>7 DEF Edit
<1>9. four = [NoEdit EXCEPT !.at = "loadProfile", !.to = to, !.on = on, !.off = off]
  BY <1>1, <1>3, <1>5, <1>7 DEF NoEdit
<1> QED
  BY <1>8, <1>9

LEMMA MergedIs ==
  ASSUME NEW profile \in Profiles, NEW enabled \in SUBSET Activities
  PROVE  LET merged == [NoEdit EXCEPT !.at = "findProfile", !.profile = {profile},
                                      !.enabled = {enabled}]
         IN /\ merged \in Edit /\ merged.at = "findProfile"
            /\ merged.profile = {profile} /\ merged.enabled = {enabled}
            /\ merged.oldProfile = {}
<1>1. PICK one : one = [NoEdit EXCEPT !.at = "findProfile"]
  OBVIOUS
<1>2. one \in Edit /\ one.at = "findProfile" /\ one.oldProfile = {}
  BY <1>1 DEF NoEdit, Edit
<1>3. PICK two : two = [one EXCEPT !.profile = {profile}]
  OBVIOUS
<1>4. /\ two \in Edit /\ two.at = "findProfile" /\ two.profile = {profile}
      /\ two.oldProfile = {}
  BY <1>2, <1>3 DEF Edit
<1>5. PICK three : three = [two EXCEPT !.enabled = {enabled}]
  OBVIOUS
<1>6. /\ three \in Edit /\ three.at = "findProfile"
      /\ three.profile = {profile} /\ three.enabled = {enabled}
      /\ three.oldProfile = {}
  BY <1>4, <1>5 DEF Edit
<1>7. three = [NoEdit EXCEPT !.at = "findProfile", !.profile = {profile}, !.enabled = {enabled}]
  BY <1>1, <1>3, <1>5 DEF NoEdit
<1> QED
  BY <1>6, <1>7

\* A step that leaves the rows alone.
LEMMA EditKeeps ==
  ASSUME SetupInv, NEW e \in Editors, NEW to \in Edit,
         edit' = [edit EXCEPT ![e] = to], UNCHANGED <<profileRow, activityRow>>,
         to.at \in {"findProfile", "findActivity", "commit"} =>
           /\ to.profile # {} /\ to.enabled # {}
           /\ to.oldProfile # {} => profileRow # {}
  PROVE  SetupInv'
<1>1. /\ edit' \in [Editors -> Edit] /\ edit'[e] = to
      /\ \A d \in Editors \ {e} : edit'[d] = edit[d]
  BY EditMoves DEF SetupInv
<1>2. SetupTypes' /\ RowsInPairs'
  BY <1>1 DEF SetupInv, SetupTypes, RowsInPairs
<1> QED
  BY <1>1, <1>2 DEF SetupInv, Saves

LEMMA CommitKeeps ==
  ASSUME SetupInv, NEW e \in Editors, Commit(e)
  PROVE  SetupInv'
<1>1. /\ edit[e] \in Edit /\ edit[e].profile # {} /\ edit[e].enabled # {}
      /\ edit[e].oldProfile # {} => profileRow # {}
  BY DEF SetupInv, SetupTypes, Saves, Commit
<1>2. CASE Ends(e, "failed") /\ UNCHANGED <<profileRow, activityRow>>
  BY <1>2, NoEditIs, EditKeeps DEF Ends
<1>3. CASE /\ edit[e].oldProfile = {} => profileRow = {}
           /\ edit[e].oldEnabled = {} => activityRow = {}
           /\ profileRow' = IF edit[e].profile = edit[e].oldProfile THEN profileRow
                            ELSE edit[e].profile
           /\ activityRow' = IF activityRow = {} THEN edit[e].enabled
                             ELSE Written(The(activityRow, {}), The(edit[e].oldEnabled, {}),
                                          The(edit[e].enabled, {}))
           /\ Ends(e, "ok")
  <2>1. profileRow' # {} /\ profileRow' \in {{}} \cup {{p} : p \in Profiles}
    BY <1>1, <1>3 DEF Edit, SetupInv, SetupTypes
  <2>2. activityRow' # {} /\ activityRow' \in {{}} \cup {{a} : a \in SUBSET Activities}
    <3>1. CASE activityRow = {}
      BY <1>1, <1>3, <3>1 DEF Edit
    <3>2. CASE activityRow # {}
      <4>1. {} \in SUBSET Activities
        OBVIOUS
      <4>2. PICK row \in SUBSET Activities : row = The(activityRow, {})
        BY <4>1, TheIsIn DEF SetupInv, SetupTypes
      <4>3. PICK old \in SUBSET Activities : old = The(edit[e].oldEnabled, {})
        BY <1>1, <4>1, TheIsIn DEF Edit
      <4>4. PICK new \in SUBSET Activities : new = The(edit[e].enabled, {})
        BY <1>1, <4>1, TheIsIn DEF Edit
      <4>5. activityRow' = {((row \ (old \ new)) \cup (new \ old))}
        BY <1>3, <3>2, <4>2, <4>3, <4>4 DEF Written
      <4>6. ((row \ (old \ new)) \cup (new \ old)) \in SUBSET Activities
        OBVIOUS
      <4> QED
        BY <4>5, <4>6
    <3> QED
      BY <3>1, <3>2
  <2>3. PICK to : to = [NoEdit EXCEPT !.at = "ok"]
    OBVIOUS
  <2>4. to \in Edit /\ to.at = "ok" /\ edit' = [edit EXCEPT ![e] = to]
    BY <1>3, <2>3, NoEditIs DEF Ends
  <2>5. /\ edit' \in [Editors -> Edit] /\ edit'[e] = to
        /\ \A d \in Editors \ {e} : edit'[d] = edit[d]
    BY <2>4, EditMoves DEF SetupInv
  <2>6. SetupTypes' /\ RowsInPairs'
    BY <2>1, <2>2, <2>5 DEF SetupTypes, RowsInPairs
  <2> QED
    BY <2>1, <2>2, <2>4, <2>5, <2>6 DEF SetupInv, Saves
<1> QED
  BY <1>2, <1>3 DEF Commit

LEMMA ReadingKeeps ==
  ASSUME SetupInv, NEW e \in Editors,
         LoadProfile(e) \/ FindProfile(e) \/ FindActivity(e)
  PROVE  SetupInv'
<1>1. edit[e] \in Edit /\ edit \in [Editors -> Edit]
  BY DEF SetupInv, SetupTypes
<1>2. Saves(e) => /\ edit[e].profile # {} /\ edit[e].enabled # {}
                  /\ edit[e].oldProfile # {} => profileRow # {}
  BY DEF SetupInv
<1>3. CASE LoadProfile(e)
  <2>1. PICK one : one = [edit[e] EXCEPT !.at = "loadActivity"]
    OBVIOUS
  <2>2. one \in Edit /\ one.at = "loadActivity"
    BY <1>1, <2>1 DEF Edit
  <2>3. PICK two : two = [one EXCEPT !.profile = profileRow]
    OBVIOUS
  <2>4. two \in Edit /\ two.at = "loadActivity"
    BY <2>2, <2>3 DEF Edit, SetupInv, SetupTypes
  <2>5. edit' = [edit EXCEPT ![e] = two]
    BY <1>1, <1>3, <2>1, <2>3 DEF LoadProfile
  <2> QED
    BY <1>3, <2>4, <2>5, EditKeeps DEF LoadProfile
<1>4. CASE FindProfile(e)
  <2>1. PICK one : one = [edit[e] EXCEPT !.at = "findActivity"]
    OBVIOUS
  <2>2. one \in Edit /\ one.at = "findActivity" /\ one.profile # {} /\ one.enabled # {}
    BY <1>1, <1>2, <1>4, <2>1 DEF Edit, FindProfile, Saves
  <2>3. PICK two : two = [one EXCEPT !.oldProfile = profileRow]
    OBVIOUS
  <2>4. /\ two \in Edit /\ two.at = "findActivity" /\ two.profile # {} /\ two.enabled # {}
        /\ two.oldProfile = profileRow
    BY <2>2, <2>3 DEF Edit, SetupInv, SetupTypes
  <2>5. edit' = [edit EXCEPT ![e] = two]
    BY <1>1, <1>4, <2>1, <2>3 DEF FindProfile
  <2> QED
    BY <1>4, <2>4, <2>5, EditKeeps DEF FindProfile
<1>5. CASE FindActivity(e)
  <2>1. PICK one : one = [edit[e] EXCEPT !.at = "commit"]
    OBVIOUS
  <2>2. /\ one \in Edit /\ one.at = "commit" /\ one.profile # {} /\ one.enabled # {}
        /\ one.oldProfile # {} => profileRow # {}
    BY <1>1, <1>2, <1>5, <2>1 DEF Edit, FindActivity, Saves
  <2>3. PICK two : two = [one EXCEPT !.oldEnabled = activityRow]
    OBVIOUS
  <2>4. /\ two \in Edit /\ two.at = "commit" /\ two.profile # {} /\ two.enabled # {}
        /\ two.oldProfile # {} => profileRow # {}
    BY <2>2, <2>3 DEF Edit, SetupInv, SetupTypes
  <2>5. edit' = [edit EXCEPT ![e] = two]
    BY <1>1, <1>5, <2>1, <2>3 DEF FindActivity
  <2> QED
    BY <1>5, <2>4, <2>5, EditKeeps DEF FindActivity
<1> QED
  BY <1>3, <1>4, <1>5

LEMMA LoadActivityKeeps ==
  ASSUME SetupInv, NEW e \in Editors, LoadActivity(e)
  PROVE  SetupInv'
<1>1. edit[e] \in Edit
  BY DEF SetupInv, SetupTypes
<1>2. CASE Ends(e, "ok") \/ Ends(e, "invalid")
  BY <1>2, NoEditIs, EditKeeps DEF Ends, LoadActivity
<1>3. CASE ~ (Ends(e, "ok") \/ Ends(e, "invalid"))
  <2>1. PICK profile, enabled :
          /\ profile = The(edit[e].to, The(edit[e].profile, Blank))
          /\ enabled = (The(activityRow, ByDefault) \cup edit[e].on) \ edit[e].off
    OBVIOUS
  <2>2. Valid(profile, enabled)
    BY <1>3, <2>1 DEF LoadActivity
  <2>3. edit' = [edit EXCEPT ![e] = [NoEdit EXCEPT !.at = "findProfile", !.profile = {profile},
                                                   !.enabled = {enabled}]]
    BY <1>3, <2>1 DEF LoadActivity
  <2>4. profile \in Profiles
    <3>1. The(edit[e].profile, Blank) \in Profiles
      BY <1>1, TheIsIn, SetupAssumption DEF Edit
    <3>2. profile \in Profiles \cup {TooLong}
      BY <1>1, <2>1, <3>1, TheIsIn DEF Edit
    <3> QED
      BY <2>2, <3>2 DEF Valid
  <2>5. enabled \in SUBSET Activities
    <3>1. The(activityRow, ByDefault) \in SUBSET Activities
      BY TheIsIn, SetupAssumption DEF SetupInv, SetupTypes
    <3> QED
      BY <1>1, <2>1, <3>1 DEF Edit
  <2>6. PICK to : to = [NoEdit EXCEPT !.at = "findProfile", !.profile = {profile},
                                      !.enabled = {enabled}]
    OBVIOUS
  <2>7. /\ to \in Edit /\ to.profile = {profile} /\ to.enabled = {enabled}
        /\ to.oldProfile = {}
    BY <2>4, <2>5, <2>6, MergedIs
  <2> QED
    BY <2>3, <2>6, <2>7, EditKeeps DEF LoadActivity
<1> QED
  BY <1>2, <1>3

LEMMA SetupKeeps ==
  ASSUME SetupInv, [SetupNext]_setupVars
  PROVE  SetupInv'
<1>1. CASE UNCHANGED setupVars
  BY <1>1 DEF setupVars, SetupInv, SetupTypes, RowsInPairs, Saves
<1>2. ASSUME NEW e \in Editors, UpdateSetup(e)
      PROVE  SetupInv'
  <2>1. PICK to \in {{}} \cup {{p} : p \in Profiles \cup {TooLong}},
             on \in SUBSET Activities, off \in SUBSET Activities :
          edit' = [edit EXCEPT ![e] = [NoEdit EXCEPT !.at = "loadProfile", !.to = to,
                                                     !.on = on, !.off = off]]
    BY <1>2 DEF UpdateSetup
  <2>2. PICK asked : asked = [NoEdit EXCEPT !.at = "loadProfile", !.to = to,
                                            !.on = on, !.off = off]
    OBVIOUS
  <2>3. asked \in Edit /\ asked.at = "loadProfile"
    BY <2>2, AskedIs
  <2> QED
    BY <1>2, <2>1, <2>2, <2>3, EditKeeps DEF UpdateSetup
<1>3. ASSUME NEW e \in Editors, EnsureDefaultSetup(e)
      PROVE  SetupInv'
  BY <1>3, NoEditIs, EditKeeps DEF EnsureDefaultSetup
<1> QED
  BY <1>1, <1>2, <1>3, ReadingKeeps, LoadActivityKeeps, CommitKeeps DEF SetupNext

\* The profile and the activities of an instructor come into being together, in
\* one commit, however many first saves and seeds run at the same time
\* (InstructorSetupRepository.save).
THEOREM SetupsAreWhole == ServicesSpec => []RowsInPairs
<1>1. ServicesInit => SetupInv
  BY NoEditIs DEF ServicesInit, SetupInit, SetupInv, SetupTypes, RowsInPairs, Saves, NoEdit
<1>2. SetupInv /\ [ServicesNext]_servicesVars => SetupInv'
  BY EachAlone, SetupKeeps
<1>3. SetupInv => RowsInPairs
  BY DEF SetupInv
<1> QED
  BY <1>1, <1>2, <1>3, PTL DEF ServicesSpec

-----------------------------------------------------------------------------
(* Uploads.                                                                *)

UploadPlaces == {"idle", "find", "store", "create", "created", "deduplicated", "refused", "failed"}

Uploading ==
  [at : UploadPlaces, document : {{}} \cup {{d} : d \in Document}, row : Nat]

Chosen(document) == CHOOSE d \in document : TRUE

\* What a request knows of its document.
Follows(one) ==
  /\ one.at \in {"find", "store", "create"} => one.document # {}
  /\ one.at = "create" => Chosen(one.document) \in files
  /\ one.row # 0 => /\ one.row \in DOMAIN documents
                         /\ documents[one.row] = Chosen(one.document)

UploadInv ==
  /\ documents \in Seq(Document)
  /\ upload \in [Uploaders -> Uploading]
  /\ \A i \in DOMAIN documents : documents[i] \in files
  /\ \A u \in Uploaders : Follows(upload[u])

\* Rows and files are only added.
UploadsGrow ==
  /\ DOMAIN documents \subseteq DOMAIN documents' /\ files \subseteq files'
  /\ \A i \in DOMAIN documents : documents'[i] = documents[i]

LEMMA UploadKeeps ==
  ASSUME UploadInv, UploadsGrow, NEW u \in Uploaders, NEW to \in Uploading,
         upload' = [upload EXCEPT ![u] = to],
         documents' \in Seq(Document), \A i \in DOMAIN documents' : documents'[i] \in files',
         Follows(to)'
  PROVE  UploadInv'
<1>1. /\ upload' \in [Uploaders -> Uploading] /\ upload'[u] = to
      /\ \A v \in Uploaders \ {u} : upload'[v] = upload[v]
  BY DEF UploadInv
<1>2. ASSUME NEW v \in Uploaders \ {u}
      PROVE  Follows(upload[v])'
  BY <1>1 DEF UploadInv, UploadsGrow, Follows
<1> QED
  BY <1>1, <1>2 DEF UploadInv, Follows

LEMMA UploadStepKeeps ==
  ASSUME UploadInv, NEW u \in Uploaders,
         \/ Receive(u) \/ FindByHash(u) \/ SaveDocument(u) \/ CreateDocument(u) \/ UploadFails(u)
  PROVE  UploadInv'
<1>1. /\ upload[u] \in Uploading /\ upload \in [Uploaders -> Uploading]
      /\ Follows(upload[u]) /\ documents \in Seq(Document)
  BY DEF UploadInv
<1>2. PICK one : one = upload[u]
  OBVIOUS
<1>3. Doc(u) = Chosen(one.document)
  BY <1>2 DEF Doc, Chosen
<1>4. ASSUME NEW to \in Uploading, upload' = [upload EXCEPT ![u] = to],
             UNCHANGED <<documents, files>>, Follows(to)
      PROVE  UploadInv'
  <2>1. UploadsGrow
    BY <1>4 DEF UploadsGrow
  <2>2. Follows(to)'
    BY <1>4 DEF Follows
  <2> QED
    BY <1>4, <2>1, <2>2, UploadKeeps DEF UploadInv
<1>5. CASE Receive(u)
  <2>1. PICK owner, content, to :
          /\ owner \in Owners /\ content \in Contents
          /\ to = [at |-> IF content \in Sound THEN "find" ELSE "refused",
                   document |-> IF content \in Sound THEN {[owner |-> owner, hash |-> content]}
                                ELSE {},
                   row |-> 0]
          /\ upload' = [upload EXCEPT ![u] = to]
    BY <1>5 DEF Receive
  <2>2. [owner |-> owner, hash |-> content] \in Document
    BY <2>1 DEF Document
  <2>3. to \in Uploading /\ Follows(to)
    BY <2>1, <2>2 DEF Uploading, UploadPlaces, Follows
  <2> QED
    BY <1>4, <1>5, <2>1, <2>3 DEF Receive
<1>6. CASE FindByHash(u)
  <2>1. CASE upload' = [upload EXCEPT ![u].at = "store"]
    <3>1. PICK to : to = [one EXCEPT !.at = "store"]
      OBVIOUS
    <3>2. to \in Uploading /\ Follows(to)
      BY <1>1, <1>2, <1>6, <3>1 DEF Uploading, UploadPlaces, Follows, FindByHash
    <3>3. upload' = [upload EXCEPT ![u] = to]
      BY <1>1, <1>2, <2>1, <3>1
    <3> QED
      BY <1>4, <1>6, <3>2, <3>3 DEF FindByHash
  <2>2. ASSUME NEW i \in Rows(Doc(u)),
               upload' = [upload EXCEPT ![u].at = "deduplicated", ![u].row = i]
        PROVE  UploadInv'
    <3>1. i \in DOMAIN documents /\ documents[i] = Chosen(one.document) /\ i \in Nat
      BY <1>1, <1>3 DEF Rows
    <3>2. PICK found : found = [one EXCEPT !.at = "deduplicated"]
      OBVIOUS
    <3>3. found \in Uploading /\ found.at = "deduplicated" /\ found.document = one.document
      BY <1>1, <1>2, <3>2 DEF Uploading, UploadPlaces
    <3>4. PICK to : to = [found EXCEPT !.row = i]
      OBVIOUS
    <3>5. to \in Uploading /\ Follows(to)
      BY <3>1, <3>3, <3>4 DEF Uploading, Follows
    <3>6. upload' = [upload EXCEPT ![u] = to]
      BY <1>1, <1>2, <2>2, <3>2, <3>4
    <3> QED
      BY <1>4, <1>6, <3>5, <3>6 DEF FindByHash
  <2> QED
    BY <1>6, <2>1, <2>2 DEF FindByHash
<1>7. CASE SaveDocument(u)
  <2>1. PICK to : to = [one EXCEPT !.at = "create"]
    OBVIOUS
  <2>2. to \in Uploading /\ to.document = one.document /\ to.row = one.row
    BY <1>1, <1>2, <2>1 DEF Uploading, UploadPlaces
  <2>3. upload' = [upload EXCEPT ![u] = to]
    BY <1>1, <1>2, <1>7, <2>1 DEF SaveDocument
  <2>4. UploadsGrow /\ \A i \in DOMAIN documents' : documents'[i] \in files'
    BY <1>7 DEF SaveDocument, UploadsGrow, UploadInv
  <2>5. Follows(to)'
    BY <1>1, <1>2, <1>3, <1>7, <2>2 DEF SaveDocument, Follows
  <2> QED
    BY <1>1, <1>7, <2>2, <2>3, <2>4, <2>5, UploadKeeps DEF SaveDocument
<1>8. CASE CreateDocument(u)
  <2>1. PICK row : row = Chosen(one.document)
    OBVIOUS
  <2>2. row \in Document /\ row \in files
    BY <1>1, <1>2, <1>8, <2>1 DEF CreateDocument, Follows, Uploading, Chosen
  <2>3. documents' = Append(documents, row) /\ UNCHANGED files
    BY <1>3, <1>8, <2>1 DEF CreateDocument
  <2>4. /\ documents' \in Seq(Document) /\ Len(documents) + 1 \in DOMAIN documents'
        /\ documents'[Len(documents) + 1] = row /\ Len(documents) + 1 \in Nat
        /\ UploadsGrow
        /\ \A i \in DOMAIN documents' : i \in DOMAIN documents \/ i = Len(documents) + 1
    BY <1>1, <2>2, <2>3 DEF UploadsGrow
  <2>5. \A i \in DOMAIN documents' : documents'[i] \in files'
    BY <2>2, <2>3, <2>4 DEF UploadInv, UploadsGrow
  <2>6. PICK created : created = [one EXCEPT !.at = "created"]
    OBVIOUS
  <2>7. created \in Uploading /\ created.at = "created" /\ created.document = one.document
    BY <1>1, <1>2, <2>6 DEF Uploading, UploadPlaces
  <2>8. PICK last, to : last = Len(documents) + 1 /\ to = [created EXCEPT !.row = last]
    OBVIOUS
  <2>9. /\ to \in Uploading /\ to.at = "created" /\ to.document = one.document
        /\ to.row = last
    BY <2>4, <2>7, <2>8 DEF Uploading
  <2>10. upload' = [upload EXCEPT ![u] = to]
    BY <1>1, <1>2, <1>8, <2>6, <2>8 DEF CreateDocument
  <2>11. Follows(to)'
    BY <2>1, <2>4, <2>8, <2>9 DEF Follows
  <2> QED
    BY <2>4, <2>5, <2>9, <2>10, <2>11, UploadKeeps
<1>9. CASE UploadFails(u)
  <2>1. PICK to : to = [one EXCEPT !.at = "failed"]
    OBVIOUS
  <2>2. to \in Uploading /\ Follows(to)
    BY <1>1, <1>2, <2>1 DEF Uploading, UploadPlaces, Follows
  <2>3. upload' = [upload EXCEPT ![u] = to]
    BY <1>1, <1>2, <1>9, <2>1 DEF UploadFails
  <2> QED
    BY <1>4, <1>9, <2>2, <2>3 DEF UploadFails
<1> QED
  BY <1>5, <1>6, <1>7, <1>8, <1>9

\* However many requests upload the same or different documents at the same time
\* and fail at whatever point, a registered document has its file, and an answer
\* names a document of the requester's own (RPSService.upload_rps).
THEOREM UploadsAreWhole == ServicesSpec => []DocumentsHaveFiles
<1>1. ServicesInit => UploadInv
  <2>1. NoUpload \in Uploading
    BY DEF NoUpload, Uploading, UploadPlaces
  <2>2. SUFFICES ASSUME ServicesInit PROVE UploadInv
    OBVIOUS
  <2>3. documents = <<>> /\ upload = [u \in Uploaders |-> NoUpload]
    BY <2>2 DEF ServicesInit, UploadInit
  <2> QED
    BY <2>1, <2>3 DEF UploadInv, Follows, NoUpload
<1>2. UploadInv /\ [ServicesNext]_servicesVars => UploadInv'
  <2> SUFFICES ASSUME UploadInv, [ServicesNext]_servicesVars PROVE UploadInv'
    OBVIOUS
  <2>1. CASE UNCHANGED uploadVars
    BY <2>1 DEF uploadVars, UploadInv, Follows
  <2> QED
    BY <2>1, EachAlone, UploadStepKeeps DEF UploadNext
<1>3. UploadInv => DocumentsHaveFiles
  BY DEF UploadInv, DocumentsHaveFiles, Follows, Doc, Chosen
<1> QED
  BY <1>1, <1>2, <1>3, PTL DEF ServicesSpec

-----------------------------------------------------------------------------
(* The conversion of a document.                                           *)

Names == {"document", "tables", "manifest"}

ConversionErrors == {NoOne, "DocumentStorageError", "DocumentConversionError",
                     "DocumentConverterUnavailableError"}

RpsRow == [status : {"UPLOADED", "PROCESSING", "PROCESSED", "FAILED"},
           source : Converters \cup {NoOne}, schema : SchemaVersions, error : ConversionErrors]

\* Where a worker has a copy of the row.
Loaded == {"reading", "asking", "waiting", "building", "converting", "writing", "failing"}

Working == [at : {"off", "selected", "begun"} \cup Loaded, copy : RpsRow \cup {NoOne},
            written : 0 .. 3, error : ConversionErrors]

ConversionTypes ==
  /\ engine \in [Hosts -> [api : BOOLEAN, lock : Converters \cup {NoOne}, builds : Nat]]
  /\ rps \in RpsRow \cup {NoOne}
  /\ artifacts \in [Names -> Converters \cup {NoOne}]
  /\ converter \in [Converters -> Working]

\* Who builds has the lock, and the lock is of who builds; where there is a
\* converter there is no lock and nobody builds.
EngineInv ==
  /\ \A p \in Hosts :
       /\ engine[p].builds <= 1
       /\ ~engine[p].api => engine[p].builds = 0
       /\ engine[p].lock # NoOne => /\ ~engine[p].api
                                    /\ HostOf[engine[p].lock] = p
                                    /\ converter[engine[p].lock].at = "building"
  /\ \A w \in Converters : converter[w].at = "building" => engine[HostOf[w]].lock = w

\* A worker has begun with a row that is there, and the files it has written are
\* there, whoever has replaced them since.
WrittenInv(w) ==
  /\ converter[w].at \in {"begun"} \cup Loaded => rps \in RpsRow
  /\ converter[w].at \in Loaded => converter[w].copy \in RpsRow
  /\ \A i \in 1 .. 3 : i <= converter[w].written => artifacts[ArtifactNames[i]] # NoOne

ConversionInv ==
  /\ ConversionTypes /\ EngineInv /\ FinishedHasFiles
  /\ \A w \in Converters : WrittenInv(w)

LEMMA NamesAre ==
  /\ Len(ArtifactNames) = 3 /\ DOMAIN ArtifactNames = 1 .. 3
  /\ \A i \in 1 .. 3 : ArtifactNames[i] \in Names
  /\ Names = {ArtifactNames[i] : i \in 1 .. 3}
BY DEF ArtifactNames, Names

ArtifactsStay ==
  \A n \in Names : artifacts[n] # NoOne => artifacts'[n] # NoOne

\* A step of a worker that has nothing to do with the lock.
LEMMA WorkKeeps ==
  ASSUME ConversionInv, NEW w \in Converters, NEW to \in Working,
         converter' = [converter EXCEPT ![w] = to], UNCHANGED engine,
         converter[w].at # "building", to.at # "building",
         rps' \in RpsRow \cup {NoOne}, FinishedHasFiles',
         artifacts' \in [Names -> Converters \cup {NoOne}], ArtifactsStay,
         rps \in RpsRow => rps' \in RpsRow,
         to.at \in {"begun"} \cup Loaded => rps' \in RpsRow,
         to.at \in Loaded => to.copy \in RpsRow,
         \A i \in 1 .. 3 : i <= to.written => artifacts'[ArtifactNames[i]] # NoOne
  PROVE  ConversionInv'
<1>1. /\ converter' \in [Converters -> Working] /\ converter'[w] = to
      /\ \A v \in Converters \ {w} : converter'[v] = converter[v]
  BY DEF ConversionInv, ConversionTypes
<1>2. ConversionTypes'
  BY <1>1 DEF ConversionInv, ConversionTypes
<1>3. EngineInv'
  <2>1. ASSUME NEW p \in Hosts, engine[p].lock # NoOne
        PROVE  converter'[engine[p].lock].at = "building"
    BY <1>1, <2>1 DEF ConversionInv, ConversionTypes, EngineInv
  <2> QED
    BY <1>1, <2>1 DEF ConversionInv, EngineInv
<1>4. ASSUME NEW v \in Converters
      PROVE  WrittenInv(v)'
  BY <1>1, NamesAre DEF WrittenInv, ConversionInv, ArtifactsStay
<1> QED
  BY <1>2, <1>3, <1>4 DEF ConversionInv

LEMMA OffIs == Off \in Working /\ Off.at = "off" /\ Off.written = 0
BY DEF Off, Working, ConversionErrors

\* A step of a worker that writes nothing.
LEMMA QuietWorkKeeps ==
  ASSUME ConversionInv, NEW w \in Converters, NEW to \in Working,
         converter' = [converter EXCEPT ![w] = to], UNCHANGED <<engine, rps, artifacts>>,
         converter[w].at # "building", to.at # "building",
         to.at \in {"begun"} \cup Loaded => rps \in RpsRow,
         to.at \in Loaded => to.copy \in RpsRow,
         to.written \in {0, converter[w].written}
  PROVE  ConversionInv'
<1>1. FinishedHasFiles' /\ ArtifactsStay
  BY DEF ConversionInv, FinishedHasFiles, ArtifactsStay
<1>2. \A i \in 1 .. 3 : i <= to.written => artifacts'[ArtifactNames[i]] # NoOne
  BY DEF ConversionInv, WrittenInv
<1> QED
  BY <1>1, <1>2, WorkKeeps DEF ConversionInv, ConversionTypes

LEMMA TurnIs ==
  ASSUME ConversionTypes, NEW w \in Converters,
         NEW place \in Loaded \cup {"selected", "begun"},
         converter' = [converter EXCEPT ![w].at = place]
  PROVE  \E to \in Working : /\ to.at = place /\ to.copy = converter[w].copy
                             /\ to.written = converter[w].written
                             /\ converter' = [converter EXCEPT ![w] = to]
<1>1. PICK to : to = [converter[w] EXCEPT !.at = place]
  OBVIOUS
<1>2. converter[w] \in Working
  BY DEF ConversionTypes
<1>3. /\ to \in Working /\ to.at = place /\ to.copy = converter[w].copy
      /\ to.written = converter[w].written
  BY <1>1, <1>2 DEF Working
<1>4. converter' = [converter EXCEPT ![w] = to]
  BY <1>1 DEF ConversionTypes
<1> QED
  BY <1>3, <1>4

LEMMA BreaksIs ==
  ASSUME ConversionTypes, NEW w \in Converters, NEW from, NEW error \in ConversionErrors,
         Breaks(w, from, error)
  PROVE  \E to \in Working : /\ to.at = "failing" /\ to.copy = converter[w].copy
                             /\ to.written = converter[w].written
                             /\ converter' = [converter EXCEPT ![w] = to]
<1>1. PICK one : one = [converter[w] EXCEPT !.at = "failing"]
  OBVIOUS
<1>2. converter[w] \in Working
  BY DEF ConversionTypes
<1>3. /\ one \in Working /\ one.at = "failing" /\ one.copy = converter[w].copy
      /\ one.written = converter[w].written
  BY <1>1, <1>2 DEF Working, Loaded
<1>4. PICK to : to = [one EXCEPT !.error = error]
  OBVIOUS
<1>5. /\ to \in Working /\ to.at = "failing" /\ to.copy = converter[w].copy
      /\ to.written = converter[w].written
  BY <1>3, <1>4 DEF Working
<1>6. converter' = [converter EXCEPT ![w] = to]
  BY <1>1, <1>2, <1>4 DEF Breaks, ConversionTypes
<1> QED
  BY <1>5, <1>6

\* A worker that leaves the lock.
LEMMA ReleaseKeeps ==
  ASSUME ConversionInv, NEW w \in Converters, NEW to \in Working,
         NEW free \in [api : BOOLEAN, lock : Converters \cup {NoOne}, builds : Nat],
         converter[w].at = "building", to.at # "building",
         to.copy = converter[w].copy, to.written = converter[w].written,
         converter' = [converter EXCEPT ![w] = to],
         engine' = [engine EXCEPT ![HostOf[w]] = free],
         free.lock = NoOne, free.builds <= 1, ~free.api => free.builds = 0,
         UNCHANGED <<rps, artifacts>>
  PROVE  ConversionInv'
<1>1. /\ ConversionTypes /\ EngineInv /\ HostOf[w] \in Hosts /\ NoOne \notin Converters
      /\ engine[HostOf[w]].lock = w
  BY DocumentConversionAssumption DEF ConversionInv, ConversionTypes, EngineInv, Hosts
<1>2. /\ converter' \in [Converters -> Working] /\ converter'[w] = to
      /\ \A v \in Converters \ {w} : converter'[v] = converter[v]
  BY <1>1 DEF ConversionTypes
<1>3. /\ engine' \in [Hosts -> [api : BOOLEAN, lock : Converters \cup {NoOne}, builds : Nat]]
      /\ engine'[HostOf[w]] = free
      /\ \A p \in Hosts \ {HostOf[w]} : engine'[p] = engine[p]
  BY <1>1 DEF ConversionTypes
<1>4. EngineInv'
  <2>1. ASSUME NEW p \in Hosts
        PROVE  (/\ engine[p].builds <= 1
                /\ ~engine[p].api => engine[p].builds = 0
                /\ engine[p].lock # NoOne => /\ ~engine[p].api
                                             /\ HostOf[engine[p].lock] = p
                                             /\ converter[engine[p].lock].at = "building")'
    <3>1. CASE p = HostOf[w]
      BY <1>3, <3>1
    <3>2. CASE p # HostOf[w]
      BY <1>1, <1>2, <1>3, <3>2 DEF EngineInv, ConversionTypes
    <3> QED
      BY <3>1, <3>2
  <2>2. ASSUME NEW v \in Converters, converter'[v].at = "building"
        PROVE  engine'[HostOf[v]].lock = v
    <3>1. v # w /\ engine[HostOf[v]].lock = v /\ HostOf[v] \in Hosts
      BY <1>1, <1>2, <2>2 DEF EngineInv, Hosts
    <3> QED
      BY <1>1, <1>3, <3>1
  <2> QED
    BY <2>1, <2>2 DEF EngineInv
<1>5. \A v \in Converters : WrittenInv(v)'
  BY <1>2 DEF ConversionInv, WrittenInv, Loaded
<1>6. ConversionTypes' /\ FinishedHasFiles'
  BY <1>2, <1>3 DEF ConversionInv, ConversionTypes, FinishedHasFiles
<1> QED
  BY <1>4, <1>5, <1>6 DEF ConversionInv

LEMMA ConversionStepKeeps ==
  ASSUME ConversionInv, NEW w \in Converters, ConversionStep(w)
  PROVE  ConversionInv'
<1>1. /\ ConversionTypes /\ converter[w] \in Working /\ WrittenInv(w)
      /\ HostOf[w] \in Hosts /\ NoOne \notin Converters
  BY DocumentConversionAssumption DEF ConversionInv, ConversionTypes, Hosts
<1>2. CASE SelectLegacy(w)
  <2>1. PICK to \in Working : /\ to.at = "selected" /\ to.written = converter[w].written
                              /\ converter' = [converter EXCEPT ![w] = to]
    <3>1. "selected" \in Loaded \cup {"selected", "begun"}
      OBVIOUS
    <3>2. converter' = [converter EXCEPT ![w].at = "selected"]
      BY <1>2 DEF SelectLegacy, Turn
    <3> QED
      BY <1>1, <3>1, <3>2, TurnIs
  <2> QED
    BY <1>2, <2>1, QuietWorkKeeps DEF SelectLegacy, Turn, Loaded
<1>3. ASSUME NEW schema \in SchemaVersions, BeginProcessing(w, schema)
      PROVE  ConversionInv'
  <2>1. rps \in RpsRow /\ converter[w].at \in {"off", "selected"}
    BY <1>1, <1>3 DEF BeginProcessing, ConversionTypes
  <2>2. CASE converter' = [converter EXCEPT ![w] = Off] /\ UNCHANGED rps
    BY <1>3, <2>1, <2>2, OffIs, QuietWorkKeeps DEF BeginProcessing, Loaded
  <2>3. CASE /\ rps' = [rps EXCEPT !.status = "PROCESSING", !.schema = schema]
             /\ converter' = [converter EXCEPT ![w].at = "begun"]
    <3>1. PICK to \in Working : /\ to.at = "begun" /\ to.written = converter[w].written
                                /\ converter' = [converter EXCEPT ![w] = to]
      BY <1>1, <2>3, TurnIs
    <3>2. PICK one : one = [rps EXCEPT !.status = "PROCESSING"]
      OBVIOUS
    <3>3. one \in RpsRow /\ one.status = "PROCESSING"
      BY <2>1, <3>2 DEF RpsRow
    <3>4. rps' = [one EXCEPT !.schema = schema]
      BY <2>1, <2>3, <3>2 DEF RpsRow
    <3>5. rps' \in RpsRow /\ rps'.status = "PROCESSING"
      BY <3>3, <3>4 DEF RpsRow
    <3>6. FinishedHasFiles' /\ ArtifactsStay
      BY <1>3, <3>5 DEF FinishedHasFiles, ArtifactsStay, BeginProcessing
    <3>7. \A i \in 1 .. 3 : i <= to.written => artifacts'[ArtifactNames[i]] # NoOne
      BY <1>1, <1>3, <3>1 DEF WrittenInv, BeginProcessing
    <3> QED
      BY <1>1, <1>3, <2>1, <3>1, <3>5, <3>6, <3>7, WorkKeeps
         DEF BeginProcessing, Loaded, ConversionTypes
  <2> QED
    BY <1>3, <2>2, <2>3 DEF BeginProcessing
<1>4. CASE LoadDocument(w)
  <2>1. PICK to : /\ to = IF rps.status = "PROCESSING" THEN [Off EXCEPT !.at = "reading", !.copy = rps]
                          ELSE Off
                  /\ converter' = [converter EXCEPT ![w] = to]
    BY <1>4 DEF LoadDocument
  <2>2. rps \in RpsRow
    BY <1>1, <1>4 DEF LoadDocument, WrittenInv
  <2>3. /\ to \in Working /\ to.at \in {"off", "reading"} /\ to.written = 0
        /\ to.at = "reading" => to.copy \in RpsRow
    <3>1. PICK one : one = [Off EXCEPT !.at = "reading"]
      OBVIOUS
    <3>2. one \in Working /\ one.at = "reading" /\ one.written = 0
      BY <3>1, OffIs DEF Working, Loaded
    <3>3. PICK two : two = [one EXCEPT !.copy = rps]
      OBVIOUS
    <3>4. two \in Working /\ two.at = "reading" /\ two.written = 0 /\ two.copy \in RpsRow
      BY <2>2, <3>2, <3>3 DEF Working
    <3>5. two = [Off EXCEPT !.at = "reading", !.copy = rps]
      BY <3>1, <3>3 DEF Off
    <3> QED
      BY <2>1, <3>4, <3>5, OffIs
  <2>4. /\ converter[w].at # "building" /\ to.at # "building"
        /\ to.at \in Loaded => to.copy \in RpsRow
    BY <1>4, <2>3 DEF LoadDocument, Loaded
  <2> QED
    BY <1>4, <2>1, <2>2, <2>3, <2>4, QuietWorkKeeps DEF LoadDocument
<1>5. ASSUME NEW place \in {"asking", "waiting", "converting", "writing"},
             converter[w].at \in {"reading", "asking", "waiting", "converting"},
             converter' = [converter EXCEPT ![w].at = place],
             UNCHANGED <<engine, rps, artifacts>>
      PROVE  ConversionInv'
  <2>1. PICK to \in Working : /\ to.at = place /\ to.copy = converter[w].copy
                              /\ to.written = converter[w].written
                              /\ converter' = [converter EXCEPT ![w] = to]
    <3>1. place \in Loaded \cup {"selected", "begun"}
      BY DEF Loaded
    <3> QED
      BY <1>1, <1>5, <3>1, TurnIs
  <2>2. rps \in RpsRow /\ to.copy \in RpsRow
    BY <1>1, <1>5, <2>1 DEF WrittenInv, Loaded
  <2> QED
    BY <1>5, <2>1, <2>2, QuietWorkKeeps
<1>6. ASSUME NEW from \in {"reading", "converting", "writing"},
             NEW error \in ConversionErrors, Breaks(w, from, error),
             UNCHANGED <<engine, rps, artifacts>>
      PROVE  ConversionInv'
  <2>1. PICK to \in Working : /\ to.at = "failing" /\ to.copy = converter[w].copy
                              /\ to.written = converter[w].written
                              /\ converter' = [converter EXCEPT ![w] = to]
    BY <1>1, <1>6, BreaksIs
  <2>2. rps \in RpsRow /\ to.copy \in RpsRow /\ converter[w].at # "building"
    BY <1>1, <1>6, <2>1 DEF WrittenInv, Loaded, Breaks
  <2> QED
    BY <1>6, <2>1, <2>2, QuietWorkKeeps
<1>7. CASE ReadDocument(w)
  BY <1>5, <1>6, <1>7 DEF ReadDocument, Turn, ConversionErrors
<1>8. CASE AskForApi(w)
  BY <1>5, <1>8 DEF AskForApi, Turn
<1>9. CASE TakeLock(w) /\ engine[HostOf[w]].api
  BY <1>5, <1>9 DEF TakeLock, Turn
<1>10. CASE TakeLock(w) /\ ~engine[HostOf[w]].api
  <2>1. PICK to \in Working : /\ to.at = "building" /\ to.copy = converter[w].copy
                              /\ to.written = converter[w].written
                              /\ converter' = [converter EXCEPT ![w] = to]
    BY <1>1, <1>10, TurnIs DEF TakeLock, Turn, Loaded
  <2>2. /\ converter' \in [Converters -> Working] /\ converter'[w] = to
        /\ \A v \in Converters \ {w} : converter'[v] = converter[v]
    BY <1>1, <2>1 DEF ConversionTypes
  <2>3. PICK locked : locked = [engine[HostOf[w]] EXCEPT !.lock = w]
    OBVIOUS
  <2>4. /\ locked \in [api : BOOLEAN, lock : Converters \cup {NoOne}, builds : Nat]
        /\ locked.lock = w /\ locked.builds = engine[HostOf[w]].builds
        /\ ~locked.api /\ engine[HostOf[w]].lock = NoOne
    BY <1>1, <1>10, <2>3 DEF TakeLock, ConversionTypes
  <2>5. /\ engine' \in [Hosts -> [api : BOOLEAN, lock : Converters \cup {NoOne}, builds : Nat]]
        /\ engine'[HostOf[w]] = locked
        /\ \A p \in Hosts \ {HostOf[w]} : engine'[p] = engine[p]
    BY <1>1, <1>10, <2>3, <2>4 DEF TakeLock, ConversionTypes
  <2>6. EngineInv'
    <3>1. ASSUME NEW p \in Hosts
          PROVE  (/\ engine[p].builds <= 1
                  /\ ~engine[p].api => engine[p].builds = 0
                  /\ engine[p].lock # NoOne => /\ ~engine[p].api
                                               /\ HostOf[engine[p].lock] = p
                                               /\ converter[engine[p].lock].at = "building")'
      <4>1. CASE p = HostOf[w]
        BY <1>10, <2>1, <2>2, <2>4, <2>5, <4>1 DEF ConversionInv, EngineInv
      <4>2. CASE p # HostOf[w]
        BY <1>1, <2>2, <2>5, <4>2 DEF ConversionInv, EngineInv, ConversionTypes
      <4> QED
        BY <4>1, <4>2
    <3>2. ASSUME NEW v \in Converters, converter'[v].at = "building"
          PROVE  engine'[HostOf[v]].lock = v
      <4>1. CASE v = w
        BY <2>4, <2>5, <4>1
      <4>2. CASE v # w
        <5>1. engine[HostOf[v]].lock = v /\ HostOf[v] \in Hosts
          BY <2>2, <3>2, <4>2 DEF ConversionInv, EngineInv, Hosts
        <5>2. HostOf[v] # HostOf[w]
          BY <1>1, <2>4, <5>1
        <5> QED
          BY <2>5, <5>1, <5>2
      <4> QED
        BY <4>1, <4>2
    <3> QED
      BY <3>1, <3>2 DEF EngineInv
  <2>7. \A v \in Converters : WrittenInv(v)'
    BY <1>1, <1>10, <2>1, <2>2 DEF ConversionInv, WrittenInv, TakeLock, Turn, Loaded
  <2>8. ConversionTypes' /\ FinishedHasFiles'
    BY <1>10, <2>2, <2>5 DEF ConversionInv, ConversionTypes, FinishedHasFiles, TakeLock
  <2> QED
    BY <2>6, <2>7, <2>8 DEF ConversionInv
<1>11. CASE ApiBuilt(w)
  <2>1. PICK to \in Working : /\ to.at = "converting" /\ to.copy = converter[w].copy
                              /\ to.written = converter[w].written
                              /\ converter' = [converter EXCEPT ![w] = to]
    <3>1. "converting" \in Loaded \cup {"selected", "begun"}
      BY DEF Loaded
    <3> QED
      BY <1>1, <1>11, <3>1, TurnIs DEF ApiBuilt, Turn
  <2>2. PICK free : free = [api |-> TRUE, lock |-> NoOne, builds |-> engine[HostOf[w]].builds + 1]
    OBVIOUS
  <2>3. engine[HostOf[w]].lock = w /\ engine[HostOf[w]].builds = 0
    BY <1>1, <1>11 DEF ApiBuilt, Turn, ConversionInv, EngineInv
  <2>4. /\ free \in [api : BOOLEAN, lock : Converters \cup {NoOne}, builds : Nat]
        /\ free.lock = NoOne /\ free.builds <= 1 /\ free.api
    BY <2>2, <2>3
  <2>5. engine' = [engine EXCEPT ![HostOf[w]] = free]
    BY <1>1, <1>11, <2>2 DEF ApiBuilt, ConversionTypes
  <2> QED
    BY <1>11, <2>1, <2>4, <2>5, ReleaseKeeps DEF ApiBuilt, Turn
<1>12. CASE BuildFails(w)
  <2>1. PICK to \in Working : /\ to.at = "failing" /\ to.copy = converter[w].copy
                              /\ to.written = converter[w].written
                              /\ converter' = [converter EXCEPT ![w] = to]
    BY <1>1, <1>12, BreaksIs DEF BuildFails, ConversionErrors
  <2>2. PICK free : free = [engine[HostOf[w]] EXCEPT !.lock = NoOne]
    OBVIOUS
  <2>3. /\ free \in [api : BOOLEAN, lock : Converters \cup {NoOne}, builds : Nat]
        /\ free.lock = NoOne /\ free.builds <= 1 /\ (~free.api => free.builds = 0)
    BY <1>1, <2>2 DEF ConversionTypes, ConversionInv, EngineInv
  <2>4. engine' = [engine EXCEPT ![HostOf[w]] = free]
    BY <1>1, <1>12, <2>2 DEF BuildFails, ConversionTypes
  <2> QED
    BY <1>12, <2>1, <2>3, <2>4, ReleaseKeeps DEF BuildFails, Breaks
<1>13. ASSUME NEW outcome \in Outcomes, Converted(w, outcome)
       PROVE  ConversionInv'
  <2>1. ErrorFor(outcome) \in ConversionErrors
    BY DEF ErrorFor, ConversionErrors
  <2> QED
    BY <1>5, <1>6, <1>13, <2>1 DEF Converted, Turn
<1>14. CASE WriteArtifact(w)
  <2>1. PICK i : i = converter[w].written + 1
    OBVIOUS
  <2>2. i \in 1 .. 3 /\ ArtifactNames[i] \in Names
    BY <1>14, <2>1, NamesAre DEF WriteArtifact
  <2>3. PICK to : to = [converter[w] EXCEPT !.written = i]
    OBVIOUS
  <2>4. /\ to \in Working /\ to.at = "writing" /\ to.written = i
        /\ to.copy = converter[w].copy
    BY <1>1, <1>14, <2>2, <2>3 DEF Working, WriteArtifact
  <2>5. converter' = [converter EXCEPT ![w] = to]
    BY <1>1, <1>14, <2>1, <2>3 DEF WriteArtifact, ConversionTypes
  <2>6. /\ artifacts' = [artifacts EXCEPT ![ArtifactNames[i]] = w]
        /\ artifacts' \in [Names -> Converters \cup {NoOne}]
        /\ artifacts'[ArtifactNames[i]] = w
        /\ \A n \in Names : artifacts'[n] \in {w, artifacts[n]}
    BY <1>1, <1>14, <2>1, <2>2 DEF WriteArtifact, ConversionTypes
  <2>7. ArtifactsStay
    BY <1>1, <2>6 DEF ArtifactsStay
  <2>8. ASSUME NEW k \in 1 .. 3, k <= i
        PROVE  artifacts'[ArtifactNames[k]] # NoOne
    <3>1. CASE k = i
      BY <1>1, <2>6, <3>1
    <3>2. CASE k # i
      <4>1. k <= converter[w].written
        BY <1>1, <2>1, <2>8, <3>2 DEF Working
      <4> QED
        BY <1>1, <2>7, <4>1, NamesAre DEF WrittenInv, ArtifactsStay
    <3> QED
      BY <3>1, <3>2
  <2>9. FinishedHasFiles'
    BY <1>1, <1>14, <2>6, <2>7
       DEF FinishedHasFiles, ConversionInv, ConversionTypes, ArtifactsStay, WriteArtifact
  <2>10. rps \in RpsRow /\ to.copy \in RpsRow /\ converter[w].at # "building"
    BY <1>1, <1>14, <2>4 DEF WrittenInv, Loaded, WriteArtifact
  <2> QED
    BY <1>14, <2>4, <2>5, <2>6, <2>7, <2>8, <2>9, <2>10, WorkKeeps DEF WriteArtifact
<1>15. CASE WriteFails(w)
  BY <1>6, <1>15 DEF WriteFails, ConversionErrors
<1>16. CASE ProcessingEnds(w) \/ MarkFailed(w)
  <2>1. converter[w].copy \in RpsRow /\ converter[w].at \in {"writing", "failing"}
    BY <1>1, <1>16 DEF WrittenInv, Loaded, ProcessingEnds, MarkFailed
  <2>2. rps' \in RpsRow /\ FinishedHasFiles'
    <3>1. CASE ProcessingEnds(w)
      <4>1. PICK one : one = [converter[w].copy EXCEPT !.status = "PROCESSED"]
        OBVIOUS
      <4>2. one \in RpsRow
        BY <2>1, <4>1 DEF RpsRow
      <4>3. PICK two : two = [one EXCEPT !.source = w]
        OBVIOUS
      <4>4. two \in RpsRow
        BY <4>2, <4>3 DEF RpsRow
      <4>5. rps' = [two EXCEPT !.error = NoOne]
        BY <2>1, <3>1, <4>1, <4>3 DEF ProcessingEnds, RpsRow
      <4>6. rps' \in RpsRow
        BY <4>4, <4>5 DEF RpsRow, ConversionErrors
      <4>7. \A i \in 1 .. 3 : artifacts[ArtifactNames[i]] # NoOne
        BY <1>1, <3>1, NamesAre DEF ProcessingEnds, WrittenInv
      <4>8. \A n \in DOMAIN artifacts' : artifacts'[n] # NoOne
        BY <1>1, <3>1, <4>7, NamesAre DEF ProcessingEnds, ConversionTypes
      <4> QED
        BY <4>6, <4>8 DEF FinishedHasFiles
    <3>2. CASE MarkFailed(w)
      <4>1. PICK one : one = [converter[w].copy EXCEPT !.status = "FAILED"]
        OBVIOUS
      <4>2. one \in RpsRow /\ one.status = "FAILED"
        BY <2>1, <4>1 DEF RpsRow
      <4>3. rps' = [one EXCEPT !.error = converter[w].error]
        BY <2>1, <3>2, <4>1 DEF MarkFailed, RpsRow
      <4>4. rps' \in RpsRow /\ rps'.status = "FAILED"
        BY <1>1, <4>2, <4>3 DEF RpsRow, Working
      <4> QED
        BY <4>4 DEF FinishedHasFiles
    <3> QED
      BY <1>16, <3>1, <3>2
  <2>3. converter' = [converter EXCEPT ![w] = Off] /\ UNCHANGED <<engine, artifacts>>
    BY <1>16 DEF ProcessingEnds, MarkFailed
  <2>4. /\ ArtifactsStay /\ artifacts' \in [Names -> Converters \cup {NoOne}]
        /\ \A i \in 1 .. 3 : i <= Off.written => artifacts'[ArtifactNames[i]] # NoOne
    BY <1>1, <2>3, OffIs DEF ArtifactsStay, ConversionTypes
  <2>5. Off.at \notin {"begun", "building"} \cup Loaded
    BY OffIs DEF Loaded
  <2> QED
    BY <2>1, <2>2, <2>3, <2>4, <2>5, OffIs, WorkKeeps
<1> QED
  BY <1>2, <1>3, <1>4, <1>7, <1>8, <1>9, <1>10, <1>11, <1>12, <1>13, <1>14, <1>15, <1>16
     DEF ConversionStep

LEMMA ArrivesKeeps ==
  ASSUME ConversionInv, NEW status \in {"UPLOADED", "PROCESSED"}, NEW schema \in SchemaVersions,
         Arrives(status, schema)
  PROVE  ConversionInv'
<1>1. /\ rps' \in RpsRow /\ rps'.source = NoOne
      /\ UNCHANGED <<engine, artifacts, converter, conversions>>
  BY DEF Arrives, RpsRow, ConversionErrors
<1>2. ConversionTypes' /\ FinishedHasFiles'
  BY <1>1 DEF ConversionInv, ConversionTypes, FinishedHasFiles
<1>3. EngineInv' /\ \A w \in Converters : WrittenInv(w)'
  BY <1>1 DEF ConversionInv, EngineInv, WrittenInv
<1> QED
  BY <1>2, <1>3 DEF ConversionInv

\* With a process all go that work in it, and no one else.
LEMMA ProcessDiesKeeps ==
  ASSUME ConversionInv, NEW p \in Hosts, ProcessDies(p)
  PROVE  ConversionInv'
<1>1. /\ UNCHANGED <<rps, artifacts>>
      /\ \A w \in Converters : converter'[w] = IF HostOf[w] = p THEN Off ELSE converter[w]
      /\ converter' \in [Converters -> Working]
  BY OffIs DEF ProcessDies, ConversionInv, ConversionTypes
<1>2. Cold \in [api : BOOLEAN, lock : Converters \cup {NoOne}, builds : Nat]
  BY DEF Cold
<1>3. /\ engine' \in [Hosts -> [api : BOOLEAN, lock : Converters \cup {NoOne}, builds : Nat]]
      /\ engine'[p] = Cold
      /\ \A q \in Hosts \ {p} : engine'[q] = engine[q]
  BY <1>2 DEF ProcessDies, ConversionInv, ConversionTypes
<1>4. EngineInv'
  <2>1. ASSUME NEW q \in Hosts
        PROVE  (/\ engine[q].builds <= 1
                /\ ~engine[q].api => engine[q].builds = 0
                /\ engine[q].lock # NoOne => /\ ~engine[q].api
                                             /\ HostOf[engine[q].lock] = q
                                             /\ converter[engine[q].lock].at = "building")'
    <3>1. CASE q = p
      BY <1>3, <3>1 DEF Cold
    <3>2. CASE q # p
      BY <1>1, <1>3, <3>2 DEF ConversionInv, EngineInv, ConversionTypes
    <3> QED
      BY <3>1, <3>2
  <2>2. ASSUME NEW w \in Converters, converter'[w].at = "building"
        PROVE  engine'[HostOf[w]].lock = w
    <3>1. HostOf[w] # p /\ converter[w].at = "building" /\ HostOf[w] \in Hosts
      BY <1>1, <2>2, OffIs DEF Hosts
    <3> QED
      BY <1>3, <3>1 DEF ConversionInv, EngineInv
  <2> QED
    BY <2>1, <2>2 DEF EngineInv
<1>5. ASSUME NEW w \in Converters
      PROVE  WrittenInv(w)'
  <2>1. CASE HostOf[w] = p
    BY <1>1, <2>1, OffIs DEF WrittenInv, Loaded
  <2>2. CASE HostOf[w] # p
    BY <1>1, <2>2 DEF WrittenInv, ConversionInv
  <2> QED
    BY <2>1, <2>2
<1>6. ConversionTypes' /\ FinishedHasFiles'
  BY <1>1, <1>3 DEF ConversionInv, ConversionTypes, FinishedHasFiles
<1> QED
  BY <1>4, <1>5, <1>6 DEF ConversionInv

LEMMA ConversionKeeps ==
  ASSUME ConversionInv, [ConversionNext]_conversionVars
  PROVE  ConversionInv'
<1>1. CASE UNCHANGED conversionVars
  BY <1>1 DEF conversionVars, ConversionInv, ConversionTypes, EngineInv, WrittenInv,
              FinishedHasFiles
<1> QED
  BY <1>1, ArrivesKeeps, ConversionStepKeeps, ProcessDiesKeeps DEF ConversionNext

LEMMA ConversionInvariant == ServicesSpec => []ConversionInv
<1>1. ASSUME ServicesInit PROVE ConversionInv
  <2>1. /\ engine = [p \in Hosts |-> Cold] /\ rps = NoOne /\ converter = [w \in Converters |-> Off]
        /\ artifacts = [n \in Names |-> NoOne]
    BY <1>1, NamesAre DEF ServicesInit, ConversionInit
  <2>2. ConversionTypes
    BY <2>1, OffIs DEF ConversionTypes, Cold
  <2>3. EngineInv
    BY <2>1, OffIs DEF EngineInv, Cold
  <2>4. \A w \in Converters : WrittenInv(w)
    BY <2>1, OffIs DEF WrittenInv, Loaded
  <2>5. FinishedHasFiles
    BY <2>1 DEF FinishedHasFiles
  <2> QED
    BY <2>2, <2>3, <2>4, <2>5 DEF ConversionInv
<1>2. ConversionInv /\ [ServicesNext]_servicesVars => ConversionInv'
  BY EachAlone, ConversionKeeps
<1> QED
  BY <1>1, <1>2, PTL DEF ServicesSpec

\* However many conversions of a process ask for the converter at once, and
\* whoever of them fails to build it or dies with the process, it is built once,
\* and the lock is held by nobody but the one who builds (_ensure_api).
THEOREM BuiltOnce == ServicesSpec => []BuiltOncePerProcess
<1>1. ConversionInv => BuiltOncePerProcess
  BY DEF ConversionInv, EngineInv, BuiltOncePerProcess
<1> QED
  BY <1>1, ConversionInvariant, PTL

\* What is recorded as converted has all its files, for any number of workers
\* that convert the same document, fail and die (RPSService.convert,
\* save_artifacts).
THEOREM FinishedIsStored == ServicesSpec => []FinishedHasFiles
<1>1. ConversionInv => FinishedHasFiles
  BY DEF ConversionInv
<1> QED
  BY <1>1, ConversionInvariant, PTL

-----------------------------------------------------------------------------
(* Moodle.                                                                 *)

OfSections == {"before", "add", "find", "rename", "after"}
OfCourses == {"exists", "create", "look", "insert", "again"}

Section == [id : Nat, name : SectionNames \cup {Unnamed}]

Asking == [at : OfSections \cup OfCourses \cup {"ok", "error", "conflict", "idle"},
             name : SectionNames \cup {Unnamed}, number : Int, known : SUBSET Nat, own : Nat,
             target : Nat, created : BOOLEAN, course : MoodleCourses \cup {Idle.course}, id : Nat]

\* Moodle gives ids in ascending order and appends the sections it adds, so that
\* the order of the sections is that of their ids, whichever were deleted.
InOrderOfIds ==
  /\ \A i, j \in DOMAIN sections : i < j => sections[i].id < sections[j].id
  /\ \A i \in DOMAIN sections : sections[i].id <= lastId

\* What a request that adds a section knows of it.
KnowsSection(j) ==
  /\ j.own <= lastId
  /\ j.at = "add" => \A id \in j.known : id <= lastId
  /\ j.at = "find" => j.own \notin j.known
  /\ j.at \in {"rename", "after", "ok"} /\ j.created =>
       /\ j.target \notin j.known
       /\ j.own \in SectionIds => j.own <= j.target

\* What one knows of the Moodle course it has or had created: a request of the
\* one kind knows nothing of the other.
KnowsCourse(j) ==
  /\ j.at = "ok" /\ j.id # 0 => mapping[j.course] = j.id
  /\ j.id # 0 => j.course \in MoodleCourses
  /\ j.at \in OfSections => j.id = 0
  /\ j.at \in OfCourses => ~j.created /\ j.course \in MoodleCourses

Knows(j) == KnowsSection(j) /\ KnowsCourse(j)

MoodleInv ==
  /\ sections \in Seq(Section) /\ lastId \in Nat /\ made \in Nat
  /\ InOrderOfIds
  /\ mapping \in [MoodleCourses -> Nat]
  /\ job \in [Callers -> Asking]
  /\ \A c \in Callers : Knows(job[c])

\* What Moodle does to its sections: those it has are old ones or of new ids.
SectionsStay ==
  /\ sections' \in Seq(Section) /\ lastId' \in Nat
  /\ InOrderOfIds'
  /\ lastId <= lastId'
  /\ \A id \in SectionIds' : id \in SectionIds \/ id > lastId

LEMMA SectionsSame ==
  ASSUME MoodleInv, UNCHANGED <<sections, lastId>>
  PROVE  SectionsStay
BY DEF MoodleInv, SectionsStay, InOrderOfIds, SectionIds

\* What a request knows of its section stays true.
LEMMA KnowsSectionStays ==
  ASSUME MoodleInv, SectionsStay, NEW j \in Asking, KnowsSection(j)
  PROVE  KnowsSection(j)'
<1>1. /\ lastId \in Nat /\ lastId' \in Nat /\ lastId <= lastId'
      /\ \A id \in SectionIds' : id \in SectionIds \/ id > lastId
  BY DEF MoodleInv, SectionsStay
<1>2. j.own \in Nat /\ j.known \in SUBSET Nat
  BY DEF Asking
<1>3. j.own <= lastId' /\ (j.own \in SectionIds' => j.own \in SectionIds)
  BY <1>1, <1>2 DEF KnowsSection
<1>4. \A id \in j.known : id <= lastId => id <= lastId'
  BY <1>1, <1>2
<1> QED
  BY <1>3, <1>4 DEF KnowsSection

\* A course that is mapped stays mapped to what it is mapped to.
MappingStays ==
  \A k \in MoodleCourses : mapping[k] # 0 => mapping'[k] = mapping[k]

LEMMA JobKeeps ==
  ASSUME MoodleInv, NEW c \in Callers, NEW to \in Asking, job' = [job EXCEPT ![c] = to],
         SectionsStay, made' \in Nat,
         mapping' \in [MoodleCourses -> Nat], MappingStays, Knows(to)'
  PROVE  MoodleInv'
<1>1. /\ job' \in [Callers -> Asking] /\ job'[c] = to
      /\ \A d \in Callers \ {c} : job'[d] = job[d]
  BY DEF MoodleInv
<1>2. ASSUME NEW d \in Callers \ {c}
      PROVE  Knows(job[d])'
  <2>1. Knows(job[d]) /\ job[d] \in Asking /\ job'[d] = job[d]
    BY <1>1 DEF MoodleInv
  <2>2. PICK j \in Asking : j = job[d]
    BY <2>1
  <2>3. KnowsSection(j)'
    BY <2>1, <2>2, KnowsSectionStays DEF Knows
  <2>4. KnowsCourse(j)'
    BY <2>1, <2>2 DEF Knows, KnowsCourse, MappingStays
  <2> QED
    BY <2>1, <2>2, <2>3, <2>4 DEF Knows, KnowsSection, KnowsCourse
<1>3. Knows(job[c])'
  BY <1>1 DEF Knows, KnowsSection, KnowsCourse
<1>4. (\A d \in Callers : Knows(job[d]))'
  BY <1>2, <1>3
<1> QED
  BY <1>1, <1>4 DEF MoodleInv, SectionsStay

LEMMA IdleIs ==
  /\ Idle \in Asking
  /\ Idle.at = "idle" /\ Idle.name = Unnamed /\ Idle.number = -1 /\ Idle.known = {}
  /\ Idle.own = 0 /\ Idle.target = 0 /\ ~Idle.created /\ Idle.id = 0
<1>1. /\ Idle.at = "idle" /\ Idle.name = Unnamed /\ Idle.number = -1 /\ Idle.known = {}
      /\ Idle.own = 0 /\ Idle.target = 0 /\ ~Idle.created /\ Idle.id = 0
  BY DEF Idle
<1>2. PICK course : course = Idle.course
  OBVIOUS
<1>3. Idle = [at |-> "idle", name |-> Unnamed, number |-> -1, known |-> {}, own |-> 0,
              target |-> 0, created |-> FALSE, course |-> course, id |-> 0]
  BY <1>2 DEF Idle
<1> HIDE DEF Idle
<1>4. Idle \in Asking
  BY <1>2, <1>3 DEF Asking
<1> QED
  BY <1>1, <1>4

\* Where a call that goes somewhere gets.
LEMMA GotoIs ==
  ASSUME MoodleInv, NEW c \in Callers,
         NEW place \in OfSections \cup OfCourses \cup {"ok", "error", "conflict"}, Goto(c, place)
  PROVE  \E to \in Asking :
           /\ job' = [job EXCEPT ![c] = to] /\ to.at = place
           /\ place \in {"error", "conflict"} => ~to.created /\ to.id = 0 /\ to.own = 0
           /\ place \notin {"error", "conflict"} =>
                /\ to.known = job[c].known /\ to.target = job[c].target /\ to.own = job[c].own
                /\ to.created = job[c].created /\ to.course = job[c].course
                /\ to.id = job[c].id
<1>1. job[c] \in Asking /\ job \in [Callers -> Asking]
  BY DEF MoodleInv
<1>2. CASE place \in {"error", "conflict"}
  <2>1. PICK idle : idle = Idle
    OBVIOUS
  <2>2. PICK to : to = [idle EXCEPT !.at = place]
    OBVIOUS
  <2>3. to \in Asking /\ to.at = place /\ ~to.created /\ to.id = 0 /\ to.own = 0
    BY <1>2, <2>1, <2>2, IdleIs DEF Asking
  <2>4. job' = [job EXCEPT ![c] = to]
    BY <1>1, <1>2, <2>1, <2>2 DEF Goto
  <2> QED
    BY <1>2, <2>3, <2>4
<1>3. CASE place \notin {"error", "conflict"}
  <2>1. PICK to : to = [job[c] EXCEPT !.at = place]
    OBVIOUS
  <2>2. /\ to \in Asking /\ to.at = place
        /\ to.known = job[c].known /\ to.target = job[c].target /\ to.own = job[c].own
        /\ to.created = job[c].created /\ to.course = job[c].course /\ to.id = job[c].id
    BY <1>1, <2>1 DEF Asking
  <2>3. job' = [job EXCEPT ![c] = to]
    BY <1>1, <1>3, <2>1 DEF Goto
  <2> QED
    BY <1>3, <2>2, <2>3
<1> QED
  BY <1>2, <1>3

\* A request that ends with an error, whatever it did to Moodle.
LEMMA ErrorKeeps ==
  ASSUME MoodleInv, NEW c \in Callers, Goto(c, "error"),
         SectionsStay, made' \in Nat, UNCHANGED mapping
  PROVE  MoodleInv'
<1>1. PICK to \in Asking : /\ job' = [job EXCEPT ![c] = to] /\ to.at = "error"
                             /\ ~to.created /\ to.id = 0 /\ to.own = 0
  BY GotoIs
<1>2. Knows(to)' /\ MappingStays
  BY <1>1 DEF Knows, KnowsSection, KnowsCourse, SectionsStay, MappingStays, OfSections, OfCourses
<1> QED
  BY <1>1, <1>2, JobKeeps DEF MoodleInv

\* A step that leaves the sections and the mapping alone.
LEMMA QuietJobKeeps ==
  ASSUME MoodleInv, NEW c \in Callers, NEW to \in Asking, job' = [job EXCEPT ![c] = to],
         UNCHANGED <<sections, lastId, mapping>>, made' \in Nat, Knows(to)
  PROVE  MoodleInv'
<1>1. Knows(to)' /\ MappingStays
  <2>1. SectionIds' = SectionIds
    BY DEF SectionIds
  <2> QED
    BY <2>1 DEF Knows, KnowsSection, KnowsCourse, MappingStays
<1> QED
  BY <1>1, SectionsSame, JobKeeps DEF MoodleInv

LEMMA IdIs ==
  ASSUME MoodleInv, NEW c \in Callers, NEW place \in {"ok", "look"}, NEW id \in Nat,
         job' = [job EXCEPT ![c].at = place, ![c].id = id]
  PROVE  \E to \in Asking : /\ job' = [job EXCEPT ![c] = to] /\ to.at = place /\ to.id = id
                            /\ to.created = job[c].created /\ to.course = job[c].course
                            /\ to.own = job[c].own
<1>1. job[c] \in Asking /\ job \in [Callers -> Asking]
  BY DEF MoodleInv
<1>2. PICK one : one = [job[c] EXCEPT !.at = place]
  OBVIOUS
<1>3. /\ one \in Asking /\ one.at = place
      /\ one.created = job[c].created /\ one.course = job[c].course /\ one.own = job[c].own
  BY <1>1, <1>2 DEF Asking, OfCourses
<1>4. PICK to : to = [one EXCEPT !.id = id]
  OBVIOUS
<1>5. /\ to \in Asking /\ to.at = place /\ to.id = id
      /\ to.created = job[c].created /\ to.course = job[c].course /\ to.own = job[c].own
  BY <1>3, <1>4 DEF Asking
<1>6. job' = [job EXCEPT ![c] = to]
  BY <1>1, <1>2, <1>4
<1> QED
  BY <1>5, <1>6

LEMMA SaveSectionKeeps ==
  ASSUME MoodleInv, NEW c \in Callers, SaveSection(c)
  PROVE  MoodleInv'
<1>1. PICK name, number, idle :
        /\ name \in SectionNames /\ number \in -1 .. 1 /\ idle = Idle
        /\ job' = [job EXCEPT ![c] = [idle EXCEPT !.at = "before", !.name = name, !.number = number]]
  BY DEF SaveSection
<1>2. idle \in Asking /\ idle.id = 0 /\ idle.created = FALSE /\ idle.own = 0
  BY <1>1, IdleIs
<1>3. PICK one : one = [idle EXCEPT !.at = "before"]
  OBVIOUS
<1>4. one \in Asking /\ one.at = "before" /\ one.id = 0 /\ one.own = 0
  BY <1>2, <1>3 DEF Asking, OfSections
<1>5. PICK two : two = [one EXCEPT !.name = name]
  OBVIOUS
<1>6. two \in Asking /\ two.at = "before" /\ two.id = 0 /\ two.own = 0
  BY <1>1, <1>4, <1>5 DEF Asking
<1>7. PICK to : to = [two EXCEPT !.number = number]
  OBVIOUS
<1>8. to \in Asking /\ to.at = "before" /\ to.id = 0 /\ to.own = 0
  BY <1>1, <1>6, <1>7 DEF Asking
<1>9. to = [idle EXCEPT !.at = "before", !.name = name, !.number = number]
  BY <1>2, <1>3, <1>5, <1>7 DEF Asking
<1>10. Knows(to)
  BY <1>8 DEF Knows, KnowsSection, KnowsCourse, OfCourses, MoodleInv
<1> QED
  BY <1>1, <1>8, <1>9, <1>10, QuietJobKeeps DEF SaveSection, MoodleInv

LEMMA IdsAreNumbers ==
  ASSUME MoodleInv
  PROVE  \A k \in DOMAIN sections : sections[k].id \in Nat
<1>1. \A k \in DOMAIN sections : sections[k] \in Section
  BY DEF MoodleInv
<1> QED
  BY <1>1 DEF Section

LEMMA FetchBeforeKeeps ==
  ASSUME MoodleInv, NEW c \in Callers, FetchBefore(c)
  PROVE  MoodleInv'
<1> DEFINE i == job[c].number + 1
<1>1. PICK found, place, target, ids :
        /\ found = (i \in DOMAIN sections)
        /\ place = (IF found THEN "rename" ELSE "add")
        /\ target = (IF found THEN sections[i].id ELSE 0)
        /\ ids = SectionIds
  OBVIOUS
<1> HIDE DEF i
<1>2. /\ job[c] \in Asking /\ job \in [Callers -> Asking] /\ job[c].id = 0
      /\ job[c].own <= lastId
  BY DEF MoodleInv, FetchBefore, At, Knows, KnowsSection, KnowsCourse, OfSections
<1>3. \A k \in DOMAIN sections : sections[k].id \in Nat
  BY IdsAreNumbers
<1>4. ids \in SUBSET Nat /\ target \in Nat /\ \A id \in ids : id <= lastId
  BY <1>1, <1>3 DEF SectionIds, MoodleInv, InOrderOfIds
<1>5. PICK one : one = [job[c] EXCEPT !.at = place]
  OBVIOUS
<1>6. one \in Asking /\ one.at = place /\ one.id = 0 /\ one.own = job[c].own
  BY <1>1, <1>2, <1>5 DEF Asking, OfSections
<1>7. PICK two : two = [one EXCEPT !.known = ids]
  OBVIOUS
<1>8. two \in Asking /\ two.at = place /\ two.id = 0 /\ two.own = job[c].own /\ two.known = ids
  BY <1>4, <1>6, <1>7 DEF Asking
<1>9. PICK three : three = [two EXCEPT !.target = target]
  OBVIOUS
<1>10. /\ three \in Asking /\ three.at = place /\ three.id = 0 /\ three.own = job[c].own
       /\ three.known = ids
  BY <1>4, <1>8, <1>9 DEF Asking
<1>11. PICK created, to :
          created \in BOOLEAN /\ created = ~found /\ to = [three EXCEPT !.created = created]
  OBVIOUS
<1>12. /\ to \in Asking /\ to.at = place /\ to.id = 0 /\ to.own = job[c].own
       /\ to.known = ids /\ to.created = ~found
  BY <1>10, <1>11 DEF Asking
<1>13. job' = [job EXCEPT ![c].at = place, ![c].known = ids, ![c].target = target,
                          ![c].created = created]
  BY <1>1, <1>11 DEF FetchBefore, i
<1>14. job' = [job EXCEPT ![c] = to]
  BY <1>2, <1>5, <1>7, <1>9, <1>11, <1>13
<1>15. Knows(to)
  BY <1>1, <1>2, <1>4, <1>12 DEF Knows, KnowsSection, KnowsCourse, OfCourses
<1> QED
  BY <1>12, <1>14, <1>15, QuietJobKeeps DEF FetchBefore, MoodleInv

LEMMA SectionIsAdded ==
  ASSUME MoodleInv, sections' = Added, lastId' = lastId + 1
  PROVE  SectionsStay
<1>1. PICK new : new = [id |-> lastId + 1, name |-> Unnamed]
  OBVIOUS
<1>2. /\ new \in Section /\ new.id = lastId + 1
      /\ sections' = Append(sections, new)
      /\ sections \in Seq(Section) /\ lastId \in Nat /\ Len(sections) \in Nat
  BY <1>1 DEF Added, Section, MoodleInv
<1>3. /\ sections' \in Seq(Section) /\ lastId' \in Nat /\ lastId <= lastId'
      /\ DOMAIN sections = 1 .. Len(sections)
      /\ DOMAIN sections' = 1 .. Len(sections) + 1
      /\ sections'[Len(sections) + 1] = new
      /\ \A k \in 1 .. Len(sections) : sections'[k] = sections[k]
  BY <1>2
<1>4. \A k \in 1 .. Len(sections) : sections[k].id \in Nat /\ sections[k].id <= lastId
  BY <1>3, IdsAreNumbers DEF MoodleInv, InOrderOfIds
<1>5. \A k \in DOMAIN sections' : sections'[k].id <= lastId'
  BY <1>2, <1>3, <1>4
<1>6. ASSUME NEW i \in DOMAIN sections', NEW j \in DOMAIN sections', i < j
      PROVE  sections'[i].id < sections'[j].id
  <2>1. i \in 1 .. Len(sections)
    BY <1>2, <1>3, <1>6
  <2>2. CASE j = Len(sections) + 1
    BY <1>2, <1>3, <1>4, <2>1, <2>2
  <2>3. CASE j \in 1 .. Len(sections)
    BY <1>3, <1>6, <2>1, <2>3 DEF MoodleInv, InOrderOfIds
  <2> QED
    BY <1>2, <1>3, <2>2, <2>3
<1>7. \A id \in SectionIds' : id \in SectionIds \/ id > lastId
  BY <1>2, <1>3 DEF SectionIds
<1> QED
  BY <1>3, <1>5, <1>6, <1>7 DEF SectionsStay, InOrderOfIds

LEMMA AddSectionKeeps ==
  ASSUME MoodleInv, NEW c \in Callers, AddSection(c)
  PROVE  MoodleInv'
<1>1. SectionsStay /\ lastId' = lastId + 1 /\ UNCHANGED <<made, mapping>>
  BY SectionIsAdded DEF AddSection
<1>2. CASE job' = [job EXCEPT ![c].at = "find", ![c].own = lastId + 1]
  <2>1. /\ job[c] \in Asking /\ job \in [Callers -> Asking] /\ job[c].id = 0
        /\ lastId \in Nat /\ \A id \in job[c].known : id <= lastId
    BY DEF AddSection, At, MoodleInv, Knows, KnowsSection, KnowsCourse, OfSections
  <2>2. PICK own \in Nat : own = lastId + 1
    BY <2>1
  <2>3. PICK one : one = [job[c] EXCEPT !.at = "find"]
    OBVIOUS
  <2>4. one \in Asking /\ one.at = "find" /\ one.id = 0 /\ one.known = job[c].known
    BY <2>1, <2>3 DEF Asking, OfSections
  <2>5. PICK to : to = [one EXCEPT !.own = own]
    OBVIOUS
  <2>6. /\ to \in Asking /\ to.at = "find" /\ to.id = 0 /\ to.known = job[c].known
        /\ to.own = own
    BY <2>2, <2>4, <2>5 DEF Asking
  <2>7. job' = [job EXCEPT ![c] = to]
    BY <1>2, <2>1, <2>2, <2>3, <2>5
  <2>8. to.own <= lastId' /\ to.own \notin to.known
    BY <1>1, <2>1, <2>2, <2>6
  <2>9. KnowsSection(to)'
    BY <2>6, <2>8 DEF KnowsSection
  <2>10. KnowsCourse(to)' /\ MappingStays
    BY <1>1, <2>6 DEF KnowsCourse, MappingStays, OfCourses
  <2> QED
    BY <1>1, <2>6, <2>7, <2>9, <2>10, JobKeeps DEF MoodleInv, Knows
<1>3. CASE Goto(c, "error")
  BY <1>1, <1>3, ErrorKeeps DEF MoodleInv
<1> QED
  BY <1>2, <1>3 DEF AddSection

\* The section a request added for itself is one of those it did not know, and
\* the last of these is of no lower id.
LEMMA FindAddedKeeps ==
  ASSUME MoodleInv, NEW c \in Callers, FindAdded(c)
  PROVE  MoodleInv'
<1>1. CASE Goto(c, "error")
  BY <1>1, ErrorKeeps, SectionsSame DEF MoodleInv, FindAdded
<1>2. ASSUME NEW i \in DOMAIN sections, sections[i].id \notin job[c].known,
             \A j \in DOMAIN sections : sections[j].id \notin job[c].known => j <= i,
             job' = [job EXCEPT ![c].at = "rename", ![c].target = sections[i].id]
      PROVE  MoodleInv'
  <2>1. PICK target \in Nat : target = sections[i].id
    BY IdsAreNumbers
  <2>2. /\ job[c] \in Asking /\ job \in [Callers -> Asking] /\ job[c].id = 0
        /\ job[c].own \notin job[c].known /\ job[c].own <= lastId
    BY DEF MoodleInv, FindAdded, At, Knows, KnowsSection, KnowsCourse, OfSections
  <2>3. PICK one : one = [job[c] EXCEPT !.at = "rename"]
    OBVIOUS
  <2>4. /\ one \in Asking /\ one.at = "rename" /\ one.id = 0 /\ one.known = job[c].known
        /\ one.own = job[c].own
    BY <2>2, <2>3 DEF Asking, OfSections
  <2>5. PICK to : to = [one EXCEPT !.target = target]
    OBVIOUS
  <2>6. /\ to \in Asking /\ to.at = "rename" /\ to.id = 0 /\ to.known = job[c].known
        /\ to.own = job[c].own /\ to.target = target
    BY <2>4, <2>5 DEF Asking
  <2>7. job' = [job EXCEPT ![c] = to]
    BY <1>2, <2>1, <2>2, <2>3, <2>5
  <2>8. ASSUME to.own \in SectionIds
        PROVE  to.own <= to.target
    <3>1. PICK k \in DOMAIN sections : sections[k].id = to.own
      BY <2>8 DEF SectionIds
    <3>2. k <= i
      BY <1>2, <2>2, <2>6, <3>1
    <3>3. k \in Nat /\ i \in Nat
      BY DEF MoodleInv
    <3>4. CASE k = i
      BY <2>1, <2>6, <3>1, <3>4
    <3>5. CASE k < i
      <4>1. sections[k].id < sections[i].id
        BY <3>5 DEF MoodleInv, InOrderOfIds
      <4> QED
        BY <2>1, <2>6, <3>1, <4>1, IdsAreNumbers
    <3> QED
      BY <3>2, <3>3, <3>4, <3>5
  <2>9. Knows(to)
    BY <1>2, <2>1, <2>2, <2>6, <2>8 DEF Knows, KnowsSection, KnowsCourse, OfCourses
  <2> QED
    BY <2>6, <2>7, <2>9, QuietJobKeeps DEF FindAdded, MoodleInv
<1> QED
  BY <1>1, <1>2 DEF FindAdded

LEMMA RenameKeeps ==
  ASSUME MoodleInv, NEW c \in Callers, Rename(c)
  PROVE  MoodleInv'
<1>1. PICK at, name : at = Position(job[c].target) /\ name = job[c].name
  OBVIOUS
<1>2. at \in DOMAIN sections
  BY <1>1 DEF Rename, SectionIds, Position
<1>3. name \in SectionNames \cup {Unnamed} /\ sections[at] \in Section
  BY <1>1, <1>2 DEF MoodleInv, Asking
<1>4. PICK row : row = [sections[at] EXCEPT !.name = name]
  OBVIOUS
<1>5. row \in Section
  BY <1>3, <1>4 DEF Section
<1>6. sections' = [sections EXCEPT ![at] = row]
  BY <1>1, <1>2, <1>4 DEF Rename, MoodleInv
<1>7. SectionsStay /\ SectionIds' = SectionIds
  <2>1. sections \in [1 .. Len(sections) -> Section] /\ Len(sections) \in Nat
    BY DEF MoodleInv
  <2>2. sections' \in [1 .. Len(sections) -> Section]
    BY <1>5, <1>6, <2>1
  <2>3. row.id = sections[at].id
    BY <1>3, <1>4 DEF Section
  <2>4. \A k \in 1 .. Len(sections) : sections'[k].id = sections[k].id
    BY <1>6, <2>1, <2>3
  <2>5. /\ DOMAIN sections = 1 .. Len(sections) /\ DOMAIN sections' = 1 .. Len(sections)
        /\ sections' \in Seq(Section)
    BY <2>1, <2>2
  <2>6. SectionIds' = SectionIds
    BY <2>4, <2>5 DEF SectionIds
  <2>7. lastId' = lastId /\ lastId \in Nat /\ InOrderOfIds
    BY DEF Rename, MoodleInv
  <2>8. InOrderOfIds'
    BY <2>4, <2>5, <2>7 DEF InOrderOfIds
  <2> QED
    BY <2>5, <2>6, <2>7, <2>8 DEF SectionsStay
<1>8. CASE Goto(c, "after")
  <2>1. "after" \in OfSections
    BY DEF OfSections
  <2>2. PICK to \in Asking :
          /\ job' = [job EXCEPT ![c] = to] /\ to.at = "after" /\ to.id = job[c].id
          /\ to.created = job[c].created /\ to.target = job[c].target /\ to.known = job[c].known
          /\ to.own = job[c].own
    BY <1>8, <2>1, GotoIs
  <2>3. /\ job[c].id = 0 /\ lastId' = lastId
        /\ KnowsSection(job[c]) /\ job[c].at = "rename"
    BY DEF Rename, At, MoodleInv, Knows, KnowsCourse, OfSections
  <2>4. KnowsSection(to)'
    BY <1>7, <2>2, <2>3 DEF KnowsSection
  <2>5. KnowsCourse(to)' /\ MappingStays
    BY <2>2, <2>3 DEF KnowsCourse, MappingStays, OfCourses, Rename
  <2> QED
    BY <1>7, <2>2, <2>4, <2>5, JobKeeps DEF MoodleInv, Rename, Knows
<1>9. CASE Goto(c, "error")
  BY <1>7, <1>9, ErrorKeeps DEF MoodleInv, Rename
<1> QED
  BY <1>8, <1>9 DEF Rename

\* A request that was told what it wanted to know.
LEMMA AnswerKeeps ==
  ASSUME MoodleInv, NEW c \in Callers, Goto(c, "ok"), UNCHANGED <<sections, lastId, made>>,
         mapping' \in [MoodleCourses -> Nat], MappingStays,
         job[c].at \in OfSections \cup OfCourses,
         job[c].created => job[c].at = "after",
         job[c].id # 0 => mapping'[job[c].course] = job[c].id
  PROVE  MoodleInv'
<1>1. PICK to \in Asking :
        /\ job' = [job EXCEPT ![c] = to] /\ to.at = "ok" /\ to.id = job[c].id
        /\ to.created = job[c].created /\ to.target = job[c].target /\ to.known = job[c].known
        /\ to.course = job[c].course /\ to.own = job[c].own
  BY GotoIs
<1>2. KnowsSection(job[c]) /\ KnowsCourse(job[c]) /\ SectionIds' = SectionIds
  BY DEF MoodleInv, Knows, SectionIds
<1>3. KnowsSection(to)'
  BY <1>1, <1>2 DEF KnowsSection
<1>4. KnowsCourse(to)'
  BY <1>1, <1>2 DEF KnowsCourse, OfSections, OfCourses
<1> QED
  BY <1>1, <1>3, <1>4, JobKeeps, SectionsSame DEF MoodleInv, Knows

LEMMA FetchAfterKeeps ==
  ASSUME MoodleInv, NEW c \in Callers, FetchAfter(c)
  PROVE  MoodleInv'
<1>1. CASE Goto(c, "ok")
  <2>1. job[c].at = "after" /\ job[c].at \in OfSections /\ job[c].id = 0
    BY DEF FetchAfter, At, MoodleInv, Knows, KnowsCourse, OfSections
  <2> QED
    BY <1>1, <2>1, AnswerKeeps DEF FetchAfter, MoodleInv, MappingStays
<1>2. CASE Goto(c, "error")
  BY <1>2, ErrorKeeps, SectionsSame DEF FetchAfter, MoodleInv
<1> QED
  BY <1>1, <1>2 DEF FetchAfter

LEMMA CreateCourseKeeps ==
  ASSUME MoodleInv, NEW c \in Callers, CreateCourse(c)
  PROVE  MoodleInv'
<1>1. PICK course, idle :
        /\ course \in MoodleCourses /\ idle = Idle
        /\ job' = [job EXCEPT ![c] = [idle EXCEPT !.at = "exists", !.course = course]]
  BY DEF CreateCourse
<1>2. idle \in Asking /\ idle.id = 0 /\ ~idle.created /\ idle.own = 0
  BY <1>1, IdleIs
<1>3. PICK one : one = [idle EXCEPT !.at = "exists"]
  OBVIOUS
<1>4. one \in Asking /\ one.at = "exists" /\ one.id = 0 /\ ~one.created /\ one.own = 0
  BY <1>2, <1>3 DEF Asking, OfCourses
<1>5. PICK to : to = [one EXCEPT !.course = course]
  OBVIOUS
<1>6. /\ to \in Asking /\ to.at = "exists" /\ to.id = 0 /\ ~to.created /\ to.course = course
      /\ to.own = 0
  BY <1>1, <1>4, <1>5 DEF Asking
<1>7. to = [idle EXCEPT !.at = "exists", !.course = course]
  BY <1>2, <1>3, <1>5 DEF Asking
<1>8. Knows(to)
  BY <1>1, <1>6 DEF Knows, KnowsSection, KnowsCourse, OfSections, MoodleInv
<1> QED
  BY <1>1, <1>6, <1>7, <1>8, QuietJobKeeps DEF CreateCourse, MoodleInv

LEMMA SaveMappingKeeps ==
  ASSUME MoodleInv, NEW c \in Callers, SaveMapping(c)
  PROVE  MoodleInv'
<1>1. PICK course, id, idle :
        /\ course \in MoodleCourses /\ id \in 1 .. made /\ idle = Idle
        /\ job' = [job EXCEPT ![c] = [idle EXCEPT !.at = "look", !.course = course, !.id = id]]
  BY DEF SaveMapping
<1>2. idle \in Asking /\ ~idle.created /\ idle.own = 0
  BY <1>1, IdleIs
<1>3. PICK one : one = [idle EXCEPT !.at = "look"]
  OBVIOUS
<1>4. one \in Asking /\ one.at = "look" /\ ~one.created /\ one.own = 0
  BY <1>2, <1>3 DEF Asking, OfCourses
<1>5. PICK two : two = [one EXCEPT !.course = course]
  OBVIOUS
<1>6. two \in Asking /\ two.at = "look" /\ ~two.created /\ two.course = course /\ two.own = 0
  BY <1>1, <1>4, <1>5 DEF Asking
<1>7. PICK to : to = [two EXCEPT !.id = id]
  OBVIOUS
<1>8. to \in Asking /\ to.at = "look" /\ ~to.created /\ to.course = course /\ to.own = 0
  BY <1>1, <1>6, <1>7 DEF Asking
<1>9. to = [idle EXCEPT !.at = "look", !.course = course, !.id = id]
  BY <1>2, <1>3, <1>5, <1>7 DEF Asking
<1>10. Knows(to)
  BY <1>1, <1>8 DEF Knows, KnowsSection, KnowsCourse, OfSections, MoodleInv
<1> QED
  BY <1>1, <1>8, <1>9, <1>10, QuietJobKeeps DEF SaveMapping, MoodleInv

\* A request for a course goes on.
LEMMA CourseGoesOn ==
  ASSUME MoodleInv, NEW c \in Callers, job[c].at \in OfCourses,
         NEW place \in OfCourses \cup {"conflict"}, Goto(c, place),
         UNCHANGED <<sections, lastId, made, mapping>>
  PROVE  MoodleInv'
<1>1. PICK to \in Asking :
        /\ job' = [job EXCEPT ![c] = to] /\ to.at = place
        /\ place = "conflict" => ~to.created /\ to.id = 0 /\ to.own = 0
        /\ place # "conflict" => /\ to.created = job[c].created /\ to.id = job[c].id
                                 /\ to.own = job[c].own
                                 /\ to.course = job[c].course
  BY GotoIs DEF OfCourses
<1>2. ~job[c].created /\ job[c].course \in MoodleCourses /\ job[c].own <= lastId /\ lastId \in Nat
  BY DEF MoodleInv, Knows, KnowsSection, KnowsCourse
<1>3. Knows(to)
  BY <1>1, <1>2 DEF Knows, KnowsSection, KnowsCourse, OfSections, OfCourses
<1> QED
  BY <1>1, <1>3, QuietJobKeeps DEF MoodleInv

LEMMA MappingExistsKeeps ==
  ASSUME MoodleInv, NEW c \in Callers, MappingExists(c)
  PROVE  MoodleInv'
<1>1. /\ job[c].at \in OfCourses /\ ~job[c].created /\ job[c].course \in MoodleCourses
      /\ "create" \in OfCourses /\ job[c].own <= lastId
  BY DEF MappingExists, At, MoodleInv, Knows, KnowsSection, KnowsCourse, OfCourses
<1>2. CASE Goto(c, "create")
  BY <1>1, <1>2, CourseGoesOn DEF MappingExists
<1>3. CASE Goto(c, "error")
  BY <1>3, ErrorKeeps, SectionsSame DEF MappingExists, MoodleInv
<1>4. CASE job' = [job EXCEPT ![c].at = "ok", ![c].id = mapping[job[c].course]]
  <2>1. PICK id \in Nat : id = mapping[job[c].course]
    BY <1>1 DEF MoodleInv
  <2>2. PICK to \in Asking : /\ job' = [job EXCEPT ![c] = to] /\ to.at = "ok" /\ to.id = id
                             /\ ~to.created /\ to.course = job[c].course
                             /\ to.own = job[c].own
    <3>1. job' = [job EXCEPT ![c].at = "ok", ![c].id = id]
      BY <1>4, <2>1
    <3>2. \E to \in Asking : /\ job' = [job EXCEPT ![c] = to] /\ to.at = "ok" /\ to.id = id
                             /\ to.created = job[c].created /\ to.course = job[c].course
                             /\ to.own = job[c].own
      BY <3>1, IdIs, ZenonT(60)
    <3> QED
      BY <1>1, <3>2
  <2>3. Knows(to)
    BY <1>1, <2>1, <2>2 DEF Knows, KnowsSection, KnowsCourse, OfSections, OfCourses
  <2> QED
    BY <2>2, <2>3, QuietJobKeeps DEF MappingExists, MoodleInv
<1> QED
  BY <1>2, <1>3, <1>4 DEF MappingExists

LEMMA CourseCreatedKeeps ==
  ASSUME MoodleInv, NEW c \in Callers, CourseCreated(c)
  PROVE  MoodleInv'
<1>1. ~job[c].created /\ job[c].course \in MoodleCourses /\ made' \in Nat /\ made + 1 \in Nat
      /\ job[c].own <= lastId
  BY DEF CourseCreated, At, MoodleInv, Knows, KnowsSection, KnowsCourse, OfCourses
<1>2. CASE Goto(c, "error")
  BY <1>1, <1>2, ErrorKeeps, SectionsSame DEF CourseCreated, MoodleInv
<1>3. CASE job' = [job EXCEPT ![c].at = "look", ![c].id = made + 1]
  <2>1. PICK to \in Asking : /\ job' = [job EXCEPT ![c] = to] /\ to.at = "look"
                             /\ ~to.created /\ to.course = job[c].course
                             /\ to.own = job[c].own
    <3>1. PICK id \in Nat : id = made + 1
      BY <1>1
    <3>2. job' = [job EXCEPT ![c].at = "look", ![c].id = id]
      BY <1>3, <3>1
    <3>3. \E to \in Asking : /\ job' = [job EXCEPT ![c] = to] /\ to.at = "look" /\ to.id = id
                             /\ to.created = job[c].created /\ to.course = job[c].course
                             /\ to.own = job[c].own
      BY <3>2, IdIs, ZenonT(60)
    <3> QED
      BY <1>1, <3>3
  <2>2. Knows(to)
    BY <1>1, <2>1 DEF Knows, KnowsSection, KnowsCourse, OfSections
  <2> QED
    BY <1>1, <2>1, <2>2, QuietJobKeeps DEF CourseCreated
<1> QED
  BY <1>2, <1>3 DEF CourseCreated

LEMMA MappingMadeKeeps ==
  ASSUME MoodleInv, NEW c \in Callers, Look(c) \/ Insert(c) \/ LookAgain(c)
  PROVE  MoodleInv'
<1>1. /\ job[c].at \in OfCourses /\ ~job[c].created /\ job[c].course \in MoodleCourses
      /\ {"insert", "again"} \subseteq OfCourses
      /\ job[c].id \in Nat /\ mapping \in [MoodleCourses -> Nat]
  BY DEF Look, Insert, LookAgain, At, MoodleInv, Knows, KnowsCourse, OfCourses, Asking
<1>2. CASE Goto(c, "ok") /\ mapping[job[c].course] = job[c].id
           /\ UNCHANGED <<sections, lastId, made, mapping>>
  BY <1>1, <1>2, AnswerKeeps DEF MappingStays
<1>3. ASSUME NEW place \in {"insert", "again", "conflict"}, Goto(c, place),
             UNCHANGED <<sections, lastId, made, mapping>>
      PROVE  MoodleInv'
  BY <1>1, <1>3, CourseGoesOn
<1>4. CASE Look(c)
  BY <1>2, <1>3, <1>4 DEF Look
<1>5. CASE LookAgain(c)
  BY <1>2, <1>3, <1>5 DEF LookAgain
<1>6. CASE Insert(c) /\ UNCHANGED mapping /\ Goto(c, "again")
  BY <1>3, <1>6 DEF Insert
<1>7. CASE /\ mapping[job[c].course] = 0 /\ Goto(c, "ok")
           /\ mapping' = [mapping EXCEPT ![job[c].course] = job[c].id]
           /\ UNCHANGED <<sections, lastId, made>>
  <2>1. /\ mapping' \in [MoodleCourses -> Nat] /\ MappingStays
        /\ mapping'[job[c].course] = job[c].id
    BY <1>1, <1>7 DEF MappingStays
  <2> QED
    BY <1>1, <1>7, <2>1, AnswerKeeps
<1> QED
  BY <1>4, <1>5, <1>6, <1>7 DEF Insert

Without(t, s, i, n) == t = SubSeq(s, 1, i - 1) \o SubSeq(s, i + 1, n)

IsShifted(x, s, i, k) == (k < i /\ x = s[k]) \/ (k >= i /\ x = s[k + 1])

\* A sequence without one of its elements.
LEMMA WithoutOne ==
  ASSUME NEW S, NEW s \in Seq(S), NEW n \in Nat, n = Len(s), NEW i \in 1 .. n,
         NEW t, Without(t, s, i, n)
  PROVE  /\ t \in Seq(S) /\ Len(t) = n - 1
         /\ \A k \in 1 .. n - 1 : IsShifted(t[k], s, i, k)
<1>1. PICK before, later : before = SubSeq(s, 1, i - 1) /\ later = SubSeq(s, i + 1, n)
  OBVIOUS
<1>2. /\ before \in Seq(S) /\ Len(before) = i - 1
      /\ \A k \in 1 .. i - 1 : before[k] = s[k]
  <2>1. \A k \in 1 .. i - 1 : s[k] \in S
    OBVIOUS
  <2> QED
    BY <1>1, <2>1, SubSeqProperties
<1>3. /\ later \in Seq(S) /\ Len(later) = n - i
      /\ \A k \in 1 .. n - i : later[k] = s[i + k]
  <2>1. \A k \in i + 1 .. n : s[k] \in S
    OBVIOUS
  <2>2. /\ SubSeq(s, i + 1, n) \in Seq(S)
        /\ Len(SubSeq(s, i + 1, n)) = IF i + 1 <= n THEN n - (i + 1) + 1 ELSE 0
        /\ \A k \in 1 .. n - (i + 1) + 1 : SubSeq(s, i + 1, n)[k] = s[i + 1 + k - 1]
    BY <2>1, SubSeqProperties
  <2> QED
    BY <1>1, <2>2
<1>4. /\ before \o later \in Seq(S)
      /\ Len(before \o later) = Len(before) + Len(later)
      /\ \A k \in 1 .. Len(before) + Len(later) : (before \o later)[k] =
           IF k <= Len(before) THEN before[k] ELSE later[k - Len(before)]
  BY <1>2, <1>3, ConcatProperties
<1>5. Len(before \o later) = n - 1
  BY <1>2, <1>3, <1>4
<1>6. ASSUME NEW k \in 1 .. n - 1
      PROVE  IsShifted((before \o later)[k], s, i, k)
  <2>1. k \in Int /\ k \in 1 .. Len(before) + Len(later)
    BY <1>2, <1>3, <1>6
  <2>2. CASE k < i
    <3>1. (before \o later)[k] = before[k]
      BY <1>2, <1>4, <2>1, <2>2
    <3>2. k \in 1 .. i - 1
      BY <1>6, <2>2
    <3>3. before[k] = s[k]
      BY <1>2, <3>2
    <3> QED
      BY <2>2, <3>1, <3>3, Zenon DEF IsShifted
  <2>3. CASE k >= i
    <3>1. k - (i - 1) \in 1 .. n - i /\ i + (k - (i - 1)) = k + 1
      BY <1>6, <2>3
    <3>2. (before \o later)[k] = later[k - (i - 1)]
      BY <1>2, <1>4, <2>1, <2>3
    <3>3. later[k - (i - 1)] = s[k + 1]
      BY <1>3, <3>1
    <3> QED
      BY <2>3, <3>2, <3>3 DEF IsShifted
  <2> QED
    BY <2>1, <2>2, <2>3
<1> QED
  BY <1>1, <1>4, <1>5, <1>6, Zenon DEF Without

\* The sections without one of them are in the same order.
LEMMA SectionIsGone ==
  ASSUME MoodleInv, NEW i \in DOMAIN sections, UNCHANGED lastId,
         Without(sections', sections, i, Len(sections))
  PROVE  SectionsStay
<1>1. PICK n \in Nat : n = Len(sections)
  BY DEF MoodleInv
<1>2. sections \in Seq(Section) /\ DOMAIN sections = 1 .. n /\ i \in 1 .. n /\ lastId \in Nat
  BY <1>1 DEF MoodleInv
<1>3. PICK s, t : s = sections /\ t = sections' /\ Without(t, s, i, n)
  BY <1>1
<1>4. /\ sections' \in Seq(Section) /\ Len(sections') = n - 1
      /\ \A k \in 1 .. n - 1 : IsShifted(sections'[k], sections, i, k)
  <2>1. s \in Seq(Section) /\ n = Len(s) /\ n \in Nat /\ i \in 1 .. n
    BY <1>1, <1>2, <1>3
  <2>2. /\ t \in Seq(Section) /\ Len(t) = n - 1
        /\ \A k \in 1 .. n - 1 : IsShifted(t[k], s, i, k)
    BY <1>3, <2>1, WithoutOne
  <2> QED
    BY <1>3, <2>2, Zenon
<1>5. DOMAIN sections' = 1 .. n - 1
  <2>1. DOMAIN sections' = 1 .. Len(sections')
    BY <1>4
  <2> QED
    BY <1>4, <2>1, Zenon
<1>6. \A k \in 1 .. n - 1 : \/ k < i /\ sections'[k] = sections[k]
                            \/ k >= i /\ sections'[k] = sections[k + 1]
  BY <1>4, Zenon DEF IsShifted
<1>7. \A j, k \in 1 .. n : j < k => sections[j].id < sections[k].id
  BY <1>2 DEF MoodleInv, InOrderOfIds
<1>8. ASSUME NEW j \in 1 .. n - 1, NEW k \in 1 .. n - 1, j < k
      PROVE  sections'[j].id < sections'[k].id
  <2>1. /\ j \in 1 .. n /\ k \in 1 .. n /\ j + 1 \in 1 .. n /\ k + 1 \in 1 .. n
        /\ j < k + 1 /\ j + 1 < k + 1
    BY <1>1, <1>8
  <2>2. CASE k < i
    <3>1. ~(j >= i) /\ ~(k >= i)
      BY <1>2, <1>8, <2>2
    <3>2. sections'[j] = sections[j] /\ sections'[k] = sections[k]
      BY <1>6, <1>8, <3>1, Zenon
    <3> QED
      BY <1>7, <1>8, <2>1, <3>2, Zenon
  <2>3. CASE j < i /\ k >= i
    <3>1. ~(j >= i) /\ ~(k < i)
      BY <1>2, <1>8, <2>3
    <3>2. sections'[j] = sections[j] /\ sections'[k] = sections[k + 1]
      BY <1>6, <1>8, <3>1, Zenon
    <3> QED
      BY <1>7, <1>8, <2>1, <3>2, Zenon
  <2>4. CASE j >= i
    <3>1. ~(j < i) /\ ~(k < i)
      BY <1>2, <1>8, <2>4
    <3>2. sections'[j] = sections[j + 1] /\ sections'[k] = sections[k + 1]
      BY <1>6, <1>8, <3>1, Zenon
    <3>3. sections[j + 1].id < sections[k + 1].id
      BY <1>7, <2>1
    <3> QED
      BY <3>2, <3>3
  <2>5. (k < i) \/ (j < i /\ k >= i) \/ (j >= i)
    BY <1>2, <1>8
  <2> QED
    BY <2>2, <2>3, <2>4, <2>5
<1>9. \A k \in 1 .. n - 1 : \E a \in 1 .. n : sections'[k] = sections[a]
  <2>1. ASSUME NEW k \in 1 .. n - 1
        PROVE  \E a \in 1 .. n : sections'[k] = sections[a]
    <3>1. CASE k < i
      BY <1>1, <1>6, <2>1, <3>1
    <3>2. CASE ~(k < i)
      <4>1. k + 1 \in 1 .. n
        BY <1>1, <2>1
      <4> QED
        BY <1>6, <2>1, <3>2, <4>1
    <3> QED
      BY <3>1, <3>2
  <2> QED
    BY <2>1
<1>10. \A k \in 1 .. n - 1 : sections'[k].id <= lastId /\ sections'[k].id \in SectionIds
  BY <1>2, <1>9 DEF MoodleInv, InOrderOfIds, SectionIds
<1>11. SectionIds' \subseteq SectionIds
  BY <1>5, <1>10 DEF SectionIds
<1>12. InOrderOfIds'
  BY <1>5, <1>8, <1>10 DEF InOrderOfIds
<1> QED
  BY <1>2, <1>4, <1>11, <1>12 DEF SectionsStay

LEMMA SectionDeletedKeeps ==
  ASSUME MoodleInv, SectionDeleted
  PROVE  MoodleInv'
<1>1. SectionsStay
  BY SectionIsGone DEF SectionDeleted, Without
<1>2. ASSUME NEW c \in Callers
      PROVE  Knows(job[c])'
  <2>1. PICK j \in Asking : j = job[c] /\ Knows(j)
    BY DEF MoodleInv
  <2>2. KnowsSection(j)'
    BY <1>1, <2>1, KnowsSectionStays DEF Knows
  <2> QED
    BY <2>1, <2>2 DEF SectionDeleted, Knows, KnowsSection, KnowsCourse
<1> QED
  BY <1>1, <1>2 DEF MoodleInv, SectionDeleted, SectionsStay

LEMMA MoodleKeeps ==
  ASSUME MoodleInv, [MoodleNext]_moodleVars
  PROVE  MoodleInv'
<1>1. CASE UNCHANGED moodleVars
  BY <1>1 DEF moodleVars, MoodleInv, Knows, KnowsSection, KnowsCourse, InOrderOfIds, SectionIds
<1>2. ASSUME NEW c \in Callers, CallFails(c)
      PROVE  MoodleInv'
  BY <1>2, ErrorKeeps, SectionsSame DEF CallFails, MoodleInv
<1> QED
  BY <1>1, <1>2, SaveSectionKeeps, FetchBeforeKeeps, AddSectionKeeps, FindAddedKeeps,
     RenameKeeps, FetchAfterKeeps, CreateCourseKeeps, MappingExistsKeeps, CourseCreatedKeeps,
     SaveMappingKeeps, MappingMadeKeeps, SectionDeletedKeeps DEF MoodleNext

LEMMA MoodleInvariant == ServicesSpec => []MoodleInv
<1>1. ASSUME ServicesInit PROVE MoodleInv
  <2>1. /\ sections = <<[id |-> 0, name |-> Unnamed]>> /\ lastId = 0 /\ made = 0
        /\ mapping = [k \in MoodleCourses |-> 0] /\ job = [c \in Callers |-> Idle]
    BY <1>1 DEF ServicesInit, MoodleInit
  <2>2. [id |-> 0, name |-> Unnamed] \in Section
    BY DEF Section
  <2>3. Knows(Idle)
    BY <2>1, IdleIs DEF Knows, KnowsSection, KnowsCourse, OfSections, OfCourses
  <2>4. InOrderOfIds
    BY <2>1 DEF InOrderOfIds
  <2> QED
    BY <2>1, <2>2, <2>3, <2>4, IdleIs DEF MoodleInv
<1>2. MoodleInv /\ [ServicesNext]_servicesVars => MoodleInv'
  BY EachAlone, MoodleKeeps
<1> QED
  BY <1>1, <1>2, PTL DEF ServicesSpec

\* However many requests add sections at once and whatever others delete
\* meanwhile, the section a creator takes for its own is no earlier than the one
\* Moodle added for it, so that the last of them takes its own; if its own is gone,
\* it is at least none that was there when the request began (_add_section).
THEOREM OwnOrLaterIsTaken == ServicesSpec => []CreatorsTakeTheirOwnOrLater
<1>1. MoodleInv => CreatorsTakeTheirOwnOrLater
  BY DEF MoodleInv, Knows, KnowsSection, CreatorsTakeTheirOwnOrLater
<1> QED
  BY <1>1, MoodleInvariant, PTL

\* Of any number of requests that create or map a course at the same time, each
\* that is answered with a Moodle course is answered with the one that is mapped,
\* from then on (SqlMoodleMappingRepository.save).
THEOREM MappedIsAnswered == ServicesSpec => []AnswersAreMapped
<1>1. MoodleInv => AnswersAreMapped
  BY DEF MoodleInv, Knows, KnowsCourse, AnswersAreMapped
<1> QED
  BY <1>1, MoodleInvariant, PTL

-----------------------------------------------------------------------------
(* The accounts.                                                           *)

Bearing == {"in", "check", "served", "unauthenticated", "denied"}

Client == [at : {"out", "byUsername"} \cup Bearing,
           username : Usernames, password : Passwords, user : Nat, role : Roles,
           policy : Policies \cup {Out.policy}, since : SUBSET Roles]

Seeding == [at : {"idle", "name", "create", "update", "activate", "done", "conflict"},
            id : Nat, was : SUBSET User]

\* Who bears a token is a user, and a request that is being checked knows what
\* its user is right now.
KnowsUser(r) ==
  /\ request[r].at \in Bearing => request[r].user \in DOMAIN users
  /\ request[r].at = "check" /\ users[request[r].user].active =>
       users[request[r].user].role \in request[r].since
  /\ request[r].at = "served" => request[r].since \cap request[r].policy # {}

\* The user a seed has found has the account's email.
SeedsOwn(s) ==
  /\ seed[s].at \in {"update", "activate"} => seed[s].id # 0
  /\ seed[s].id # 0 => seed[s].id \in DOMAIN users /\ users[seed[s].id].email = SeedEmail

AccountsInv ==
  /\ users \in Seq(User)
  /\ request \in [Requests -> Client]
  /\ seed \in [Seeds -> Seeding]
  /\ \A r \in Requests : KnowsUser(r)
  /\ \A s \in Seeds : SeedsOwn(s)

\* Users are added and keep their email.
UsersStay(rows) ==
  /\ rows \in Seq(User) /\ DOMAIN users \subseteq DOMAIN rows
  /\ \A i \in DOMAIN users : rows[i].email = users[i].email

LEMMA SeedUserIs == SeedUser \in User /\ SeedUser.email = SeedEmail
BY AccountsAssumption DEF SeedUser, User

LEMMA OutIs ==
  /\ Out \in Client /\ Out.at = "out"
<1>1. PICK policy : policy = Out.policy
  OBVIOUS
<1>2. Out = [at |-> "out", username |-> SeedUsername, password |-> SeedPassword, user |-> 0,
             role |-> SeedRole, policy |-> policy, since |-> {}]
  BY <1>1 DEF Out
<1> HIDE DEF Out
<1> QED
  BY <1>1, <1>2, AccountsAssumption DEF Client

LEMMA AppendStays ==
  ASSUME AccountsInv, NEW user \in User
  PROVE  /\ UsersStay(Append(users, user))
         /\ \A i \in DOMAIN users : Append(users, user)[i] = users[i]
BY DEF UsersStay, AccountsInv

LEMMA RowStays ==
  ASSUME AccountsInv, NEW i \in DOMAIN users, NEW row \in User, row.email = users[i].email
  PROVE  UsersStay([users EXCEPT ![i] = row])
<1>1. users \in [1 .. Len(users) -> User] /\ Len(users) \in Nat /\ i \in 1 .. Len(users)
  BY DEF AccountsInv
<1>2. [users EXCEPT ![i] = row] \in [1 .. Len(users) -> User]
  BY <1>1
<1>3. [users EXCEPT ![i] = row] \in Seq(User)
  BY <1>1, <1>2
<1> QED
  BY <1>1, <1>3 DEF UsersStay

\* The requests learn of a write what they have to.
LEMMA StoreKeeps ==
  ASSUME AccountsInv, NEW rows, UsersStay(rows), Store(rows),
         seed' \in [Seeds -> Seeding], \A s \in Seeds : SeedsOwn(s)'
  PROVE  AccountsInv'
<1>1. users' = rows /\ users' \in Seq(User) /\ DOMAIN users \subseteq DOMAIN users'
  BY DEF Store, UsersStay
<1>2. ASSUME NEW r \in Requests
      PROVE  request'[r] \in Client /\ KnowsUser(r)'
  <2>1. request[r] \in Client /\ KnowsUser(r)
    BY DEF AccountsInv
  <2>2. PICK u : u = request[r].user
    OBVIOUS
  <2>3. CASE request[r].at = "check" /\ u \in DOMAIN users /\ rows[u].active
    <3>1. request'[r] = [request[r] EXCEPT !.since = request[r].since \cup {rows[u].role}]
      BY <2>2, <2>3 DEF Store
    <3>2. rows[u].role \in Roles
      <4>1. rows[u] \in User
        BY <2>3 DEF UsersStay
      <4> QED
        BY <4>1 DEF User
    <3>3. /\ request'[r] \in Client /\ request'[r].at = "check" /\ request'[r].user = u
          /\ rows[u].role \in request'[r].since
      BY <2>1, <2>2, <2>3, <3>1, <3>2 DEF Client
    <3> QED
      BY <1>1, <2>3, <3>3 DEF KnowsUser
  <2>4. CASE ~(request[r].at = "check" /\ u \in DOMAIN users /\ rows[u].active)
    <3>1. request'[r] = request[r]
      BY <2>2, <2>4 DEF Store
    <3> QED
      BY <1>1, <2>1, <2>2, <2>4, <3>1 DEF KnowsUser, Bearing
  <2> QED
    BY <2>3, <2>4
<1>3. request' = [r \in Requests |-> request'[r]]
  BY DEF Store
<1>4. request' \in [Requests -> Client]
  BY <1>2, <1>3
<1> QED
  BY <1>1, <1>2, <1>4 DEF AccountsInv

LEMMA SeedsStay ==
  ASSUME AccountsInv, UsersStay(users'), NEW s \in Seeds, seed'[s] = seed[s]
  PROVE  SeedsOwn(s)'
BY DEF AccountsInv, UsersStay, SeedsOwn

LEMMA UserServiceKeeps ==
  ASSUME AccountsInv, CreateUser \/ UpdateUser
  PROVE  AccountsInv'
<1>1. ASSUME NEW rows, UsersStay(rows), Store(rows), UNCHANGED seed
      PROVE  AccountsInv'
  <2>1. UsersStay(users')
    BY <1>1 DEF Store
  <2>2. seed' \in [Seeds -> Seeding] /\ \A s \in Seeds : SeedsOwn(s)'
    BY <1>1, <2>1, SeedsStay DEF AccountsInv
  <2> QED
    BY <1>1, <2>2, StoreKeeps
<1>2. CASE CreateUser
  BY <1>1, <1>2, AppendStays DEF CreateUser
<1>3. CASE UpdateUser
  <2>1. PICK i, row :
          /\ i \in DOMAIN users
          /\ row \in {[users[i] EXCEPT !.active = a] : a \in BOOLEAN}
                 \cup {[users[i] EXCEPT !.role = x] : x \in Roles}
                 \cup {[users[i] EXCEPT !.username = x] : x \in Usernames}
                 \cup {[users[i] EXCEPT !.password = x] : x \in Passwords \cup {NoPassword}}
          /\ Store([users EXCEPT ![i] = row])
    BY <1>3 DEF UpdateUser
  <2>2. users[i] \in User
    BY <2>1 DEF AccountsInv
  <2>3. row \in User /\ row.email = users[i].email
    BY <2>1, <2>2 DEF User
  <2> QED
    BY <1>1, <1>3, <2>1, <2>3, RowStays DEF UpdateUser
<1> QED
  BY <1>2, <1>3

LEMMA ClientKeeps ==
  ASSUME AccountsInv, NEW r \in Requests, NEW to \in Client,
         request' = [request EXCEPT ![r] = to], UNCHANGED <<users, seed>>,
         to.at \in Bearing => to.user \in DOMAIN users,
         to.at = "check" /\ users[to.user].active => users[to.user].role \in to.since,
         to.at = "served" => to.since \cap to.policy # {}
  PROVE  AccountsInv'
<1>1. /\ request' \in [Requests -> Client] /\ request'[r] = to
      /\ \A q \in Requests \ {r} : request'[q] = request[q]
  BY DEF AccountsInv
<1> QED
  BY <1>1 DEF AccountsInv, KnowsUser, SeedsOwn

\* Whom a login lets in.
LEMMA EntersKeeps ==
  ASSUME AccountsInv, NEW r \in Requests, NEW i \in DOMAIN users, NEW from \in Client,
         request' = [request EXCEPT ![r] = [from EXCEPT !.at = "in", !.user = i,
                                                         !.role = users[i].role]],
         UNCHANGED <<users, seed>>
  PROVE  AccountsInv'
<1>1. PICK role : role = users[i].role
  OBVIOUS
<1>2. role \in Roles /\ i \in Nat
  <2>1. users[i] \in User
    BY DEF AccountsInv
  <2> QED
    BY <1>1, <2>1 DEF User, AccountsInv
<1>3. PICK one : one = [from EXCEPT !.at = "in"]
  OBVIOUS
<1>4. one \in Client /\ one.at = "in"
  BY <1>3 DEF Client, Bearing
<1>5. PICK two : two = [one EXCEPT !.user = i]
  OBVIOUS
<1>6. two \in Client /\ two.at = "in" /\ two.user = i
  BY <1>2, <1>4, <1>5 DEF Client
<1>7. PICK to : to = [two EXCEPT !.role = role]
  OBVIOUS
<1>8. to \in Client /\ to.at = "in" /\ to.user = i
  BY <1>2, <1>6, <1>7 DEF Client
<1>9. to = [from EXCEPT !.at = "in", !.user = i, !.role = users[i].role]
  BY <1>1, <1>3, <1>5, <1>7 DEF Client
<1>10. request' = [request EXCEPT ![r] = to]
  BY <1>9
<1> QED
  BY <1>8, <1>10, ClientKeeps

LEMMA LeavesKeeps ==
  ASSUME AccountsInv, NEW r \in Requests, request' = [request EXCEPT ![r] = Out],
         UNCHANGED <<users, seed>>
  PROVE  AccountsInv'
BY OutIs, ClientKeeps DEF Bearing

LEMMA LoginKeeps ==
  ASSUME AccountsInv, NEW r \in Requests, LoginByEmail(r) \/ LoginByUsername(r)
  PROVE  AccountsInv'
<1>1. request[r] \in Client /\ request \in [Requests -> Client]
  BY DEF AccountsInv
<1>2. CASE LoginByEmail(r)
  <2>1. PICK i \in DOMAIN users :
          \/ request' = [request EXCEPT ![r] = [Out EXCEPT !.at = "in", !.user = i,
                                                           !.role = users[i].role]]
          \/ request' = [request EXCEPT ![r] = Out]
    BY <1>2 DEF LoginByEmail, ByEmail
  <2> QED
    BY <1>2, <2>1, OutIs, EntersKeeps, LeavesKeeps DEF LoginByEmail
<1>3. ASSUME NEW username \in Usernames, NEW password \in Passwords,
             request' = [request EXCEPT ![r] = [Out EXCEPT !.at = "byUsername",
                                                !.username = username, !.password = password]],
             UNCHANGED <<users, seed>>
      PROVE  AccountsInv'
  <2>1. PICK out : out = Out
    OBVIOUS
  <2>2. PICK one : one = [out EXCEPT !.at = "byUsername"]
    OBVIOUS
  <2>3. one \in Client /\ one.at = "byUsername"
    BY <2>1, <2>2, OutIs DEF Client
  <2>4. PICK two : two = [one EXCEPT !.username = username]
    OBVIOUS
  <2>5. two \in Client /\ two.at = "byUsername"
    BY <2>3, <2>4 DEF Client
  <2>6. PICK to : to = [two EXCEPT !.password = password]
    OBVIOUS
  <2>7. to \in Client /\ to.at = "byUsername"
    BY <2>5, <2>6 DEF Client
  <2>8. to = [out EXCEPT !.at = "byUsername", !.username = username, !.password = password]
    BY <2>1, <2>2, <2>4, <2>6, OutIs DEF Client
  <2> QED
    BY <1>3, <2>1, <2>7, <2>8, ClientKeeps DEF Bearing
<1>4. ASSUME NEW found, found \subseteq DOMAIN users, Accepted(r, found), UNCHANGED <<users, seed>>
      PROVE  AccountsInv'
  <2>1. PICK i \in found :
          request' = [request EXCEPT ![r].at = "in", ![r].user = i, ![r].role = users[i].role]
    BY <1>4 DEF Accepted
  <2>2. request' = [request EXCEPT ![r] = [request[r] EXCEPT !.at = "in", !.user = i,
                                                            !.role = users[i].role]]
    BY <1>1, <2>1
  <2> QED
    BY <1>1, <1>4, <2>2, EntersKeeps
<1>5. CASE LoginByUsername(r)
  <2>1. ByUsername(request[r].username) \subseteq DOMAIN users
    BY DEF ByUsername
  <2> QED
    BY <1>3, <1>4, <1>5, <2>1, LeavesKeeps DEF LoginByUsername, Rejected
<1> QED
  BY <1>2, <1>5

LEMMA RequestKeeps ==
  ASSUME AccountsInv, NEW r \in Requests, Ask(r) \/ Check(r) \/ Expire(r)
  PROVE  AccountsInv'
<1>1. /\ request[r] \in Client /\ request \in [Requests -> Client] /\ KnowsUser(r)
      /\ request[r].user \in DOMAIN users
  BY DEF AccountsInv, Ask, Check, Expire, KnowsUser, Bearing
<1>2. PICK user : user = users[request[r].user]
  OBVIOUS
<1>3. user.role \in Roles
  <2>1. user \in User
    BY <1>1, <1>2 DEF AccountsInv
  <2> QED
    BY <2>1 DEF User
<1>4. CASE Ask(r)
  <2>1. PICK policy, since :
          /\ policy \in Policies
          /\ since = (IF user.active THEN {user.role} ELSE {})
          /\ request' = [request EXCEPT ![r].at = "check", ![r].policy = policy, ![r].since = since]
    BY <1>2, <1>4 DEF Ask
  <2>2. since \in SUBSET Roles /\ (user.active => user.role \in since)
    BY <1>3, <2>1
  <2>3. PICK one : one = [request[r] EXCEPT !.at = "check"]
    OBVIOUS
  <2>4. one \in Client /\ one.at = "check" /\ one.user = request[r].user
    BY <1>1, <2>3 DEF Client, Bearing
  <2>5. PICK two : two = [one EXCEPT !.policy = policy]
    OBVIOUS
  <2>6. two \in Client /\ two.at = "check" /\ two.user = request[r].user
    BY <2>1, <2>4, <2>5 DEF Client
  <2>7. PICK to : to = [two EXCEPT !.since = since]
    OBVIOUS
  <2>8. to \in Client /\ to.at = "check" /\ to.user = request[r].user /\ to.since = since
    BY <2>2, <2>6, <2>7 DEF Client
  <2>9. request' = [request EXCEPT ![r] = to]
    BY <1>1, <2>1, <2>3, <2>5, <2>7
  <2> QED
    BY <1>1, <1>2, <1>4, <2>2, <2>8, <2>9, ClientKeeps DEF Ask
<1>5. CASE Check(r)
  <2>1. PICK place : /\ place = CASE ~user.active -> "unauthenticated"
                                  [] user.active /\ user.role \in request[r].policy -> "served"
                                  [] OTHER -> "denied"
                     /\ request' = [request EXCEPT ![r].at = place]
    BY <1>2, <1>5 DEF Check
  <2>2. /\ place \in {"unauthenticated", "served", "denied"}
        /\ place = "served" => user.active /\ user.role \in request[r].policy
    BY <2>1
  <2>3. user.active => user.role \in request[r].since
    BY <1>1, <1>2, <1>5 DEF KnowsUser, Check
  <2>4. PICK to : to = [request[r] EXCEPT !.at = place]
    OBVIOUS
  <2>5. /\ to \in Client /\ to.at = place /\ to.user = request[r].user
        /\ to.since = request[r].since /\ to.policy = request[r].policy
    BY <1>1, <2>2, <2>4 DEF Client, Bearing
  <2>6. request' = [request EXCEPT ![r] = to]
    BY <1>1, <2>1, <2>4
  <2>7. to.at = "served" => to.since \cap to.policy # {}
    BY <2>2, <2>3, <2>5
  <2> QED
    BY <1>1, <1>5, <2>2, <2>5, <2>6, <2>7, ClientKeeps DEF Check
<1>6. CASE Expire(r)
  BY <1>6, LeavesKeeps DEF Expire
<1> QED
  BY <1>4, <1>5, <1>6

LEMMA SeedGoesIs ==
  ASSUME AccountsInv, NEW s \in Seeds, NEW id \in Nat, NEW was \in SUBSET User,
         NEW place \in {"name", "create", "update", "activate", "done", "conflict"},
         SeedGoes(s, place, id, was), UsersStay(users'),
         place \in {"update", "activate"} => id # 0,
         id # 0 => id \in DOMAIN users /\ users[id].email = SeedEmail
  PROVE  seed' \in [Seeds -> Seeding] /\ \A t \in Seeds : SeedsOwn(t)'
<1>1. PICK to : to = [at |-> place, id |-> id, was |-> was]
  OBVIOUS
<1>2. to \in Seeding /\ to.at = place /\ to.id = id
  BY <1>1 DEF Seeding
<1>3. /\ seed' \in [Seeds -> Seeding] /\ seed'[s] = to
      /\ \A t \in Seeds \ {s} : seed'[t] = seed[t]
  BY <1>1, <1>2 DEF SeedGoes, AccountsInv
<1>4. SeedsOwn(s)'
  BY <1>2, <1>3 DEF SeedsOwn, UsersStay
<1> QED
  BY <1>3, <1>4, SeedsStay

\* A step of the seed that writes nothing.
LEMMA QuietSeedKeeps ==
  ASSUME AccountsInv, UNCHANGED <<users, request>>,
         seed' \in [Seeds -> Seeding], \A s \in Seeds : SeedsOwn(s)'
  PROVE  AccountsInv'
BY DEF AccountsInv, KnowsUser

LEMMA NobodyLeaves ==
  ASSUME AccountsInv
  PROVE  UsersStay(users)
BY DEF AccountsInv, UsersStay

LEMMA SeedingIs ==
  ASSUME AccountsInv, NEW s \in Seeds
  PROVE  seed[s].id \in Nat /\ seed[s].was \in SUBSET User /\ SeedsOwn(s)
<1>1. seed[s] \in Seeding
  BY DEF AccountsInv
<1> QED
  BY <1>1 DEF Seeding, AccountsInv

LEMMA SeedLooksKeeps ==
  ASSUME AccountsInv, NEW s \in Seeds, SeedFindsEmail(s) \/ SeedChecksUsername(s)
  PROVE  AccountsInv'
<1>1. UNCHANGED <<users, request>> /\ UsersStay(users')
  BY NobodyLeaves DEF SeedFindsEmail, SeedChecksUsername
<1>2. CASE SeedFindsEmail(s)
  <2>1. CASE SeedGoes(s, "name", 0, {})
    BY <1>1, <2>1, SeedGoesIs, QuietSeedKeeps
  <2>2. ASSUME NEW i \in ByEmail(SeedEmail), NEW place \in {"update", "name"},
               SeedGoes(s, place, i, {users[i]})
        PROVE  AccountsInv'
    <3>1. i \in DOMAIN users /\ users[i].email = SeedEmail /\ i \in Nat \ {0} /\ users[i] \in User
      BY DEF ByEmail, AccountsInv
    <3>2. PICK was : was = {users[i]}
      OBVIOUS
    <3>3. was \in SUBSET User /\ SeedGoes(s, place, i, was)
      BY <2>2, <3>1, <3>2
    <3> QED
      BY <1>1, <3>1, <3>3, SeedGoesIs, QuietSeedKeeps
  <2> QED
    BY <1>2, <2>1, <2>2 DEF SeedFindsEmail
<1>3. CASE SeedChecksUsername(s)
  <2>1. PICK id, was : id = seed[s].id /\ was = seed[s].was
    OBVIOUS
  <2>2. PICK place : /\ place = (IF ByUsername(SeedUsername) \ {id} # {} THEN "conflict"
                                 ELSE IF id = 0 THEN "create" ELSE "update")
                     /\ SeedGoes(s, place, id, was)
    BY <1>3, <2>1 DEF SeedChecksUsername
  <2>3. place \in {"conflict", "create", "update"} /\ (place = "update" => id # 0)
    BY <2>2
  <2>4. /\ id \in Nat /\ was \in SUBSET User
        /\ id # 0 => id \in DOMAIN users /\ users[id].email = SeedEmail
    BY <2>1, SeedingIs DEF SeedsOwn
  <2> QED
    BY <1>1, <2>2, <2>3, <2>4, SeedGoesIs, QuietSeedKeeps
<1> QED
  BY <1>2, <1>3

LEMMA SeededIs ==
  ASSUME NEW row \in User, NEW was
  PROVE  Seeded(row, was) \in User /\ Seeded(row, was).email = row.email
<1>1. PICK username, role, password :
        /\ username = (IF was.username = SeedUsername THEN row.username ELSE SeedUsername)
        /\ role = (IF was.role = SeedRole THEN row.role ELSE SeedRole)
        /\ password = (IF was.password = SeedPassword THEN row.password ELSE SeedPassword)
  OBVIOUS
<1>2. username \in Usernames /\ role \in Roles /\ password \in Passwords \cup {NoPassword}
  BY <1>1, AccountsAssumption DEF User
<1>3. PICK one : one = [row EXCEPT !.username = username]
  OBVIOUS
<1>4. one \in User /\ one.email = row.email /\ one.role = row.role /\ one.password = row.password
  BY <1>2, <1>3 DEF User
<1>5. PICK two : two = [one EXCEPT !.role = role]
  OBVIOUS
<1>6. two \in User /\ two.email = row.email /\ two.password = row.password
  BY <1>2, <1>4, <1>5 DEF User
<1>7. PICK three : three = [two EXCEPT !.password = password]
  OBVIOUS
<1>8. three \in User /\ three.email = row.email
  BY <1>2, <1>6, <1>7 DEF User
<1>9. Seeded(row, was) = three
  BY <1>1, <1>3, <1>5, <1>7 DEF Seeded, User
<1> QED
  BY <1>8, <1>9

\* What a seed does: it writes a row of its own, the one with the account's
\* email, or adds one.
LEMMA SeedWritesKeeps ==
  ASSUME AccountsInv, NEW s \in Seeds, SeedCreates(s) \/ SeedUpdates(s) \/ SeedActivates(s)
  PROVE  /\ AccountsInv'
         /\ \A i \in DOMAIN users : users[i].email # SeedEmail => users'[i] = users[i]
<1>1. CASE SeedGoes(s, "conflict", 0, {}) /\ UNCHANGED <<users, request>>
  BY <1>1, NobodyLeaves, SeedGoesIs, QuietSeedKeeps
<1>2. CASE SeedCreates(s)
  <2>1. CASE Store(Append(users, SeedUser)) /\ SeedGoes(s, "done", 0, {})
    <3>1. PICK rows : rows = Append(users, SeedUser)
      OBVIOUS
    <3>2. UsersStay(rows) /\ \A i \in DOMAIN users : rows[i] = users[i]
      BY <3>1, SeedUserIs, AppendStays
    <3>3. users' = rows
      BY <2>1, <3>1 DEF Store
    <3>4. seed' \in [Seeds -> Seeding] /\ \A t \in Seeds : SeedsOwn(t)'
      BY <2>1, <3>2, <3>3, SeedGoesIs
    <3> QED
      BY <2>1, <3>1, <3>2, <3>3, <3>4, StoreKeeps
  <2> QED
    BY <1>1, <1>2, <2>1 DEF SeedCreates
<1>3. ASSUME NEW i, i = seed[s].id, NEW row \in User, row.email = users[i].email,
             seed[s].at \in {"update", "activate"},
             Store([users EXCEPT ![i] = row]),
             NEW place \in {"done", "activate"}, NEW id \in {0, i}, place = "activate" => id = i,
             SeedGoes(s, place, id, {})
      PROVE  /\ AccountsInv'
             /\ \A j \in DOMAIN users : users[j].email # SeedEmail => users'[j] = users[j]
  <2>1. i \in Nat /\ i # 0 /\ i \in DOMAIN users /\ users[i].email = SeedEmail
    BY <1>3, SeedingIs DEF SeedsOwn
  <2>2. PICK rows : rows = [users EXCEPT ![i] = row]
    OBVIOUS
  <2>3. UsersStay(rows) /\ users' = rows
    BY <1>3, <2>1, <2>2, RowStays DEF Store
  <2>4. seed' \in [Seeds -> Seeding] /\ \A t \in Seeds : SeedsOwn(t)'
    BY <1>3, <2>1, <2>3, SeedGoesIs
  <2>5. \A j \in DOMAIN users : j # i => rows[j] = users[j]
    BY <2>2 DEF AccountsInv
  <2> QED
    BY <1>3, <2>1, <2>2, <2>3, <2>4, <2>5, StoreKeeps
<1>4. CASE SeedUpdates(s)
  <2>1. PICK was, i :
          /\ was \in seed[s].was
          /\ i = seed[s].id
          /\ LET rows == [users EXCEPT ![i] = Seeded(@, was)] IN
             IF Seeded(was, was) = was
             THEN /\ SeedGoes(s, IF was.active THEN "done" ELSE "activate", i, {})
                  /\ UNCHANGED <<users, request>>
             ELSE IF Unique(rows)
             THEN /\ Store(rows)
                  /\ SeedGoes(s, IF rows[i].active THEN "done" ELSE "activate", i, {})
             ELSE SeedGoes(s, "conflict", 0, {}) /\ UNCHANGED <<users, request>>
    BY <1>4 DEF SeedUpdates
  <2>2. /\ i \in Nat /\ i # 0 /\ i \in DOMAIN users /\ users[i].email = SeedEmail
        /\ seed[s].at = "update"
    BY <1>4, <2>1, SeedingIs DEF SeedsOwn, SeedUpdates
  <2>3. ASSUME NEW place \in {"done", "activate"}, SeedGoes(s, place, i, {}),
               UNCHANGED <<users, request>>
        PROVE  AccountsInv'
    BY <2>2, <2>3, NobodyLeaves, SeedGoesIs, QuietSeedKeeps
  <2>4. CASE Seeded(was, was) = was
    BY <2>1, <2>3, <2>4
  <2>5. CASE Seeded(was, was) # was /\ Unique([users EXCEPT ![i] = Seeded(@, was)])
    <3>1. PICK row : row = Seeded(users[i], was)
      OBVIOUS
    <3>2. users[i] \in User
      BY <2>2 DEF AccountsInv
    <3>3. row \in User /\ row.email = users[i].email
      BY <3>1, <3>2, SeededIs
    <3>4. PICK place \in {"done", "activate"} :
            Store([users EXCEPT ![i] = row]) /\ SeedGoes(s, place, i, {})
      BY <2>1, <2>5, <3>1
    <3> QED
      BY <1>3, <2>1, <2>2, <3>3, <3>4
  <2>6. CASE SeedGoes(s, "conflict", 0, {}) /\ UNCHANGED <<users, request>>
    BY <1>1, <2>6
  <2> QED
    BY <2>1, <2>4, <2>5, <2>6
<1>5. CASE SeedActivates(s)
  <2>1. PICK i : i = seed[s].id
    OBVIOUS
  <2>2. users[i] \in User
    BY <1>5, <2>1, SeedingIs DEF SeedActivates, SeedsOwn, AccountsInv
  <2>3. PICK row : row = [users[i] EXCEPT !.active = TRUE]
    OBVIOUS
  <2>4. row \in User /\ row.email = users[i].email
    BY <2>2, <2>3 DEF User
  <2>5. Store([users EXCEPT ![i] = row]) /\ SeedGoes(s, "done", 0, {})
    BY <1>5, <2>1, <2>3 DEF SeedActivates
  <2> QED
    BY <1>3, <1>5, <2>1, <2>4, <2>5 DEF SeedActivates
<1> QED
  BY <1>2, <1>4, <1>5

LEMMA AccountsKeeps ==
  ASSUME AccountsInv, [AccountsNext]_accountVars
  PROVE  AccountsInv'
<1>1. CASE UNCHANGED accountVars
  BY <1>1 DEF accountVars, AccountsInv, KnowsUser, SeedsOwn
<1> QED
  BY <1>1, UserServiceKeeps, LoginKeeps, RequestKeeps, SeedLooksKeeps, SeedWritesKeeps
     DEF AccountsNext, SeedStep

LEMMA AccountsInvariant == ServicesSpec => []AccountsInv
<1>1. ASSUME ServicesInit PROVE AccountsInv
  <2>1. /\ users = <<>> /\ request = [r \in Requests |-> Out]
        /\ seed = [s \in Seeds |-> [at |-> "idle", id |-> 0, was |-> {}]]
    BY <1>1 DEF ServicesInit, AccountsInit
  <2> QED
    BY <2>1, OutIs DEF AccountsInv, KnowsUser, SeedsOwn, Seeding, Bearing
<1>2. AccountsInv /\ [ServicesNext]_servicesVars => AccountsInv'
  BY EachAlone, AccountsKeeps
<1> QED
  BY <1>1, <1>2, PTL DEF ServicesSpec

\* Whoever is served was active and had a role the endpoint requires when the
\* request was checked or before, since it came, whatever is done to the users
\* meanwhile (AuthService.get_authenticated_user, RolePolicy.enforce).
THEOREM ServedByRole == ServicesSpec => []RolesAreCurrent
<1>1. AccountsInv => RolesAreCurrent
  BY DEF AccountsInv, KnowsUser, RolesAreCurrent
<1> QED
  BY <1>1, AccountsInvariant, PTL

\* No run of the seed, beside any number of others, touches a user whose email is
\* not the account's, whatever is renamed between its steps (seed_test_accounts).
THEOREM SeedsSpareOthers == ServicesSpec => SeedSparesOthers
<1>1. ASSUME AccountsInv, [AccountsNext]_accountVars
      PROVE  [seed' # seed =>
                \A i \in DOMAIN users : users[i].email # SeedEmail => users'[i] = users[i]]_accountVars
  <2>1. ASSUME NEW s \in Seeds, SeedStep(s)
        PROVE  \A i \in DOMAIN users : users[i].email # SeedEmail => users'[i] = users[i]
    BY <1>1, <2>1, SeedWritesKeeps DEF SeedStep, SeedFindsEmail, SeedChecksUsername
  <2> QED
    BY <1>1, <2>1 DEF AccountsNext, CreateUser, UpdateUser, LoginByEmail, LoginByUsername, Ask,
                      Check, Expire
<1>2. AccountsInv /\ [ServicesNext]_servicesVars
      => [seed' # seed =>
            \A i \in DOMAIN users : users[i].email # SeedEmail => users'[i] = users[i]]_accountVars
  BY <1>1, EachAlone
<1> QED
  BY <1>2, AccountsInvariant, PTL DEF ServicesSpec, SeedSparesOthers

-----------------------------------------------------------------------------
(* The calls of the model.                                                 *)

Settings == [retries : Nat, fixes : Nat, configured : BOOLEAN]

\* What the provider was asked up to here: the limit of a call for every
\* attempt that is over, and the tries of the call under way.
Spent(t, limit) ==
  /\ t.at = "attempt" => t.requests <= limit * (t.attempt - 1)
  /\ t.at = "request" =>
       /\ t.try \in 1 .. limit
       /\ t.requests <= limit * (t.attempt - 1) + (t.try - 1)
  /\ t.at \in {"result", "done", "failed"} => t.requests <= limit * t.attempt

\* A lasting error is what the task ends with: neither an output that is sent
\* back nor one that is taken.
Lasting(t) ==
  \A error \in t.faults : ~Retryable(error) =>
    /\ t.at \in {"result", "failed"} /\ t.result = error
    /\ error \in {"LLMConfigurationError", "LLMProviderError"}

CallsInv ==
  /\ task \in Task /\ settings \in Settings
  /\ task.at = "idle" => task.requests = 0
  /\ task.at # "idle" => task.attempt \in 1 .. settings.fixes + 1
  /\ ~settings.configured => task.requests = 0
  /\ Spent(task, settings.retries)
  /\ Lasting(task)

LEMMA ProductsGrow ==
  ASSUME NEW limit \in Nat, NEW a \in Nat \ {0}
  PROVE  /\ limit * a = limit * (a - 1) + limit
         /\ limit * (a - 1) \in Nat /\ limit * a \in Nat
         /\ \A b \in Nat : a <= b => limit * a <= limit * b
<1>1. limit * a = limit * (a - 1) + limit
  BY SMT
<1>2. limit * (a - 1) \in Nat /\ limit * a \in Nat
  BY SMT
<1>3. ASSUME NEW b \in Nat, a <= b
      PROVE  limit * a <= limit * b
  <2>1. PICK d \in Nat : b = a + d
    BY <1>3 DEF Nat
  <2>2. limit * b = limit * a + limit * d /\ limit * d \in Nat
    BY <2>1, SMT
  <2> QED
    BY <1>2, <2>2
<1> QED
  BY <1>1, <1>2, <1>3

LEMMA BeginsKeeps ==
  ASSUME CallsInv, Begins
  PROVE  CallsInv'
<1>1. PICK kind \in Tasks : task' = [NoTask EXCEPT !.at = "attempt", !.kind = kind, !.attempt = 1]
  BY DEF Begins
<1>2. settings' \in Settings
  BY ModelCallsAssumption DEF Begins, Settings
<1>3. /\ task' \in Task /\ task'.at = "attempt" /\ task'.attempt = 1
      /\ task'.requests = 0 /\ task'.faults = {}
  BY <1>1 DEF NoTask, Task, Tasks
<1>4. settings'.retries * (1 - 1) = 0
  BY <1>2 DEF Settings
<1> QED
  BY <1>2, <1>3, <1>4 DEF CallsInv, Spent, Lasting, Settings

LEMMA CallsKeeps ==
  ASSUME CallsInv, Calls
  PROVE  CallsInv'
<1>1. /\ settings' = settings /\ task \in Task /\ settings \in Settings
      /\ task.at = "attempt"
      /\ task.attempt \in Nat \ {0} /\ task.requests <= settings.retries * (task.attempt - 1)
  BY DEF Calls, CallsInv, Spent, Settings, Task
<1>2. CASE settings.retries = 0
  <2>1. /\ task' \in Task /\ task'.at = "result" /\ task'.attempt = task.attempt
        /\ task'.requests = task.requests /\ task'.faults = task.faults
    BY <1>1, <1>2 DEF Calls, Task, Errors
  <2>2. \A error \in task'.faults : Retryable(error)
    BY <1>1, <2>1 DEF CallsInv, Lasting
  <2>3. task'.requests <= settings.retries * task'.attempt
    BY <1>1, <1>2, <2>1, ProductsGrow DEF Settings
  <2> QED
    BY <1>1, <2>1, <2>2, <2>3 DEF CallsInv, Spent, Lasting
<1>3. CASE settings.retries # 0
  <2>1. /\ task' \in Task /\ task'.at = "request" /\ task'.attempt = task.attempt
        /\ task'.try = 1
        /\ task'.requests = task.requests /\ task'.faults = task.faults
    BY <1>1, <1>3 DEF Calls, Task
  <2>2. \A error \in task'.faults : Retryable(error)
    BY <1>1, <2>1 DEF CallsInv, Lasting
  <2>3. settings.retries * (task.attempt - 1) \in Nat /\ settings.retries \in Nat
    BY <1>1, ProductsGrow DEF Settings
  <2> QED
    BY <1>1, <1>3, <2>1, <2>2, <2>3 DEF CallsInv, Spent, Lasting, Task
<1> QED
  BY <1>2, <1>3

\* What a request leaves, whatever came of it.
LEMMA RequestKeepsCall ==
  ASSUME CallsInv, task.at = "request", settings' = settings, task' \in Task,
         task'.attempt = task.attempt, task'.requests \in {task.requests, task.requests + 1},
         ~settings.configured => task'.requests = task.requests,
         \/ task'.at = "result"
         \/ task'.at = "request" /\ task'.try = task.try + 1 /\ task.try < settings.retries,
         Lasting(task)'
  PROVE  CallsInv'
<1>1. /\ task \in Task /\ settings \in Settings
      /\ task.attempt \in Nat \ {0} /\ task.try \in 1 .. settings.retries
      /\ task.requests <= settings.retries * (task.attempt - 1) + (task.try - 1)
      /\ task.requests \in Nat /\ settings.retries \in Nat
  BY DEF CallsInv, Spent, Settings, Task
<1>2. PICK product \in Nat :
        /\ product = settings.retries * (task.attempt - 1)
        /\ settings.retries * task.attempt = product + settings.retries
  BY <1>1, ProductsGrow
<1>3. Spent(task', settings.retries)
  BY <1>1, <1>2 DEF Spent
<1> QED
  BY <1>1, <1>3 DEF CallsInv

LEMMA EndsKeep ==
  ASSUME CallsInv, NotConfigured \/ \E text \in Texts : TextComes(text)
  PROVE  CallsInv'
<1>1. task \in Task /\ task.at = "request" /\ settings' = settings
  BY DEF CallsInv, NotConfigured, TextComes
<1>2. \A error \in task.faults : Retryable(error)
  BY <1>1 DEF CallsInv, Lasting
<1>3. CASE NotConfigured
  <2>1. /\ task' \in Task /\ task'.at = "result" /\ task'.attempt = task.attempt
        /\ task'.requests = task.requests /\ task'.result = "LLMConfigurationError"
        /\ task'.faults = task.faults \cup {"LLMConfigurationError"}
    BY <1>1, <1>3 DEF NotConfigured, Task, Errors
  <2>2. Lasting(task')
    BY <1>2, <2>1 DEF Lasting
  <2> QED
    BY <1>1, <2>1, <2>2, RequestKeepsCall DEF Lasting
<1>4. ASSUME NEW text \in Texts, TextComes(text)
      PROVE  CallsInv'
  <2>1. /\ task' \in Task /\ task'.at = "result" /\ task'.attempt = task.attempt
        /\ task'.requests = task.requests + 1 /\ task'.faults = task.faults
    <3>1. PICK found \in Texts \cup Errors : found = IF text = "prose" THEN "LLMInvalidOutputError"
                                                  ELSE text
      BY DEF Errors
    <3>2. PICK told : told = [task EXCEPT !.at = "result"]
      OBVIOUS
    <3>3. /\ told \in Task /\ told.at = "result" /\ told.attempt = task.attempt
          /\ told.requests = task.requests /\ told.faults = task.faults
      BY <1>1, <3>2 DEF Task
    <3>4. PICK more \in Nat : more = task.requests + 1
      BY <1>1 DEF Task
    <3>5. PICK asked : asked = [told EXCEPT !.requests = more]
      OBVIOUS
    <3>6. /\ asked \in Task /\ asked.at = "result" /\ asked.attempt = task.attempt
          /\ asked.requests = more /\ asked.faults = task.faults
      BY <3>3, <3>4, <3>5 DEF Task
    <3>7. task' = [asked EXCEPT !.result = found]
      BY <1>1, <1>4, <3>1, <3>2, <3>4, <3>5 DEF TextComes, Task
    <3> QED
      BY <3>1, <3>4, <3>6, <3>7 DEF Task
  <2>2. Lasting(task')
    BY <1>2, <2>1 DEF Lasting
  <2> QED
    BY <1>1, <1>4, <2>1, <2>2, RequestKeepsCall DEF Lasting, TextComes
<1> QED
  BY <1>3, <1>4

LEMMA FaultKeeps ==
  ASSUME CallsInv, NEW reply \in Failures, Fault(reply)
  PROVE  CallsInv'
<1>1. /\ task \in Task /\ task.at = "request" /\ settings' = settings
      /\ settings \in Settings /\ settings.configured /\ task.try \in Nat
      /\ task.requests + 1 \in Nat /\ settings.retries \in Nat
  BY DEF CallsInv, Fault, Task, Settings
<1>2. \A error \in task.faults : Retryable(error)
  BY <1>1 DEF CallsInv, Lasting
<1>3. PICK error : error = ErrorOf(reply)
  OBVIOUS
<1>4. /\ error \in Errors
      /\ ~Retryable(error) => error \in {"LLMConfigurationError", "LLMProviderError"}
  BY <1>3 DEF ErrorOf, StatusError, Failures, Errors, Retryable
<1>5. PICK met : met = task.faults \cup {error}
  OBVIOUS
<1>6. PICK asked : asked = [task EXCEPT !.requests = @ + 1]
  OBVIOUS
<1>7. /\ asked \in Task /\ asked.at = "request" /\ asked.attempt = task.attempt
      /\ asked.requests = task.requests + 1 /\ asked.try = task.try
      /\ asked.faults = task.faults
  BY <1>1, <1>6 DEF Task
<1>8. PICK next : next = [asked EXCEPT !.faults = met]
  OBVIOUS
<1>9. /\ next \in Task /\ next.at = "request" /\ next.attempt = task.attempt
      /\ next.requests = task.requests + 1 /\ next.try = task.try /\ next.faults = met
  BY <1>4, <1>5, <1>7, <1>8 DEF Task
<1>10. next = [task EXCEPT !.requests = @ + 1, !.faults = @ \cup {error}]
  BY <1>1, <1>5, <1>6, <1>8 DEF Task
<1>11. /\ ~Retryable(error) => task' = [next EXCEPT !.at = "result", !.result = error]
       /\ Retryable(error) /\ task.try >= settings.retries =>
            task' = [next EXCEPT !.at = "result", !.result = "LLMRetryExhaustedError"]
       /\ Retryable(error) /\ task.try < settings.retries => task' = [next EXCEPT !.try = @ + 1]
  BY <1>1, <1>3, <1>10 DEF Fault
<1>12. CASE ~Retryable(error)
  <2>1. /\ task' \in Task /\ task'.at = "result" /\ task'.attempt = task.attempt
        /\ task'.requests = task.requests + 1 /\ task'.faults = met /\ task'.result = error
    BY <1>4, <1>9, <1>11, <1>12 DEF Task
  <2>2. Lasting(task')
    BY <1>2, <1>4, <1>5, <2>1 DEF Lasting
  <2> QED
    BY <1>1, <2>1, <2>2, RequestKeepsCall DEF Lasting
<1>13. CASE Retryable(error)
  <2>1. /\ task' \in Task /\ task'.attempt = task.attempt
        /\ task'.requests = task.requests + 1 /\ task'.faults = met
        /\ \/ task'.at = "result"
           \/ task'.at = "request" /\ task'.try = task.try + 1 /\ task.try < settings.retries
    <3>1. CASE task.try >= settings.retries
      BY <1>1, <1>9, <1>11, <1>13, <3>1 DEF Task, Errors
    <3>2. CASE task.try < settings.retries
      <4>1. PICK more \in Nat : more = next.try + 1 /\ more = task.try + 1
        BY <1>1, <1>9
      <4>2. task' = [next EXCEPT !.try = more]
        BY <1>11, <1>13, <3>2, <4>1
      <4> QED
        BY <1>9, <3>2, <4>1, <4>2 DEF Task
    <3> QED
      BY <1>1, <3>1, <3>2
  <2>2. Lasting(task')
    BY <1>2, <1>5, <1>13, <2>1 DEF Lasting
  <2> QED
    BY <1>1, <2>1, <2>2, RequestKeepsCall DEF Lasting
<1> QED
  BY <1>12, <1>13

LEMMA InterpretsKeeps ==
  ASSUME CallsInv, Interprets
  PROVE  CallsInv'
<1>1. /\ task \in Task /\ task.at = "result" /\ settings' = settings /\ settings \in Settings
      /\ task.requests <= settings.retries * task.attempt
      /\ task.attempt \in 1 .. settings.fixes + 1 /\ settings.fixes \in Nat
  BY DEF CallsInv, Interprets, Spent, Settings
<1>2. CASE task' = [task EXCEPT !.at = "done"] /\ task.result = "fitting"
  <2>1. /\ task' \in Task /\ task'.at = "done" /\ task'.attempt = task.attempt
        /\ task'.requests = task.requests /\ task'.faults = task.faults
    BY <1>1, <1>2 DEF Task
  <2>2. \A error \in task'.faults : Retryable(error)
    BY <1>2, <2>1 DEF CallsInv, Lasting
  <2> QED
    BY <1>1, <2>1, <2>2 DEF CallsInv, Spent, Lasting
<1>3. ASSUME NEW reason, Fails(reason),
             reason \in {"PROVIDER_TIMEOUT", "PROVIDER_RATE_LIMIT", "PROVIDER_ERROR",
                         "OUTPUT_NOT_JSON", "SCHEMA_VALIDATION_FAILED"}
      PROVE  CallsInv'
  <2>1. /\ task' \in Task /\ task'.at = "failed" /\ task'.attempt = task.attempt
        /\ task'.requests = task.requests /\ task'.faults = task.faults
        /\ task'.result = task.result
    BY <1>1, <1>3 DEF Fails, Task
  <2> QED
    BY <1>1, <2>1 DEF CallsInv, Spent, Lasting
<1>4. ASSUME NEW reason \in {"OUTPUT_NOT_JSON", "SCHEMA_VALIDATION_FAILED"}, TryAgain(reason),
             task.result \in {"misfit", "LLMInvalidOutputError"}
      PROVE  CallsInv'
  <2>1. CASE task.attempt <= settings.fixes
    <3>1. task' = [task EXCEPT !.at = "attempt", !.attempt = @ + 1, !.try = 0, !.result = "none"]
      BY <1>4, <2>1 DEF TryAgain
    <3>2. PICK more \in Nat : more = task.attempt + 1 /\ more - 1 = task.attempt
      BY <1>1
    <3>3. /\ task' \in Task /\ task'.at = "attempt" /\ task'.attempt = more
          /\ task'.requests = task.requests /\ task'.faults = task.faults
      BY <1>1, <3>1, <3>2 DEF Task
    <3>4. \A error \in task'.faults : Retryable(error)
      BY <1>4, <3>3 DEF CallsInv, Lasting
    <3>5. task'.attempt - 1 = task.attempt /\ task'.attempt \in 1 .. settings.fixes + 1
      BY <1>1, <2>1, <3>2, <3>3
    <3> QED
      BY <1>1, <3>3, <3>4, <3>5 DEF CallsInv, Spent, Lasting
  <2>2. CASE ~(task.attempt <= settings.fixes)
    BY <1>3, <1>4, <2>2 DEF TryAgain
  <2> QED
    BY <2>1, <2>2
<1> QED
  BY <1>2, <1>3, <1>4 DEF Interprets, Reason

\* The provider is asked no more often than the two limits together allow, and
\* a lasting error ends the task, for any limits and any statuses
\* (retry_with_backoff, its callers).
THEOREM CallsAreBounded == ServicesSpec => []RequestsAreBounded
<1>1. ServicesInit => CallsInv
  BY DEF ServicesInit, ModelInit, CallsInv, NoTask, Task, Tasks, Settings, Spent, Lasting
<1>2. CallsInv /\ [ServicesNext]_servicesVars => CallsInv'
  <2>1. CallsInv /\ ModelNext => CallsInv'
    BY BeginsKeeps, CallsKeeps, EndsKeep, FaultKeeps, InterpretsKeeps DEF ModelNext
  <2>2. CallsInv /\ UNCHANGED modelVars => CallsInv'
    BY DEF modelVars, CallsInv
  <2> QED
    BY <2>1, <2>2, EachAlone
<1>3. CallsInv => RequestsAreBounded
  <2>1. SUFFICES ASSUME CallsInv
                 PROVE  RequestsAreBounded
    OBVIOUS
  <2>2. /\ settings.retries \in Nat /\ settings.fixes + 1 \in Nat \ {0}
        /\ settings.configured \in BOOLEAN /\ task.requests \in Nat
        /\ task.at \in {"idle", "attempt", "request", "result", "done", "failed"}
    BY <2>1 DEF CallsInv, Settings, Task
  <2>3. task.requests <= settings.retries * (settings.fixes + 1)
    <3>1. CASE task.at = "idle"
      BY <2>1, <2>2, <3>1, ProductsGrow DEF CallsInv
    <3>2. CASE task.at # "idle"
      <4>1. /\ task.attempt \in Nat \ {0} /\ task.attempt <= settings.fixes + 1
        BY <2>1, <2>2, <3>2 DEF CallsInv
      <4>2. PICK all, before \in Nat : /\ all = settings.retries * task.attempt
                                       /\ before = settings.retries * (task.attempt - 1)
                                       /\ all = before + settings.retries
        BY <2>2, <4>1, ProductsGrow
      <4>3. task.requests <= all
        BY <2>1, <2>2, <3>2, <4>2 DEF CallsInv, Spent
      <4>4. all <= settings.retries * (settings.fixes + 1)
        BY <2>2, <4>1, <4>2, ProductsGrow
      <4> QED
        BY <2>2, <4>2, <4>3, <4>4, ProductsGrow
    <3> QED
      BY <3>1, <3>2
  <2> QED
    BY <2>1, <2>2, <2>3 DEF RequestsAreBounded, CallsInv, Lasting
<1> QED
  BY <1>1, <1>2, <1>3, PTL DEF ServicesSpec

-----------------------------------------------------------------------------
(* What the stages of a plan promise each other.                           *)

\* A week of an analysis that passed has one number to itself.
LEMMA WeeksAreSingle ==
  ASSUME NEW a \in Analyses, AnalysisPasses(a)
  PROVE  \A i, j \in DOMAIN a.weeks : a.weeks[i].week = a.weeks[j].week => i = j
<1>1. PICK weeks : weeks = a.weeks
  OBVIOUS
<1>2. /\ weeks \in Seq([week : Nat \ {0}, type : WeekTypes])
      /\ DOMAIN weeks = 1 .. Len(weeks) /\ Len(weeks) \in Nat
  <2>1. PICK Week : Week = [week : Nat \ {0}, type : WeekTypes]
    OBVIOUS
  <2>2. weeks \in Seq(Week)
    BY <1>1, <2>1, PlanContractAssumption
  <2> QED
    BY <2>1, <2>2
<1>3. PICK numbers : numbers = {weeks[i].week : i \in 1 .. Len(weeks)}
  OBVIOUS
<1>4. NumbersOf(a) = numbers
  BY <1>1, <1>2, <1>3 DEF NumbersOf, Entries
<1>5. PICK f : f = [i \in 1 .. Len(weeks) |-> weeks[i].week]
  OBVIOUS
<1>6. f \in Surjection(1 .. Len(weeks), numbers)
  BY <1>3, <1>5 DEF Surjection
<1>7. IsFiniteSet(1 .. Len(weeks)) /\ Cardinality(1 .. Len(weeks)) = Len(weeks)
  BY <1>2, FS_Interval
<1>8. Cardinality(numbers) = Len(weeks)
  BY <1>1, <1>4 DEF AnalysisPasses
<1>9. f \in Injection(1 .. Len(weeks), numbers)
  BY <1>6, <1>7, <1>8, FS_SurjSameCardinalityImpliesInj, FS_Surjection
<1> QED
  BY <1>1, <1>2, <1>5, <1>9 DEF Injection, IsInjective

ValidAnalysis(a) == a \in Analyses /\ AnalysisPasses(a)

\* What is stored of a version.
Version == {"status", "weeks", "passed", "output", "request"}

\* Stored with the rows and the verdict of what its request held, and approved
\* only with a verdict that says so.
ContractInv ==
  /\ analysis # Nil => ValidAnalysis(analysis)
  /\ planning # Nil => ValidAnalysis(planning.analysis)
  /\ version # Nil =>
       /\ Version \subseteq DOMAIN version
       /\ ValidAnalysis(version.request.analysis) /\ OutputFits(version.output)
       /\ version.weeks = BuildWeeks(version.output, version.request.analysis)
       /\ version.status = "APPROVED" => version.passed
       /\ version.passed = (ValidatePlan(version.output, version.request.analysis,
                                         version.request.configuration) = {})

LEMMA ContractKeeps ==
  ASSUME ContractInv, ContractNext
  PROVE  ContractInv'
<1>1. ASSUME NEW a \in Analyses, Analyze(a)
      PROVE  ContractInv'
  BY <1>1 DEF Analyze, ContractInv, ValidAnalysis
<1>2. ASSUME NEW c \in Configurations, Configure(c)
      PROVE  ContractInv'
  BY <1>2 DEF Configure, ContractInv
<1>3. CASE BuildRequest
  BY <1>3 DEF BuildRequest, ContractInv
<1>4. ASSUME NEW output \in Outputs, PlanComes(output)
      PROVE  ContractInv'
  <2>1. PICK verdict : verdict = (ValidatePlan(output, planning.analysis, planning.configuration) = {})
    OBVIOUS
  <2>2. PICK weeks : weeks = BuildWeeks(output, planning.analysis)
    OBVIOUS
  <2>3. /\ planning # Nil /\ planning' = Nil /\ UNCHANGED analysis
        /\ version' = [status |-> "DRAFT", weeks |-> weeks, passed |-> verdict,
                       output |-> output, request |-> planning]
    BY <1>4, <2>1, <2>2 DEF PlanComes, ConfigurationOf
  <2>4. /\ version'.passed = verdict /\ version'.output = output /\ version'.request = planning
        /\ version'.weeks = weeks /\ version'.status = "DRAFT"
        /\ Version \subseteq DOMAIN version'
    BY <2>3 DEF Version
  <2>5. ValidAnalysis(planning.analysis) /\ OutputFits(output)
    BY <1>4, <2>3 DEF ContractInv, PlanComes
  <2> QED
    BY <2>1, <2>2, <2>3, <2>4, <2>5 DEF ContractInv
<1>5. CASE PlanningGivesUp
  BY <1>5 DEF PlanningGivesUp, ContractInv
<1>6. CASE Approve
  <2>1. /\ version # Nil /\ version.passed /\ version' = [version EXCEPT !.status = "APPROVED"]
        /\ UNCHANGED <<analysis, planning>>
    BY <1>6 DEF Approve
  <2>2. /\ Version \subseteq DOMAIN version'
        /\ version'.passed = version.passed /\ version'.output = version.output
        /\ version'.request = version.request /\ version'.weeks = version.weeks
    BY <2>1 DEF ContractInv, Version
  <2> QED
    BY <2>1, <2>2 DEF ContractInv
<1>7. ASSUME NEW asked \in {Nil} \cup SUBSET (1 .. MaxWeek), GenerateContents(asked)
      PROVE  ContractInv'
  BY <1>7 DEF GenerateContents, ContractInv
<1> QED
  BY <1>1, <1>2, <1>3, <1>4, <1>5, <1>6, <1>7 DEF ContractNext

LEMMA ContractInvariant == ServicesSpec => []ContractInv
<1>1. ServicesInit => ContractInv
  BY DEF ServicesInit, ContractInit, ContractInv
<1>2. ContractInv /\ [ServicesNext]_servicesVars => ContractInv'
  <2>1. ContractInv /\ UNCHANGED contractVars => ContractInv'
    BY DEF ContractInv, contractVars
  <2> QED
    BY <2>1, ContractKeeps, EachAlone
<1> QED
  BY <1>1, <1>2, PTL DEF ServicesSpec

\* What the validation promises about the weeks, the outcomes, the weeks of an
\* exam and the activities.
HasWeeks(o, a) ==
  /\ \A i \in DOMAIN a.weeks : \E j \in DOMAIN o : o[j].number = a.weeks[i].week
  /\ \A j \in DOMAIN o : \E i \in DOMAIN a.weeks : o[j].number = a.weeks[i].week

Covers(o, a) ==
  /\ \A j \in DOMAIN o : o[j].outcomes \subseteq a.declared
  /\ \A code \in a.declared : \E j \in DOMAIN o : code \in o[j].outcomes

ExamsAreBare(o, a) ==
  \A i \in DOMAIN a.weeks, j \in DOMAIN o :
    a.weeks[i].type \in ExamWeekTypes /\ o[j].number = a.weeks[i].week => ~o[j].topics

IsEnabled(o, c) == \A j \in DOMAIN o : \A k \in o[j].activities : k \in DOMAIN c => c[k]

LEMMA NoIssue ==
  ASSUME NEW o, NEW a \in Analyses, NEW c, AnalysisPasses(a)
  PROVE  (ValidatePlan(o, a, c) = {}) <=>
           /\ a.weeks # <<>> => HasWeeks(o, a)
           /\ a.declared # {} => Covers(o, a)
           /\ ExamsAreBare(o, a)
           /\ IsEnabled(o, c)
<1>1. (WeekNumberIssues(o, a) = {}) <=> (a.weeks # <<>> => HasWeeks(o, a))
  <2>1. (WeekNumberIssues(o, a) = {}) <=>
          (a.weeks # <<>> => NumbersOf(a) \subseteq PlannedNumbers(o)
                             /\ PlannedNumbers(o) \subseteq NumbersOf(a))
    BY DEF WeekNumberIssues
  <2>2. /\ NumbersOf(a) \subseteq PlannedNumbers(o) <=>
             \A i \in DOMAIN a.weeks : \E j \in DOMAIN o : o[j].number = a.weeks[i].week
        /\ PlannedNumbers(o) \subseteq NumbersOf(a) <=>
             \A j \in DOMAIN o : \E i \in DOMAIN a.weeks : o[j].number = a.weeks[i].week
    <3>1. PICK planned : planned = PlannedNumbers(o)
      OBVIOUS
    <3>2. PICK read : read = NumbersOf(a)
      OBVIOUS
    <3>3. \A n : n \in planned <=> \E j \in DOMAIN o : o[j].number = n
      BY <3>1 DEF PlannedNumbers, Entries
    <3>4. \A n : n \in read <=> \E i \in DOMAIN a.weeks : a.weeks[i].week = n
      BY <3>2 DEF NumbersOf, Entries
    <3> QED
      BY <3>1, <3>2, <3>3, <3>4
  <2> QED
    BY <2>1, <2>2 DEF HasWeeks
<1>2. (SubCpmkIssues(o, a) = {}) <=> (a.declared # {} => Covers(o, a))
  <2>1. (SubCpmkIssues(o, a) = {}) <=>
          (a.declared # {} => /\ \A w \in Entries(o) : w.outcomes \subseteq a.declared
                              /\ a.declared \subseteq Used(o))
    BY DEF SubCpmkIssues
  <2>2. (\A w \in Entries(o) : w.outcomes \subseteq a.declared) <=>
          \A j \in DOMAIN o : o[j].outcomes \subseteq a.declared
    BY DEF Entries
  <2>3. (a.declared \subseteq Used(o)) <=>
          \A code \in a.declared : \E j \in DOMAIN o : code \in o[j].outcomes
    BY DEF Used, Entries
  <2> QED
    BY <2>1, <2>2, <2>3 DEF Covers
<1>3. (ExamWeekIssues(o, a) = {}) <=> ExamsAreBare(o, a)
  <2>1. ASSUME NEW i \in DOMAIN a.weeks
        PROVE  a.weeks[i].week \in NumbersOf(a) /\ TypeOf(a, a.weeks[i].week) = a.weeks[i].type
    <3>1. PICK w : w = CHOOSE x \in Entries(a.weeks) : x.week = a.weeks[i].week
      OBVIOUS
    <3>2. w \in Entries(a.weeks) /\ w.week = a.weeks[i].week
      BY <3>1 DEF Entries
    <3>3. w = a.weeks[i]
      BY <3>2, WeeksAreSingle DEF Entries
    <3> QED
      BY <3>1, <3>3 DEF TypeOf, NumbersOf, Entries
  <2>2. (ExamWeekIssues(o, a) = {}) <=>
          \A j \in DOMAIN o :
            o[j].number \in NumbersOf(a) /\ TypeOf(a, o[j].number) \in ExamWeekTypes =>
              ~o[j].topics
    BY DEF ExamWeekIssues, Entries
  <2>3. \A n \in NumbersOf(a) : \E i \in DOMAIN a.weeks : a.weeks[i].week = n
    BY DEF NumbersOf, Entries
  <2> QED
    BY <2>1, <2>2, <2>3 DEF ExamsAreBare
<1>4. (ActivityIssues(o, c) = {}) <=> IsEnabled(o, c)
  <2>1. (ActivityIssues(o, c) = {}) <=>
          \A j \in DOMAIN o : ~ \E k \in o[j].activities \cap DOMAIN c : ~c[k]
    BY DEF ActivityIssues, Entries
  <2> QED
    BY <2>1 DEF IsEnabled
<1> QED
  BY <1>1, <1>2, <1>3, <1>4 DEF ValidatePlan

\* A version is marked as passed exactly when its plan keeps what the validation
\* promises about the analysis and the configuration its request held
\* (validate_plan, store_planned_plan), for any analyses and any plans.
THEOREM VerdictsAreTrue == ServicesSpec => []PassedPlansFit
<1>1. ContractInv => PassedPlansFit
  <2>1. SUFFICES ASSUME ContractInv, version # Nil
                 PROVE  PassedPlansFit
    BY DEF PassedPlansFit
  <2>2. PICK a, c, o : /\ a = version.request.analysis /\ c = version.request.configuration
                       /\ o = version.output
    OBVIOUS
  <2>3. /\ a \in Analyses /\ AnalysisPasses(a)
        /\ version.passed = (ValidatePlan(o, a, c) = {})
    BY <2>1, <2>2 DEF ContractInv, ValidAnalysis
  <2>4. version.passed <=>
          /\ a.weeks # <<>> => HasWeeks(o, a)
          /\ a.declared # {} => Covers(o, a)
          /\ ExamsAreBare(o, a)
          /\ IsEnabled(o, c)
    BY <2>3, NoIssue
  <2> QED
    BY <2>2, <2>4 DEF PassedPlansFit, HasWeeks, Covers, ExamsAreBare, IsEnabled
<1> QED
  BY <1>1, ContractInvariant, PTL

\* The rows are those of the plan's weeks, by their numbers.
LEMMA RowsAreWeeks ==
  ASSUME NEW o, NEW a, OutputFits(o), NEW rows, rows = BuildWeeks(o, a)
  PROVE  /\ Cardinality(PlannedNumbers(o)) \in Nat
         /\ DOMAIN rows = 1 .. Cardinality(PlannedNumbers(o))
         /\ Len(rows) = Cardinality(PlannedNumbers(o))
         /\ \A i, j \in DOMAIN rows : i < j => rows[i].number < rows[j].number
         /\ \A i \in DOMAIN rows : \E w \in Entries(o) : rows[i] = RowOf(w, a)
<1>1. PICK numbers : numbers = PlannedNumbers(o)
  OBVIOUS
<1>2. PICK order : order = Ascending(numbers)
  OBVIOUS
<1>3. IsFiniteSet(numbers) /\ \A n \in numbers : n \in Int
  <2>1. numbers \subseteq 1 .. MaxWeek /\ IsFiniteSet(1 .. MaxWeek)
    BY <1>1, PlanContractAssumption, FS_Interval DEF OutputFits
  <2>2. IsFiniteSet(numbers)
    BY <2>1, FS_Subset
  <2>3. \A n \in 1 .. MaxWeek : n \in Int
    OBVIOUS
  <2> QED
    BY <2>1, <2>2, <2>3
<1>4. /\ Cardinality(numbers) \in Nat /\ order \in [1 .. Cardinality(numbers) -> numbers]
      /\ \A i, j \in 1 .. Cardinality(numbers) : i < j => order[i] < order[j]
  BY <1>2, <1>3, AscendingIs
<1>5. rows = [i \in 1 .. Cardinality(numbers) |-> RowOf(WeekOf(o, order[i]), a)]
  BY <1>1, <1>2 DEF BuildWeeks
<1>6. ASSUME NEW i \in 1 .. Cardinality(numbers)
      PROVE  WeekOf(o, order[i]) \in Entries(o) /\ rows[i].number = order[i]
  <2>1. PICK n \in numbers : n = order[i]
    BY <1>4
  <2>2. \E w \in Entries(o) : w.number = n
    BY <1>1 DEF PlannedNumbers
  <2>3. PICK w : w = WeekOf(o, n)
    OBVIOUS
  <2>4. w \in Entries(o) /\ w.number = n
    BY <2>2, <2>3, Zenon DEF WeekOf
  <2>5. rows[i] = RowOf(w, a)
    BY <1>5, <2>1, <2>3
  <2> QED
    BY <2>1, <2>3, <2>4, <2>5 DEF RowOf
<1>7. DOMAIN rows = 1 .. Cardinality(numbers) /\ Len(rows) = Cardinality(numbers)
  BY <1>4, <1>5
<1>8. \A i, j \in DOMAIN rows : i < j => rows[i].number < rows[j].number
  BY <1>4, <1>6, <1>7
<1>9. \A i \in DOMAIN rows : \E w \in Entries(o) : rows[i] = RowOf(w, a)
  BY <1>5, <1>6, <1>7
<1> QED
  BY <1>1, <1>4, <1>7, <1>8, <1>9

\* A row that is marked as the week of an exam is one of the analysis.
LEMMA MarkedIsExam ==
  ASSUME NEW a, NEW w, RowOf(w, a).week_type \in ExamWeekTypes
  PROVE  \E i \in DOMAIN a.weeks : a.weeks[i].week = w.number /\ a.weeks[i].type \in ExamWeekTypes
<1>1. PICK mark : mark = RowOf(w, a).week_type
  OBVIOUS
<1>2. mark = IF w.number \in NumbersOf(a) THEN TypeOf(a, w.number) ELSE "regular"
  BY <1>1 DEF RowOf
<1>3. w.number \in NumbersOf(a) /\ mark = TypeOf(a, w.number)
  BY <1>1, <1>2 DEF ExamWeekTypes
<1>4. PICK x : x = CHOOSE e \in Entries(a.weeks) : e.week = w.number
  OBVIOUS
<1>5. \E e \in Entries(a.weeks) : e.week = w.number
  BY <1>3 DEF NumbersOf
<1>6. x \in Entries(a.weeks) /\ x.week = w.number
  BY <1>4, <1>5, Zenon
<1>7. mark = x.type
  BY <1>3, <1>4 DEF TypeOf
<1> QED
  BY <1>1, <1>6, <1>7 DEF Entries

\* An approved plan stores the weeks of the RPS, each once and in order, and no
\* topic in the week of an exam (validate_plan, _build_weeks, approve): the rows
\* are marked from the analysis that the validation has read, for any analyses,
\* plans and changes between them.
THEOREM ApprovedPlansStand == ServicesSpec => []ApprovedWeeksStand
<1>1. ContractInv => ApprovedWeeksStand
  <2> SUFFICES ASSUME ContractInv, version # Nil, version.status = "APPROVED"
               PROVE  ApprovedWeeksStand
    BY DEF ApprovedWeeksStand
  <2>1. PICK a, c, o, rows :
          /\ a = version.request.analysis /\ c = version.request.configuration
          /\ o = version.output /\ rows = version.weeks
    OBVIOUS
  <2>2. /\ a \in Analyses /\ AnalysisPasses(a) /\ OutputFits(o) /\ rows = BuildWeeks(o, a)
        /\ ValidatePlan(o, a, c) = {}
    BY <2>1 DEF ContractInv, ValidAnalysis
  <2>3. (a.weeks # <<>> => HasWeeks(o, a)) /\ ExamsAreBare(o, a)
    BY <2>2, NoIssue
  <2>4. \A i, j \in DOMAIN rows : i < j => rows[i].number < rows[j].number
    BY <2>2, RowsAreWeeks
  <2>5. ASSUME a.weeks # <<>> PROVE Len(rows) = Len(a.weeks)
    <3>1. Len(rows) = Cardinality(PlannedNumbers(o))
      BY <2>2, RowsAreWeeks
    <3>2. PlannedNumbers(o) = NumbersOf(a)
      <4>1. PICK planned : planned = PlannedNumbers(o)
        OBVIOUS
      <4>2. PICK read : read = NumbersOf(a)
        OBVIOUS
      <4>3. \A n : n \in planned <=> \E j \in DOMAIN o : o[j].number = n
        BY <4>1 DEF PlannedNumbers, Entries
      <4>4. \A n : n \in read <=> \E i \in DOMAIN a.weeks : a.weeks[i].week = n
        BY <4>2 DEF NumbersOf, Entries
      <4>5. \A n : n \in planned <=> n \in read
        BY <2>3, <2>5, <4>3, <4>4 DEF HasWeeks
      <4> QED
        BY <4>1, <4>2, <4>5
    <3> QED
      BY <2>2, <3>1, <3>2 DEF AnalysisPasses
  <2>6. ASSUME NEW row \in Entries(rows), row.week_type \in ExamWeekTypes
        PROVE  ~row.topics
    <3>1. PICK w \in Entries(o) : row = RowOf(w, a)
      BY <2>2, RowsAreWeeks DEF Entries
    <3>2. PICK i \in DOMAIN a.weeks : a.weeks[i].week = w.number /\ a.weeks[i].type \in ExamWeekTypes
      BY <2>6, <3>1, MarkedIsExam
    <3>3. ~w.topics
      BY <2>3, <3>2 DEF ExamsAreBare, Entries
    <3> QED
      BY <3>1, <3>3 DEF RowOf
  <2> QED
    BY <2>1, <2>4, <2>5, <2>6 DEF ApprovedWeeksStand
<1> QED
  BY <1>1, ContractInvariant, PTL

-----------------------------------------------------------------------------
(* The export of a document.                                               *)

Documents == SourceDocuments \cup {NothingYet}

LEMMA DocumentIs ==
  ASSUME NEW doc \in Documents
  PROVE  doc.texts \in Seq(SourceItem) /\ doc.tables \in Seq(SourceTable)
<1>1. CASE doc = NothingYet
  <2>1. doc.texts = <<>> /\ doc.tables = <<>>
    BY <1>1 DEF NothingYet
  <2>2. <<>> \in Seq(SourceItem) /\ <<>> \in Seq(SourceTable)
    OBVIOUS
  <2> QED
    BY <2>1, <2>2
<1>2. CASE doc \in SourceDocuments
  BY <1>2, RpsExportAssumption
<1> QED
  BY <1>1, <1>2 DEF Documents

\* What remains of a document, in whatever order.
KeptBlocks(doc) ==
  {TextBlock(doc.texts[i]) : i \in KeptTexts(doc)}
  \cup {TableBlock(doc.tables[i]) : i \in KeptTables(doc)}

HavePages(T) == \A b \in T : b.page \in Nat

LEMMA PagesAreNumbers ==
  ASSUME NEW doc \in Documents
  PROVE  HavePages(KeptBlocks(doc))
<1>1. doc.texts \in Seq(SourceItem) /\ doc.tables \in Seq(SourceTable)
  BY DocumentIs
<1>2. ASSUME NEW i \in KeptTexts(doc) PROVE TextBlock(doc.texts[i]).page \in Nat
  <2>1. doc.texts[i] \in SourceItem
    BY <1>1 DEF KeptTexts
  <2> QED
    BY <2>1 DEF TextBlock, SourceItem
<1>3. ASSUME NEW i \in KeptTables(doc) PROVE TableBlock(doc.tables[i]).page \in Nat
  <2>1. doc.tables[i] \in SourceTable
    BY <1>1 DEF KeptTables
  <2> QED
    BY <2>1 DEF TableBlock, SourceTable
<1> QED
  BY <1>2, <1>3 DEF KeptBlocks, HavePages

\* A list of all of T, and of nothing else.
Lists(list, T) == list \in Seq(T) /\ \A b \in T : \E i \in DOMAIN list : list[i] = b

LEMMA ListsAre ==
  ASSUME NEW doc \in Documents
  PROVE  Lists(TextBlocks(doc) \o TableBlocks(doc), KeptBlocks(doc))
<1>1. doc.texts \in Seq(SourceItem) /\ doc.tables \in Seq(SourceTable)
  BY DocumentIs
<1>2. PICK T : T = KeptBlocks(doc)
  OBVIOUS
<1>3. PICK a : a = TextBlocks(doc)
  OBVIOUS
<1>4. /\ a \in Seq(T)
      /\ \A i \in KeptTexts(doc) : \E k \in DOMAIN a : a[k] = TextBlock(doc.texts[i])
  <2>0. PICK texts \in Seq(SourceItem) : texts = doc.texts
    BY <1>1
  <2>1. PICK n \in Nat : n = Len(texts) /\ DOMAIN doc.texts = 1 .. n
    BY <2>0
  <2>2. PICK all : all = [i \in DOMAIN doc.texts |-> TextBlock(doc.texts[i])]
    OBVIOUS
  <2>3. PICK S \in SUBSET (1 .. n) : S = KeptTexts(doc)
    BY <2>1 DEF KeptTexts
  <2>4. \A i \in S : all[i] = TextBlock(doc.texts[i])
    BY <2>1, <2>2
  <2>5. \A i \in S : all[i] \in T
    BY <1>2, <2>3, <2>4 DEF KeptBlocks
  <2>6. a = Sublist(all, S)
    BY <1>3, <2>2, <2>3 DEF TextBlocks
  <2>7. a \in Seq(T) /\ \A i \in S : \E k \in DOMAIN a : a[k] = all[i]
    BY <2>5, <2>6, SublistIs, ZenonT(60)
  <2> QED
    BY <2>3, <2>4, <2>7
<1>5. PICK b : b = TableBlocks(doc)
  OBVIOUS
<1>6. /\ b \in Seq(T)
      /\ \A i \in KeptTables(doc) : \E k \in DOMAIN b : b[k] = TableBlock(doc.tables[i])
  <2>0. PICK tables \in Seq(SourceTable) : tables = doc.tables
    BY <1>1
  <2>1. PICK n \in Nat : n = Len(tables) /\ DOMAIN doc.tables = 1 .. n
    BY <2>0
  <2>2. PICK all : all = [i \in DOMAIN doc.tables |-> TableBlock(doc.tables[i])]
    OBVIOUS
  <2>3. PICK S \in SUBSET (1 .. n) : S = KeptTables(doc)
    BY <2>1 DEF KeptTables
  <2>4. \A i \in S : all[i] = TableBlock(doc.tables[i])
    BY <2>1, <2>2
  <2>5. \A i \in S : all[i] \in T
    BY <1>2, <2>3, <2>4 DEF KeptBlocks
  <2>6. b = Sublist(all, S)
    BY <1>5, <2>2, <2>3 DEF TableBlocks
  <2>7. b \in Seq(T) /\ \A i \in S : \E k \in DOMAIN b : b[k] = all[i]
    BY <2>5, <2>6, SublistIs, ZenonT(60)
  <2> QED
    BY <2>3, <2>4, <2>7
<1>7. PICK list : list = a \o b
  OBVIOUS
<1>8. /\ list \in Seq(T)
      /\ \A k \in DOMAIN a : k \in DOMAIN list /\ list[k] = a[k]
      /\ \A k \in DOMAIN b : Len(a) + k \in DOMAIN list /\ list[Len(a) + k] = b[k]
  BY <1>4, <1>6, <1>7
<1>9. ASSUME NEW x \in T PROVE \E i \in DOMAIN list : list[i] = x
  <2>1. CASE \E i \in KeptTexts(doc) : x = TextBlock(doc.texts[i])
    BY <1>4, <1>8, <2>1
  <2>2. CASE \E i \in KeptTables(doc) : x = TableBlock(doc.tables[i])
    BY <1>6, <1>8, <2>2
  <2> QED
    BY <1>2, <2>1, <2>2 DEF KeptBlocks
<1>10. Lists(list, T)
  BY <1>8, <1>9 DEF Lists
<1> QED
  BY <1>2, <1>3, <1>5, <1>7, <1>10

\* The sort by page returns the same blocks.
LEMMA ReadingOrderIs ==
  ASSUME NEW T, HavePages(T), NEW list \in Seq(T),
         NEW sorted, sorted = InReadingOrder(list)
  PROVE  /\ DOMAIN sorted = DOMAIN list
         /\ \A i \in DOMAIN list : sorted[i] \in T
         /\ \A k \in DOMAIN list : \E i \in DOMAIN list : sorted[i] = list[k]
         /\ \A i, j \in DOMAIN list : i < j => sorted[i].page <= sorted[j].page
<1>1. PICK n \in Nat : n = Len(list) /\ DOMAIN list = 1 .. n
  OBVIOUS
<1>2. PICK S : S = 1 .. n
  OBVIOUS
<1>3. IsFiniteSet(S) /\ Cardinality(S) = n /\ S \in SUBSET Nat
  BY <1>2, FS_Interval
<1>4. \A k \in S : list[k] \in T /\ list[k].page \in Nat
  BY <1>1, <1>2 DEF HavePages
<1> DEFINE B(i, j) == list[i].page < list[j].page \/ (list[i].page = list[j].page /\ i <= j)
<1>5. PICK before : before = {p \in S \X S : B(p[1], p[2])}
  OBVIOUS
<1>6. \A i, j \in S : <<i, j>> \in before <=> B(i, j)
  BY <1>5
<1>7. OrdersTotally(before, S)
  <2>1. PICK page : page = [i \in S |-> list[i].page]
    OBVIOUS
  <2>2. \A i \in S : page[i] \in Nat /\ page[i] = list[i].page /\ i \in Nat
    BY <1>3, <1>4, <2>1
  <2>3. \A i, j \in S : <<i, j>> \in before <=> page[i] < page[j] \/ (page[i] = page[j] /\ i <= j)
    BY <1>6, <2>2
  <2> HIDE DEF B
  <2> QED
    BY <2>2, <2>3 DEF OrdersTotally
<1>8. \A i \in S : \E k \in S : Rank(S, before, k) = i
  BY <1>2, <1>3, <1>7, RanksAreTaken
<1>9. PICK order : order = [i \in S |-> CHOOSE k \in S : Cardinality({j \in S : B(j, k)}) = i]
  OBVIOUS
<1>10. sorted = [i \in S |-> list[order[i]]]
  BY <1>1, <1>2, <1>3, <1>9 DEF InReadingOrder, Ranked
<1>11. \A k \in S : Cardinality({j \in S : B(j, k)}) = Rank(S, before, k)
  <2> SUFFICES ASSUME NEW k \in S
               PROVE  Cardinality({j \in S : B(j, k)}) = Rank(S, before, k)
    OBVIOUS
  <2>1. {j \in S : B(j, k)} = {j \in S : <<j, k>> \in before}
    BY <1>6
  <2> QED
    BY <2>1 DEF Rank
<1>12. \A i, j \in S : B(i, j) => list[i].page <= list[j].page
  BY <1>4
<1> HIDE DEF B
<1>13. ASSUME NEW i \in S PROVE order[i] \in S /\ Rank(S, before, order[i]) = i
  <2>1. \E k \in S : Cardinality({j \in S : B(j, k)}) = i
    BY <1>8, <1>11
  <2>2. order[i] = CHOOSE k \in S : Cardinality({j \in S : B(j, k)}) = i
    BY <1>9
  <2>3. order[i] \in S /\ Cardinality({j \in S : B(j, order[i])}) = i
    BY <2>1, <2>2, Zenon
  <2> QED
    BY <1>11, <2>3
<1>14. InTheirPlaces(order, S, before)
  BY <1>2, <1>3, <1>9, <1>13 DEF InTheirPlaces
<1>15. /\ \A k \in S : \E i \in S : order[i] = k
       /\ \A i, j \in S : i < j => <<order[i], order[j]>> \in before
  <2>1. 1 .. Cardinality(S) = S
    BY <1>2, <1>3
  <2>2. /\ \A k \in S : \E i \in 1 .. Cardinality(S) : order[i] = k
        /\ \A i, j \in 1 .. Cardinality(S) : i < j =>
             <<order[i], order[j]>> \in before /\ order[i] # order[j]
    BY <1>3, <1>7, <1>14, InPlace
  <2> QED
    BY <2>1, <2>2
<1>16. ASSUME NEW i \in S, NEW j \in S, i < j
       PROVE  sorted[i].page <= sorted[j].page
  <2>1. <<order[i], order[j]>> \in before
    BY <1>15, <1>16
  <2>2. B(order[i], order[j])
    BY <1>6, <1>13, <2>1
  <2>3. list[order[i]].page <= list[order[j]].page
    BY <1>12, <1>13, <2>2
  <2> QED
    BY <1>10, <2>3
<1>17. /\ \A i \in S : sorted[i] \in T
       /\ \A k \in S : \E i \in S : sorted[i] = list[k]
  BY <1>4, <1>10, <1>13, <1>15
<1> QED
  BY <1>1, <1>2, <1>10, <1>16, <1>17

\* The blocks that come of a document are what remains of it, by its pages.
LEMMA YamlIs ==
  ASSUME NEW doc \in Documents, NEW list, list = DocumentToYaml(doc)
  PROVE  /\ \A i \in DOMAIN list : list[i] \in KeptBlocks(doc)
         /\ \A b \in KeptBlocks(doc) : \E i \in DOMAIN list : list[i] = b
         /\ \A i, j \in DOMAIN list : i < j => list[i].page <= list[j].page
<1>1. PICK T : T = KeptBlocks(doc)
  OBVIOUS
<1>2. PICK all : all = TextBlocks(doc) \o TableBlocks(doc)
  OBVIOUS
<1>3. all \in Seq(T) /\ \A b \in T : \E i \in DOMAIN all : all[i] = b
  <2>1. Lists(all, T)
    BY <1>1, <1>2, ListsAre
  <2> QED
    BY <2>1 DEF Lists
<1>4. HavePages(T)
  BY <1>1, PagesAreNumbers
<1>5. list = InReadingOrder(all)
  BY <1>2 DEF DocumentToYaml
<1>6. /\ DOMAIN list = DOMAIN all
      /\ \A i \in DOMAIN all : list[i] \in T
      /\ \A k \in DOMAIN all : \E i \in DOMAIN all : list[i] = all[k]
      /\ \A i, j \in DOMAIN all : i < j => list[i].page <= list[j].page
  BY <1>3, <1>4, <1>5, ReadingOrderIs, Zenon
<1> QED
  BY <1>1, <1>3, <1>6

LEMMA ImagesAreFinite ==
  ASSUME NEW n \in Nat, NEW f, NEW T \in SUBSET {f[i] : i \in 1 .. n}
  PROVE  IsFiniteSet(T)
<1>1. PICK g : g = [i \in 1 .. n |-> f[i]]
  OBVIOUS
<1>2. PICK U : U = {f[i] : i \in 1 .. n}
  OBVIOUS
<1>3. g \in Surjection(1 .. n, U)
  BY <1>1, <1>2 DEF Surjection
<1>4. IsFiniteSet(1 .. n)
  BY FS_Interval
<1>5. IsFiniteSet(U)
  BY <1>3, <1>4, FS_Surjection
<1> QED
  BY <1>2, <1>5, FS_Subset

LEMMA RedactedIs ==
  ASSUME NEW text \in SourceText
  PROVE  /\ RedactIdentity(text).who # "named" /\ RedactIdentity(text).words = text.words
         /\ text.who = "silent" => RedactIdentity(text) = text
BY DEF SourceText, RedactIdentity

\* A text of the body that says nothing of the lecturer remains, unless it is
\* one of the template's.
LEMMA TextRemains ==
  ASSUME NEW doc \in Documents, NEW item \in TextsOf(doc),
         item.page \in ShownOn(doc, item.text), item.text.who = "silent",
         item.text.short => Cardinality(ShownOn(doc, item.text)) < MinPages
  PROVE  \E b \in KeptBlocks(doc) : b.kind # "table" /\ b.page = item.page /\ b.text = item.text
<1>1. PICK texts \in Seq(SourceItem) : texts = doc.texts
  BY DocumentIs
<1>2. PICK n \in Nat : n = Len(texts) /\ DOMAIN texts = 1 .. n
  BY <1>1
<1>3. \A k \in 1 .. n : texts[k] \in SourceItem
  BY <1>1, <1>2
<1>4. PICK i \in 1 .. n : /\ InBody(texts[i]) /\ texts[i].text = item.text
                          /\ texts[i].page = item.page
  BY <1>1, <1>2 DEF ShownOn, TextsOf
<1>5. ~IsPageChrome(texts[i])
  BY <1>4 DEF InBody, IsPageChrome
<1>6. /\ item.text \in SourceText /\ RedactIdentity(item.text) = item.text
  <2>1. texts[i].text \in SourceText
    BY <1>3, <1>4 DEF SourceItem
  <2> QED
    BY <1>4, <2>1, RedactedIs
<1>7. item.text \notin RepeatedChromeTexts(doc)
  <2> SUFFICES ASSUME item.text \in RepeatedChromeTexts(doc)
               PROVE  FALSE
    OBVIOUS
  <2>1. PICK pages : pages = {doc.texts[k].page : k \in {j \in ShortTexts(doc) : doc.texts[j].text = item.text}}
    OBVIOUS
  <2>2. PICK shown : shown = ShownOn(doc, item.text)
    OBVIOUS
  <2>3. Cardinality(pages) >= MinPages /\ \E k \in ShortTexts(doc) : doc.texts[k].text = item.text
    BY <2>1 DEF RepeatedChromeTexts
  <2>4. item.text.short
    BY <2>3 DEF ShortTexts
  <2>5. \A p : p \in pages <=> \E k \in 1 .. n : /\ ~IsPageChrome(texts[k])
                                                 /\ texts[k].text = item.text /\ texts[k].page = p
    BY <1>1, <1>2, <2>1, <2>4 DEF ShortTexts
  <2>6. \A p : p \in shown <=> \E k \in 1 .. n : /\ InBody(texts[k])
                                                 /\ texts[k].text = item.text /\ texts[k].page = p
    BY <1>1, <1>2, <2>2 DEF ShownOn, TextsOf
  <2>7. pages = shown
    <3>1. \A k \in 1 .. n : InBody(texts[k]) <=> ~IsPageChrome(texts[k])
      BY DEF InBody, IsPageChrome
    <3>2. \A p : p \in pages <=> p \in shown
      BY <2>5, <2>6, <3>1
    <3> QED
      BY <3>2
  <2>8. PICK f : f = [k \in 1 .. n |-> texts[k].page]
    OBVIOUS
  <2>9. shown \in SUBSET {f[k] : k \in 1 .. n}
    BY <2>6, <2>8
  <2>10. Cardinality(shown) \in Nat
    BY <2>9, ImagesAreFinite, FS_CardinalityType
  <2>11. Cardinality(shown) < MinPages
    BY <2>2, <2>4
  <2> QED
    BY <2>3, <2>7, <2>10, <2>11, RpsExportAssumption
<1>8. i \in KeptTexts(doc)
  BY <1>1, <1>2, <1>4, <1>5, <1>6, <1>7 DEF KeptTexts
<1>9. PICK b : b = TextBlock(texts[i])
  OBVIOUS
<1>10. b.kind # "table" /\ b.page = item.page /\ b.text = item.text
  BY <1>4, <1>6, <1>9 DEF TextBlock
<1>11. b \in KeptBlocks(doc)
  BY <1>1, <1>8, <1>9 DEF KeptBlocks
<1> QED
  BY <1>10, <1>11

\* The rows of a table are those of its grid that have no administrative cell.
LEMMA TableRowsAre ==
  ASSUME NEW t \in SourceTable
  PROVE  /\ Grid(t.cells) \subseteq SourceCell
         /\ \A r \in DOMAIN TableRows(t) : \E n : TableRows(t)[r] = RowOfTable(Grid(t.cells), n)
         /\ \A n \in RowNumbers(Grid(t.cells)) :
              \E r \in DOMAIN TableRows(t) : TableRows(t)[r] = RowOfTable(Grid(t.cells), n)
<1>1. PICK cells \in Seq(SourceCell) : cells = t.cells
  BY DEF SourceTable
<1>2. PICK m \in Nat : m = Len(cells) /\ DOMAIN cells = 1 .. m
  BY <1>1
<1>3. PICK grid : grid = Grid(t.cells)
  OBVIOUS
<1>4. \A c \in grid : \E i \in 1 .. m : c = cells[i]
  BY <1>1, <1>2, <1>3 DEF Grid
<1>5. grid \subseteq SourceCell
  BY <1>1, <1>2, <1>4
<1>6. PICK numbers : numbers = RowNumbers(grid)
  OBVIOUS
<1>7. PICK f : f = [i \in 1 .. m |-> cells[i].row]
  OBVIOUS
<1>8. numbers \in SUBSET {f[i] : i \in 1 .. m}
  BY <1>4, <1>6, <1>7 DEF RowNumbers
<1>9. IsFiniteSet(numbers) /\ \A n \in numbers : n \in Int
  <2>1. \A n \in numbers : n \in Nat
    BY <1>5, <1>6 DEF RowNumbers, SourceCell
  <2>2. IsFiniteSet(numbers)
    BY <1>8, ImagesAreFinite
  <2> QED
    BY <2>1, <2>2
<1>10. PICK order : order = Ascending(numbers)
  OBVIOUS
<1>11. /\ \A n \in numbers : \E r \in 1 .. Cardinality(numbers) : order[r] = n
  BY <1>9, <1>10, AscendingIs
<1>12. PICK rows : rows = TableRows(t)
  OBVIOUS
<1>13. rows = [r \in 1 .. Cardinality(numbers) |-> RowOfTable(grid, order[r])]
  BY <1>3, <1>6, <1>10, <1>12 DEF TableRows
<1>14. \A r \in DOMAIN rows : rows[r] = RowOfTable(grid, order[r])
  BY <1>13
<1>15. \A n \in numbers : \E r \in DOMAIN rows : rows[r] = RowOfTable(grid, n)
  BY <1>11, <1>13
<1> QED
  BY <1>3, <1>5, <1>6, <1>12, <1>14, <1>15

\* No name is left in what remains.
LEMMA NoNameRemains ==
  ASSUME NEW doc \in Documents, NEW b \in KeptBlocks(doc)
  PROVE  IF b.kind = "table"
         THEN \A r \in DOMAIN b.rows : \A cell \in b.rows[r] : cell.text.who # "named"
         ELSE b.text.who # "named"
<1>1. doc.texts \in Seq(SourceItem) /\ doc.tables \in Seq(SourceTable)
  BY DocumentIs
<1>2. ASSUME NEW i \in KeptTexts(doc), b = TextBlock(doc.texts[i])
      PROVE  b.kind # "table" /\ b.text.who # "named"
  <2>1. PICK item \in SourceItem : item = doc.texts[i]
    BY <1>1 DEF KeptTexts
  <2>2. PICK text \in SourceText : text = item.text
    BY DEF SourceItem
  <2>3. b.kind # "table" /\ b.text = RedactIdentity(text)
    BY <1>2, <2>1, <2>2 DEF TextBlock
  <2> QED
    BY <2>3, RedactedIs
<1>3. ASSUME NEW i \in KeptTables(doc), b = TableBlock(doc.tables[i])
      PROVE  b.kind = "table" /\ \A r \in DOMAIN b.rows : \A cell \in b.rows[r] : cell.text.who # "named"
  <2>1. PICK t \in SourceTable : t = doc.tables[i]
    BY <1>1 DEF KeptTables
  <2>2. PICK rows : rows = TableRows(t)
    OBVIOUS
  <2>3. b.kind = "table" /\ b.rows = rows
    BY <1>3, <2>1, <2>2 DEF TableBlock
  <2>4. ASSUME NEW r \in DOMAIN rows, NEW cell \in rows[r]
        PROVE  cell.text.who # "named"
    <3>1. PICK n : rows[r] = RowOfTable(Grid(t.cells), n)
      BY <2>2, TableRowsAre
    <3>2. PICK c \in Grid(t.cells) : cell = [column |-> c.column, text |-> CellText(c)]
      BY <2>4, <3>1 DEF RowOfTable
    <3>3. PICK text \in SourceText : text = c.text
      BY TableRowsAre DEF SourceCell
    <3>4. cell.text = RedactIdentity(text)
      BY <3>2, <3>3 DEF CellText
    <3> QED
      BY <3>4, RedactedIs
  <2> QED
    BY <2>3, <2>4
<1> QED
  BY <1>2, <1>3 DEF KeptBlocks

\* What holds something academic in the end, in a row that is not one of the
\* template's head, remains.
LEMMA CellRemains ==
  ASSUME NEW doc \in Documents, NEW i \in DOMAIN doc.tables, NEW k \in DOMAIN doc.tables[i].cells,
         NEW t, t = doc.tables[i], InBody(t), t.cells[k].holds = "academic",
         \A j \in DOMAIN t.cells :
           /\ j > k => Place(t.cells[j]) # Place(t.cells[k])
           /\ t.cells[j].row = t.cells[k].row => t.cells[j].holds # "admin"
  PROVE  \E b \in KeptBlocks(doc) :
           /\ b.kind = "table" /\ b.page = t.page
           /\ \E r \in DOMAIN b.rows : \E cell \in b.rows[r] :
                cell.column = t.cells[k].column /\ cell.text.words = t.cells[k].text.words
<1>1. t \in SourceTable
  BY DocumentIs
<1>2. PICK cells \in Seq(SourceCell) : cells = t.cells
  BY <1>1 DEF SourceTable
<1>3. PICK m \in Nat : m = Len(cells) /\ DOMAIN cells = 1 .. m
  BY <1>2
<1>4. k \in 1 .. m /\ cells[k] \in SourceCell
  BY <1>2, <1>3
<1>5. PICK grid : grid = Grid(t.cells)
  OBVIOUS
<1>6. \A c : c \in grid <=>
        \E j \in 1 .. m : /\ c = cells[j] /\ cells[j].holds # "page number"
                          /\ \A l \in 1 .. m : cells[l].holds # "page number"
                               => (Place(cells[l]) = Place(cells[j]) => l <= j)
  BY <1>2, <1>3, <1>5 DEF Grid
<1>7. \A j \in 1 .. m : /\ j > k => Place(cells[j]) # Place(cells[k])
                        /\ cells[j].row = cells[k].row => cells[j].holds # "admin"
  BY <1>2, <1>3
<1>8. cells[k] \in grid
  <2>1. cells[k].holds # "page number"
    BY <1>2
  <2>2. \A l \in 1 .. m : Place(cells[l]) = Place(cells[k]) => l <= k
    BY <1>4, <1>7
  <2> QED
    BY <1>4, <1>6, <2>1, <2>2
<1>9. PICK n : n = cells[k].row
  OBVIOUS
<1>10. ASSUME NEW c \in grid, c.row = n PROVE c.holds # "admin"
  <2>1. PICK j \in 1 .. m : c = cells[j]
    BY <1>6
  <2> QED
    BY <1>7, <1>9, <1>10, <2>1
<1>11. n \in RowNumbers(grid)
  BY <1>8, <1>9, <1>10 DEF RowNumbers
<1>12. PICK rows : rows = TableRows(t)
  OBVIOUS
<1>13. PICK r \in DOMAIN rows : rows[r] = RowOfTable(grid, n)
  BY <1>1, <1>5, <1>11, <1>12, TableRowsAre
<1>14. PICK text \in SourceText : text = cells[k].text
  BY <1>4 DEF SourceCell
<1>15. PICK cell : cell = [column |-> cells[k].column, text |-> CellText(cells[k])]
  OBVIOUS
<1>16. cell \in rows[r]
  BY <1>8, <1>9, <1>13, <1>15 DEF RowOfTable
<1>17. cell.column = cells[k].column /\ cell.text.words = cells[k].text.words
  <2>1. cell.column = cells[k].column /\ cell.text = RedactIdentity(text)
    BY <1>14, <1>15 DEF CellText
  <2> QED
    BY <1>14, <2>1, RedactedIs
<1>18. PICK b : b = TableBlock(t)
  OBVIOUS
<1>19. b.kind = "table" /\ b.page = t.page /\ b.rows = rows
  BY <1>12, <1>18 DEF TableBlock
<1>20. rows # <<>>
  BY <1>13
<1>21. i \in KeptTables(doc)
  BY <1>12, <1>20 DEF KeptTables, InBody, IsPageChrome
<1>22. b \in KeptBlocks(doc)
  BY <1>18, <1>21 DEF KeptBlocks
<1> QED
  BY <1>2, <1>13, <1>16, <1>17, <1>19, <1>22

\* The blocks are those of the document exported last.
ExportInv ==
  \/ source = NothingYet /\ blocks = <<>>
  \/ source \in Documents /\ blocks = DocumentToYaml(source)

LEMMA ExportInvariant == ServicesSpec => []ExportInv
<1>1. ServicesInit => ExportInv
  BY DEF ServicesInit, ExportInit, ExportInv
<1>2. ExportInv /\ [ServicesNext]_servicesVars => ExportInv'
  <2>1. ExportInv /\ UNCHANGED exportVars => ExportInv'
    BY DEF ExportInv, exportVars
  <2>2. ExportNext => ExportInv'
    BY DEF ExportNext, Export, ExportInv, Documents
  <2> QED
    BY <2>1, <2>2, EachAlone
<1> QED
  BY <1>1, <1>2, PTL DEF ServicesSpec

\* No name behind a keyword of the template reaches the model through a heading,
\* a paragraph or a cell of a table (document_to_yaml, _redact_identity,
\* _table_rows), whatever the document.
THEOREM NamesAreWithheld == ServicesSpec => []NamesStayBehind
<1>1. ExportInv => NamesStayBehind
  <2>1. CASE blocks = <<>>
    BY <2>1 DEF NamesStayBehind
  <2>2. ASSUME source \in Documents, blocks = DocumentToYaml(source)
        PROVE  NamesStayBehind
    <3>1. \A i \in DOMAIN blocks : blocks[i] \in KeptBlocks(source)
      BY <2>2, YamlIs
    <3> QED
      BY <2>2, <3>1, NoNameRemains DEF NamesStayBehind
  <2> QED
    BY <2>1, <2>2 DEF ExportInv
<1> QED
  BY <1>1, ExportInvariant, PTL

\* Nothing academic is lost on the way to the model (_repeated_chrome_texts,
\* _table_rows, the sort of document_to_yaml): what the template does not repeat
\* is among the blocks, on its page, and the blocks follow the pages - for
\* documents of any length and any threshold.
THEOREM AcademicTextArrives == ServicesSpec => []AcademicTextKept
<1>1. ExportInv => AcademicTextKept
  <2>1. CASE source = NothingYet /\ blocks = <<>>
    BY <2>1 DEF AcademicTextKept, NothingYet, TextsOf
  <2>2. ASSUME source \in Documents, blocks = DocumentToYaml(source)
        PROVE  AcademicTextKept
    <3>1. /\ \A b \in KeptBlocks(source) : \E i \in DOMAIN blocks : blocks[i] = b
          /\ \A i, j \in DOMAIN blocks : i < j => blocks[i].page <= blocks[j].page
      BY <2>2, YamlIs
    <3>2. ASSUME NEW item \in TextsOf(source),
                 item.page \in ShownOn(source, item.text), item.text.who = "silent",
                 item.text.short => Cardinality(ShownOn(source, item.text)) < MinPages
          PROVE  \E i \in DOMAIN blocks : /\ blocks[i].kind # "table" /\ blocks[i].page = item.page
                                          /\ blocks[i].text = item.text
      <4>1. PICK b \in KeptBlocks(source) :
              b.kind # "table" /\ b.page = item.page /\ b.text = item.text
        BY <2>2, <3>2, TextRemains
      <4> QED
        BY <3>1, <4>1
    <3>3. ASSUME NEW t \in {source.tables[i] : i \in DOMAIN source.tables}, NEW k \in DOMAIN t.cells,
                 InBody(t), t.cells[k].holds = "academic",
                 \A j \in DOMAIN t.cells :
                   /\ j > k => Place(t.cells[j]) # Place(t.cells[k])
                   /\ t.cells[j].row = t.cells[k].row => t.cells[j].holds # "admin"
          PROVE  \E i \in DOMAIN blocks :
                   /\ blocks[i].kind = "table" /\ blocks[i].page = t.page
                   /\ \E r \in DOMAIN blocks[i].rows : \E cell \in blocks[i].rows[r] :
                        cell.column = t.cells[k].column /\ cell.text.words = t.cells[k].text.words
      <4>1. PICK i \in DOMAIN source.tables : t = source.tables[i]
        OBVIOUS
      <4>2. PICK b \in KeptBlocks(source) :
              /\ b.kind = "table" /\ b.page = t.page
              /\ \E r \in DOMAIN b.rows : \E cell \in b.rows[r] :
                   cell.column = t.cells[k].column /\ cell.text.words = t.cells[k].text.words
        BY <2>2, <3>3, <4>1, CellRemains
      <4> QED
        BY <3>1, <4>2
    <3> QED
      BY <3>1, <3>2, <3>3 DEF AcademicTextKept
  <2> QED
    BY <2>1, <2>2 DEF ExportInv
<1> QED
  BY <1>1, ExportInvariant, PTL
=============================================================================
