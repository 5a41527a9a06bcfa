------------------------------ MODULE Services ------------------------------
(***************************************************************************)
(* The services of the backend that share no state with each other: Moodle *)
(* and its mapping, the setup of an instructor, the uploads, the accounts, *)
(* the calls of the model, the conversion of a document and its export for *)
(* the model, and what the stages of a plan promise each other.  Each of   *)
(* them has variables of its own, and no operation of one reads or writes  *)
(* another's: what an interleaving of two of them does, each does alone.   *)
(* So a behaviour of this module is a behaviour of one of them, chosen at  *)
(* the start.                                                              *)
(***************************************************************************)
EXTENDS MoodleSite, InstructorSetup, Uploads, Accounts, ModelCalls,
        DocumentConversion, RpsExport, PlanContract

CONSTANT Parts   \* the services to look at

VARIABLE part    \* the service that runs

servicesVars == <<moodleVars, setupVars, uploadVars, accountVars, modelVars,
                  conversionVars, exportVars, contractVars, part>>

ServicesInit ==
  /\ part \in Parts
  /\ MoodleInit /\ SetupInit /\ UploadInit /\ AccountsInit /\ ModelInit
  /\ ConversionInit /\ ExportInit /\ ContractInit

MoodleRuns ==
  /\ part = "moodle" /\ MoodleNext
  /\ UNCHANGED <<setupVars, uploadVars, accountVars, modelVars, conversionVars, exportVars,
                 contractVars, part>>

SetupRuns ==
  /\ part = "setup" /\ SetupNext
  /\ UNCHANGED <<moodleVars, uploadVars, accountVars, modelVars, conversionVars, exportVars,
                 contractVars, part>>

UploadsRun ==
  /\ part = "uploads" /\ UploadNext
  /\ UNCHANGED <<moodleVars, setupVars, accountVars, modelVars, conversionVars, exportVars,
                 contractVars, part>>

AccountsRun ==
  /\ part = "accounts" /\ AccountsNext
  /\ UNCHANGED <<moodleVars, setupVars, uploadVars, modelVars, conversionVars, exportVars,
                 contractVars, part>>

ModelRuns ==
  /\ part = "model" /\ ModelNext
  /\ UNCHANGED <<moodleVars, setupVars, uploadVars, accountVars, conversionVars, exportVars,
                 contractVars, part>>

ConversionRuns ==
  /\ part = "conversion" /\ ConversionNext
  /\ UNCHANGED <<moodleVars, setupVars, uploadVars, accountVars, modelVars, exportVars,
                 contractVars, part>>

ExportRuns ==
  /\ part = "export" /\ ExportNext
  /\ UNCHANGED <<moodleVars, setupVars, uploadVars, accountVars, modelVars, conversionVars,
                 contractVars, part>>

ContractRuns ==
  /\ part = "plan" /\ ContractNext
  /\ UNCHANGED <<moodleVars, setupVars, uploadVars, accountVars, modelVars, conversionVars,
                 exportVars, part>>

ServicesNext ==
  \/ MoodleRuns \/ SetupRuns \/ UploadsRun \/ AccountsRun \/ ModelRuns
  \/ ConversionRuns \/ ExportRuns \/ ContractRuns

ServicesSpec == ServicesInit /\ [][ServicesNext]_servicesVars
=============================================================================
