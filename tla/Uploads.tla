------------------------------ MODULE Uploads ------------------------------
(***************************************************************************)
(* The upload of RPS documents (RPSService.upload_rps): the checks of the  *)
(* file, the search for an earlier upload of the same content, the file in *)
(* the storage and the row in the table.  A document is identified by its  *)
(* owner and the hash of its content; the schema version is the server's.  *)
(* The processing of a document is the module RpsPipeline.                 *)
(***************************************************************************)
EXTENDS Integers, Sequences

CONSTANTS
  Uploaders,     \* the requests that upload
  Owners,
  Contents,      \* the contents of files, told apart by their hash
  Sound,         \* those of an allowed extension and size and the signature of their type
  MaxDocuments,  \* bound on the rows
  MaxOutages     \* bound on the failures of the storage, the database and the server

ASSUME UploadAssumption == Sound \subseteq Contents

VARIABLES
  documents,   \* the rows of "rps", in the order of created_at
  files,       \* the files of the storage
  upload,      \* what each request is doing
  outages

uploadVars == <<documents, files, upload, outages>>

Document == [owner : Owners, hash : Contents]

Upload == [at : {"idle", "find", "store", "create", "created", "deduplicated", "refused", "failed"},
           document : {{}} \cup {{d} : d \in Document},
           row : 0 .. MaxDocuments]

NoUpload == [at |-> "idle", document |-> {}, row |-> 0]

UploadInit ==
  /\ documents = <<>> /\ files = {}
  /\ upload = [u \in Uploaders |-> NoUpload] /\ outages = 0

Done(u) == upload[u].at \in {"idle", "created", "deduplicated", "refused", "failed"}

Doc(u) == CHOOSE d \in upload[u].document : TRUE

Rows(d) == {i \in DOMAIN documents : documents[i] = d}

\* ensure_supported_extension, ensure_size_within_limit and
\* ensure_matches_declared_type come before anything is stored.
Receive(u) ==
  /\ Done(u)
  /\ \E owner \in Owners, content \in Contents :
       upload' = [upload EXCEPT ![u] =
         [at |-> IF content \in Sound THEN "find" ELSE "refused",
          document |-> IF content \in Sound THEN {[owner |-> owner, hash |-> content]} ELSE {},
          row |-> 0]]
  /\ UNCHANGED <<documents, files, outages>>

\* find_by_hash: the latest row of the owner with this content.
FindByHash(u) ==
  /\ upload[u].at = "find"
  /\ LET found == Rows(Doc(u)) IN
     IF found = {} THEN upload' = [upload EXCEPT ![u].at = "store"]
     ELSE \E i \in found :
            /\ \A j \in found : j <= i
            /\ upload' = [upload EXCEPT ![u].at = "deduplicated", ![u].row = i]
  /\ UNCHANGED <<documents, files, outages>>

\* Mutated: the row does not wait for the file.
SaveDocumentLater(u) ==
  /\ upload[u].at = "store"
  /\ upload' = [upload EXCEPT ![u].at = "create"]
  /\ files' \in {files, files \cup {Doc(u)}}
  /\ UNCHANGED <<documents, outages>>

\* save_document replaces a file atomically; its name is the hash.
SaveDocument(u) ==
  /\ upload[u].at = "store"
  /\ files' = files \cup {Doc(u)}
  /\ upload' = [upload EXCEPT ![u].at = "create"]
  /\ UNCHANGED <<documents, outages>>

CreateDocument(u) ==
  /\ upload[u].at = "create" /\ Len(documents) < MaxDocuments
  /\ documents' = Append(documents, Doc(u))
  /\ upload' = [upload EXCEPT ![u].at = "created", ![u].row = Len(documents) + 1]
  /\ UNCHANGED <<files, outages>>

\* The storage or the database refuses, or the server stops: the request is
\* over, its file stays.
UploadFails(u) ==
  /\ ~Done(u) /\ outages < MaxOutages
  /\ upload' = [upload EXCEPT ![u].at = "failed"]
  /\ outages' = outages + 1
  /\ UNCHANGED <<documents, files>>

UploadNext ==
  \E u \in Uploaders :
    \/ Receive(u) \/ FindByHash(u) \/ SaveDocument(u) \/ CreateDocument(u) \/ UploadFails(u)

UploadSpec == UploadInit /\ [][UploadNext]_uploadVars

-----------------------------------------------------------------------------
(* Every document that is registered has its file, whatever failed on the  *)
(* way, and every request that was answered with a document was answered   *)
(* with one of its own owner and content, also when others upload the same *)
(* content at the same time (upload_rps).                                  *)
DocumentsHaveFiles ==
  /\ \A i \in DOMAIN documents : documents[i] \in files
  /\ \A u \in Uploaders :
       upload[u].row # 0 => upload[u].row \in DOMAIN documents /\ documents[upload[u].row] = Doc(u)
=============================================================================
