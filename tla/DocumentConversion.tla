------------------------- MODULE DocumentConversion -------------------------
(***************************************************************************)
(* The conversion of an RPS document: the converter that a process builds  *)
(* once, on first use (services/rps/docling_converter.py, factory.py), the *)
(* files a conversion leaves beside the document (storage.py), and what    *)
(* the row says in the end (RPSService.convert).  Workers are background   *)
(* tasks of the server and runs of scripts/reprocess_rps.py.               *)
(*                                                                         *)
(* A conversion longer than its lease is taken over while it goes on, so   *)
(* two workers may convert the same document.  RpsPipeline has what their  *)
(* copies of the row do to each other; here the columns that a worker does *)
(* not set are those of the copy it loaded.                                *)
(***************************************************************************)
EXTENDS Integers, Sequences

CONSTANTS
  Converters,       \* workers that convert the document
  Scripts,          \* those of them that are runs of the script
  HostOf,           \* the process each of them runs in
  SchemaVersions,
  NoOne,            \* nobody, nothing
  MaxConversions    \* bound on the conversions that are started

ASSUME DocumentConversionAssumption ==
  /\ Scripts \subseteq Converters /\ DOMAIN HostOf = Converters
  /\ NoOne \notin Converters /\ MaxConversions \in Nat

VARIABLES
  engine,       \* per process: the converter, its lock, and how often it was built
  rps,          \* the row of the document
  artifacts,    \* per name: the worker that wrote the file that is there
  converter,    \* what each worker does
  conversions   \* counter of the bound

conversionVars == <<engine, rps, artifacts, converter, conversions>>

ArtifactNames == <<"document", "tables", "manifest">>

Hosts == {HostOf[w] : w \in Converters}

Cold == [api |-> FALSE, lock |-> NoOne, builds |-> 0]

Off == [at |-> "off", copy |-> NoOne, written |-> 0, error |-> NoOne]

ConversionInit ==
  /\ engine = [p \in Hosts |-> Cold]
  /\ rps = NoOne
  /\ artifacts = [n \in {ArtifactNames[i] : i \in DOMAIN ArtifactNames} |-> NoOne]
  /\ converter = [w \in Converters |-> Off]
  /\ conversions = 0

Turn(w, from, to) ==
  /\ converter[w].at = from
  /\ converter' = [converter EXCEPT ![w].at = to]

Breaks(w, from, error) ==
  /\ converter[w].at = from
  /\ converter' = [converter EXCEPT ![w].at = "failing", ![w].error = error]

-----------------------------------------------------------------------------
(* Before the conversion.                                                  *)

\* A document is uploaded, or was converted before BE-13, when no JSON was kept.
Arrives(status, version) ==
  /\ rps = NoOne
  /\ rps' = [status |-> status, source |-> NoOne, schema |-> version, error |-> NoOne]
  /\ UNCHANGED <<engine, artifacts, converter, conversions>>

\* The script looks for documents that are PROCESSED and have no JSON.
SelectLegacy(w) ==
  /\ w \in Scripts /\ Turn(w, "off", "selected")
  /\ rps # NoOne /\ rps.status = "PROCESSED" /\ rps.source = NoOne
  /\ UNCHANGED <<engine, rps, artifacts, conversions>>

\* begin_processing; a lease may be over at any time.
BeginProcessing(w, version) ==
  /\ rps # NoOne /\ converter[w].at = IF w \in Scripts THEN "selected" ELSE "off"
  /\ w \in Scripts => version = rps.schema
  /\ IF rps.status = "PROCESSED" /\ rps.source # NoOne /\ rps.schema = version
     THEN /\ converter' = [converter EXCEPT ![w] = Off]
          /\ UNCHANGED <<rps, conversions>>
     ELSE /\ conversions < MaxConversions
          /\ conversions' = conversions + 1
          /\ rps' = [rps EXCEPT !.status = "PROCESSING", !.schema = version]
          /\ converter' = [converter EXCEPT ![w].at = "begun"]
  /\ UNCHANGED <<engine, artifacts>>

\* convert: the document must be PROCESSING ...
LoadDocument(w) ==
  /\ converter[w].at = "begun"
  /\ converter' = [converter EXCEPT ![w] =
       IF rps.status = "PROCESSING" THEN [Off EXCEPT !.at = "reading", !.copy = rps] ELSE Off]
  /\ UNCHANGED <<engine, rps, artifacts, conversions>>

\* ... and its file readable, and not empty.
ReadDocument(w) ==
  /\ \/ Turn(w, "reading", "asking")
     \/ Breaks(w, "reading", "DocumentStorageError")
     \/ Breaks(w, "reading", "DocumentConversionError")
  /\ UNCHANGED <<engine, rps, artifacts, conversions>>

-----------------------------------------------------------------------------
(* The converter of the process (_ensure_api).                             *)

AskForApi(w) ==
  /\ Turn(w, "asking", IF engine[HostOf[w]].api THEN "converting" ELSE "waiting")
  /\ UNCHANGED <<engine, rps, artifacts, conversions>>

\* Mutated: who gets the lock builds, although somebody has built meanwhile.
TakeLockUnchecked(w) ==
  /\ engine[HostOf[w]].lock = NoOne
  /\ Turn(w, "waiting", "building")
  /\ engine' = [engine EXCEPT ![HostOf[w]].lock = w]
  /\ UNCHANGED <<rps, artifacts, conversions>>

\* The lock, and the look at what the one before has built; nothing is awaited
\* between them.
TakeLock(w) ==
  /\ engine[HostOf[w]].lock = NoOne
  /\ \/ /\ ~engine[HostOf[w]].api
        /\ Turn(w, "waiting", "building")
        /\ engine' = [engine EXCEPT ![HostOf[w]].lock = w]
     \/ /\ engine[HostOf[w]].api
        /\ Turn(w, "waiting", "converting")
        /\ UNCHANGED engine
  /\ UNCHANGED <<rps, artifacts, conversions>>

ApiBuilt(w) ==
  /\ Turn(w, "building", "converting")
  /\ engine' = [engine EXCEPT ![HostOf[w]] =
                  [api |-> TRUE, lock |-> NoOne, builds |-> @.builds + 1]]
  /\ UNCHANGED <<rps, artifacts, conversions>>

\* Docling is not installed, misses its models or cannot be set up, or fails in
\* a way nobody foresaw: nothing is kept, and the next who waits tries again.
BuildFails(w) ==
  /\ \E error \in {"DocumentConverterUnavailableError", "DocumentConversionError"} :
       Breaks(w, "building", error)
  /\ engine' = [engine EXCEPT ![HostOf[w]].lock = NoOne]
  /\ UNCHANGED <<rps, artifacts, conversions>>

-----------------------------------------------------------------------------
(* The conversion, its files and its end.                                  *)

Outcomes == {"usable", "empty", "no document", "not exported", "ConversionError",
             "FileNotFoundError", "PermissionError", "MemoryError", "OSError", "another error"}

\* _convert_document, _export_json and has_extractable_content.
ErrorFor(outcome) ==
  IF outcome \in {"FileNotFoundError", "PermissionError"}
  THEN "DocumentConverterUnavailableError" ELSE "DocumentConversionError"

Converted(w, outcome) ==
  /\ IF outcome = "usable" THEN Turn(w, "converting", "writing")
     ELSE Breaks(w, "converting", ErrorFor(outcome))
  /\ UNCHANGED <<engine, rps, artifacts, conversions>>

\* save_artifacts: each file replaces the one before at once.
WriteArtifact(w) ==
  LET i == converter[w].written + 1 IN
  /\ converter[w].at = "writing" /\ i \in DOMAIN ArtifactNames
  /\ artifacts' = [artifacts EXCEPT ![ArtifactNames[i]] = w]
  /\ converter' = [converter EXCEPT ![w].written = i]
  /\ UNCHANGED <<engine, rps, conversions>>

\* Mutated: a file that cannot be written is skipped.
WriteFailsQuietly(w) ==
  /\ converter[w].at = "writing" /\ converter[w].written < Len(ArtifactNames)
  /\ converter' = [converter EXCEPT ![w].written = @ + 1]
  /\ UNCHANGED <<engine, rps, artifacts, conversions>>

WriteFails(w) ==
  /\ converter[w].written < Len(ArtifactNames)
  /\ Breaks(w, "writing", "DocumentStorageError")
  /\ UNCHANGED <<engine, rps, artifacts, conversions>>

\* complete_processing, after the last file.
ProcessingEnds(w) ==
  /\ converter[w].at = "writing" /\ converter[w].written = Len(ArtifactNames)
  /\ rps' = [converter[w].copy EXCEPT !.status = "PROCESSED", !.source = w, !.error = NoOne]
  /\ converter' = [converter EXCEPT ![w] = Off]
  /\ UNCHANGED <<engine, artifacts, conversions>>

\* _mark_failed.
MarkFailed(w) ==
  /\ converter[w].at = "failing"
  /\ rps' = [converter[w].copy EXCEPT !.status = "FAILED", !.error = converter[w].error]
  /\ converter' = [converter EXCEPT ![w] = Off]
  /\ UNCHANGED <<engine, artifacts, conversions>>

\* A process dies, with its converter and all that its workers are doing.
ProcessDies(p) ==
  /\ \E w \in Converters : HostOf[w] = p /\ converter[w] # Off
  /\ engine' = [engine EXCEPT ![p] = Cold]
  /\ converter' = [w \in Converters |-> IF HostOf[w] = p THEN Off ELSE converter[w]]
  /\ UNCHANGED <<rps, artifacts, conversions>>

ConversionStep(w) ==
  \/ SelectLegacy(w)
  \/ \E v \in SchemaVersions : BeginProcessing(w, v)
  \/ LoadDocument(w) \/ ReadDocument(w)
  \/ AskForApi(w) \/ TakeLock(w) \/ ApiBuilt(w) \/ BuildFails(w)
  \/ \E outcome \in Outcomes : Converted(w, outcome)
  \/ WriteArtifact(w) \/ WriteFails(w) \/ ProcessingEnds(w) \/ MarkFailed(w)

ConversionNext ==
  \/ \E status \in {"UPLOADED", "PROCESSED"}, v \in SchemaVersions : Arrives(status, v)
  \/ \E w \in Converters : ConversionStep(w)
  \/ \E p \in Hosts : ProcessDies(p)

-----------------------------------------------------------------------------
(* Properties.                                                             *)

\* The models are loaded at most once per process, however many conversions ask
\* for them at the same time, and a build that fails leaves no lock behind that
\* would keep the next conversion from trying.
BuiltOncePerProcess ==
  \A p \in Hosts :
    /\ engine[p].builds <= 1
    /\ engine[p].lock # NoOne => converter[engine[p].lock].at = "building"

\* A document that is recorded as finished has all the files of a conversion
\* (comment in RPSService.convert), also when a file could not be written, a
\* process died among them, or two workers converted it at once.
FinishedHasFiles ==
  rps # NoOne /\ rps.status = "PROCESSED" /\ rps.source # NoOne
  => \A n \in DOMAIN artifacts : artifacts[n] # NoOne
=============================================================================
