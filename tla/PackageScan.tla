---------------------------- MODULE PackageScan ----------------------------
(***************************************************************************)
(* What ScanPackageUseCase.execute does between its transactions, for one  *)
(* attempt: fetch the metadata, store the versions, download and extract   *)
(* the latest tarball and the previous one, read the scripts, analyze,     *)
(* score.  ScanLifecycle takes these steps as one that may fail, with or   *)
(* without a retry; here each way a stage may fail is a reason, with the   *)
(* exception it raises, converted by the stage or not, and what Celery     *)
(* does with it.                                                           *)
(*                                                                         *)
(* What one stage reads of the registry's document and no earlier stage    *)
(* depends on is chosen when it is read.                                   *)
(***************************************************************************)
EXTENDS TarballDownload, Registry, Extraction, Detectors

CONSTANTS Documents,    \* the documents the registry may answer with
          Archives,     \* the archives a tarball may hold
          Trees,        \* the regular files an archive may leave
          Sizes         \* the values of unpacked_size

ASSUME PackageScanAssumption ==
    /\ Documents \subseteq Document
    /\ Archives \subseteq Seq(Member)
    /\ Trees \subseteq Seq(File)
    /\ <<>> \in Archives \cap Trees
    /\ NoSize \in Sizes

VARIABLES stage,      \* where execute() is
          target,     \* the version being downloaded, extracted or read
          document,   \* the document fetched, until it is stored
          versions,   \* the versions of the metadata, until stored
          compares,   \* is there a previous version?
          archive,    \* the members of the archive last opened
          scripts,    \* the hooks of the versions read so far
          input,      \* what the analyzer was given
          findings, score, riskLevel

fetched  == <<document, versions, compares>>
analysis == <<scripts, input, findings, score, riskLevel>>
vars     == <<downloadVars, stage, target, fetched, archive, analysis>>

NoDocument == [latest |-> NoEntry]
NoVersions == [latest |-> NoEntry, previous |-> NoEntry]
NoInput    == [files |-> <<>>, size |-> NoSize, previousSize |-> NoSize]

-----------------------------------------------------------------------------
(* Exceptions and retries *)

RegistryReasons == {"registry timeout", "registry transport", "registry status",
                    "package not found", "not JSON"}
DocumentReasons == {"malformed document", "naive timestamp"}
ArchiveReasons  == {"no archive", "broken stream", "unsafe member", "archive limit"}
AnalysisReasons == {"undecodable", "too many files"}

Reasons == RegistryReasons \cup DocumentReasons \cup {"unstorable"}
           \cup DownloadReasons \cup ArchiveReasons \cup AnalysisReasons

(* The classes an exception is an instance of, in core/exceptions.py; an   *)
(* exception of another library is of its own class only.                  *)
Classes(why) ==
    CASE why = "registry timeout" -> {"NpmRegistryTimeoutError", "NpmRegistryError"}
      [] why \in {"registry transport", "registry status"} -> {"NpmRegistryError"}
      [] why = "package not found" -> {"NpmPackageNotFoundError", "NpmRegistryError"}
      [] why \in {"not JSON", "malformed document"} ->
            {"NpmRegistryMalformedResponseError", "NpmRegistryError"}
      [] why = "naive timestamp" -> {"TypeError"}
      [] why = "unstorable" -> {"DBAPIError"}
      [] why = "timeout" -> {"TarballDownloadTimeoutError", "TarballDownloadError"}
      [] why \in {"url", "status", "transport", "write"} -> {"TarballDownloadError"}
      [] why = "size" -> {"TarballSizeLimitExceededError", "TarballDownloadError"}
      [] why \in {"integrity metadata", "digest"} ->
            {"TarballIntegrityError", "TarballDownloadError"}
      [] why = "malformed url" -> {"ValueError"}
      [] why = "invalid url" -> {"InvalidURL"}
      [] why \in {"directory", "unlink"} -> {"OSError"}
      [] why = "no archive" -> {"TarballMalformedArchiveError", "TarballExtractError"}
      [] why = "broken stream" -> {"EOFError"}
      [] why = "unsafe member" -> {"TarballUnsafeMemberError", "TarballExtractError"}
      [] why = "archive limit" ->
            {"TarballExtractionLimitExceededError", "TarballExtractError"}
      [] why = "undecodable" -> {"UnicodeDecodeError"}
      [] why = "too many files" -> {"ScannerLimitExceededError"}

AutoRetry == {"NpmRegistryTimeoutError", "TarballDownloadError"}

(* Mutant: the exceptions under TarballDownloadError are not excepted.     *)
DontRetryIncomplete ==
    {"NpmPackageNotFoundError", "NpmRegistryMalformedResponseError",
     "ScannerLimitExceededError", "TarballExtractError"}

DontRetry ==
    {"NpmPackageNotFoundError", "NpmRegistryMalformedResponseError",
     "ScannerLimitExceededError", "TarballExtractError",
     "TarballIntegrityError", "TarballSizeLimitExceededError"}

(* Celery looks at dont_autoretry_for first.                               *)
Retried(why) ==
    Classes(why) \cap DontRetry = {} /\ Classes(why) \cap AutoRetry # {}

-----------------------------------------------------------------------------
TypeOK ==
    /\ FileTypeOK
    /\ stage \in {"fetch", "store", "download", "extract", "extracted",
                  "read", "analyze", "analyzed", "saved", "failed"}
    /\ target \in {"latest", "previous"}
    /\ reason \in Reasons \cup {"none"}
    /\ document \in Documents \cup {NoDocument}
    /\ versions \in [{"latest", "previous"} -> Entries \cup {NoEntry}]
    /\ compares \in BOOLEAN
    /\ archive \in Archives
    /\ scripts \in [{"latest", "previous"} -> SUBSET SUBSET Hooks]
    /\ input \in [files : Trees, size : Sizes, previousSize : Sizes]
    /\ \A f \in findings : f.type \in FindingType
    /\ score \in 0 .. MaxScore
    /\ riskLevel \in {"unknown", "low", "medium", "high"}

Init ==
    /\ DownloadInit
    /\ stage = "fetch" /\ target = "latest"
    /\ document = NoDocument /\ versions = NoVersions /\ compares = FALSE
    /\ archive = <<>>
    /\ scripts = [t \in {"latest", "previous"} |-> {}]
    /\ input = NoInput /\ findings = {} /\ score = 0 /\ riskLevel = "unknown"

Fail(why) == stage' = "failed" /\ reason' = why

NoDownload == UNCHANGED <<pc, digest, received, hashed, disk>>

-----------------------------------------------------------------------------
(* Metadata *)

FetchFails ==
    /\ stage = "fetch"
    /\ \E why \in RegistryReasons : Fail(why)
    /\ NoDownload
    /\ UNCHANGED <<target, fetched, archive, analysis>>

FetchMetadata ==
    /\ stage = "fetch"
    /\ document' \in Documents
    /\ IF Verdict(document') = "accepted"
       THEN /\ stage' = "store"
            /\ versions' = [latest   |-> document'.latest,
                            previous |-> PreviousVersion(document')]
            /\ UNCHANGED reason
       ELSE Fail(Verdict(document')) /\ UNCHANGED versions
    /\ NoDownload
    /\ UNCHANGED <<target, compares, archive, analysis>>

(* upsert_package_version for both versions and set_scan_versions.         *)
StoreVersions ==
    /\ stage = "store"
    /\ stage' = "download"
    /\ document' = NoDocument /\ versions' = NoVersions
    /\ compares' = (versions.previous # NoEntry)
    /\ UNCHANGED <<downloadVars, target, archive, analysis>>

(* unpacked_size and file_count are 32-bit columns; the client takes any   *)
(* integer for them.                                                       *)
StoreFails ==
    /\ stage = "store"
    /\ Fail("unstorable")
    /\ document' = NoDocument /\ versions' = NoVersions
    /\ NoDownload
    /\ UNCHANGED <<target, compares, archive, analysis>>

-----------------------------------------------------------------------------
(* Tarballs *)

Download ==
    /\ stage = "download"
    /\ DownloadStep
    /\ stage' = CASE pc' = "returned" -> "extract"
                  [] pc' = "failed" -> "failed"
                  [] OTHER -> "download"
    /\ UNCHANGED <<target, fetched, archive, analysis>>

(* The directory cannot be made; the file is no archive; or the compressed *)
(* stream ends early, which is no TarError and no OSError (and neither is  *)
(* the zlib.error of a stream that is corrupt further on).                 *)
ExtractFails ==
    /\ stage = "extract"
    /\ \E why \in {"directory", "no archive", "broken stream"} : Fail(why)
    /\ NoDownload
    /\ UNCHANGED <<target, fetched, archive, analysis>>

Extract ==
    /\ stage = "extract"
    /\ archive' \in Archives
    /\ IF ArchiveVerdict(archive') = "accepted"
       THEN stage' = "extracted" /\ UNCHANGED reason
       ELSE Fail(ArchiveVerdict(archive'))
    /\ NoDownload
    /\ UNCHANGED <<target, fetched, analysis>>

NextDownload ==
    /\ pc' = "idle" /\ digest' = FALSE /\ reason' = "none"
    /\ received' = 0 /\ hashed' = 0 /\ disk' = NoFile

(* Mutant: the target is not moved to the previous version.                *)
ContinueWithSameTarget ==
    /\ stage = "extracted"
    /\ stage' = IF compares /\ target = "latest" THEN "download" ELSE "read"
    /\ target' = "latest"
    /\ archive' = <<>>
    /\ NextDownload
    /\ UNCHANGED <<fetched, analysis>>

(* The previous version follows in directories of its own, when there is   *)
(* one; then the analysis.                                                 *)
Continue ==
    /\ stage = "extracted"
    /\ IF compares /\ target = "latest"
       THEN stage' = "download" /\ target' = "previous"
       ELSE stage' = "read" /\ target' = "latest"
    /\ archive' = <<>>
    /\ NextDownload
    /\ UNCHANGED <<fetched, analysis>>

-----------------------------------------------------------------------------
(* Analysis *)

(* read_package_json does not expect bytes that are no UTF-8.              *)
ReadFails ==
    /\ stage = "read"
    /\ Fail("undecodable")
    /\ NoDownload
    /\ UNCHANGED <<target, fetched, archive, analysis>>

ReadScripts ==
    /\ stage = "read"
    /\ \E registry, packageJson \in ScriptSource :
          scripts' = [scripts EXCEPT ![target] = {ResolveScripts(registry, packageJson)}]
    /\ IF compares /\ target = "latest"
       THEN UNCHANGED stage /\ target' = "previous"
       ELSE stage' = "analyze" /\ UNCHANGED target
    /\ UNCHANGED <<downloadVars, fetched, archive, input, findings, score, riskLevel>>

Findings(files, size, previousSize) ==
    Analyze(files, UNION scripts["latest"], size, scripts["previous"], previousSize)

RunAnalyzer ==
    /\ stage = "analyze"
    /\ \E files \in Trees, size, previousSize \in Sizes :
          /\ ~compares => previousSize = NoSize
          /\ input' = [files |-> files, size |-> size, previousSize |-> previousSize]
          /\ IF TooManyFiles(files)
             THEN /\ Fail("too many files")
                  /\ UNCHANGED <<findings, score, riskLevel>>
             ELSE /\ stage' = "analyzed"
                  /\ findings' = Findings(files, size, previousSize)
                  /\ score' = CalculateScore(findings')
                  /\ riskLevel' = CalculateRiskLevel(score')
                  /\ UNCHANGED reason
    /\ NoDownload
    /\ UNCHANGED <<target, fetched, archive, scripts>>

(* The result is committed: SaveResult of ScanLifecycle.                   *)
Save ==
    /\ stage = "analyzed"
    /\ stage' = "saved"
    /\ input' = NoInput
    /\ scripts' = [t \in {"latest", "previous"} |-> {}]
    /\ UNCHANGED <<downloadVars, target, fetched, archive, findings, score, riskLevel>>

Ended == stage \in {"saved", "failed"} /\ UNCHANGED vars

Step ==
    \/ FetchFails \/ FetchMetadata \/ StoreVersions \/ StoreFails
    \/ Download \/ ExtractFails \/ Extract \/ Continue
    \/ ReadFails \/ ReadScripts \/ RunAnalyzer \/ Save

Next == Step \/ Ended

Spec == Init /\ [][Next]_vars

(* Every await of an attempt returns or raises: the registry client and    *)
(* the downloader have timeouts, the rest does not wait.                   *)
FairSpec == Spec /\ WF_vars(Step)
-----------------------------------------------------------------------------
(* The comparison is with the version published just before the latest,    *)
(* whatever the order of the versions map, as "previous_version" promises; *)
(* only the very first version has none.                                   *)
PreviousIsPredecessor ==
    stage = "store" => IsPredecessor(document, versions.previous, versions.latest)

(* What the loop with its running total accepts is what the bounds taken   *)
(* together say: nothing over a limit is unpacked, and nothing within all  *)
(* of them is refused.                                                     *)
ArchiveChecksExact ==
    /\ stage = "extracted" => WithinBounds(archive)
    /\ reason \in {"unsafe member", "archive limit"} => ~WithinBounds(archive)

(* What was wrong with the bytes that were sent is still wrong when they   *)
(* are sent again: such a failure is not retried, although most of these   *)
(* exceptions are instances of the one that is; a timeout is retried.  Not *)
(* claimed: a tarball URL that is not absolute, which raises that one      *)
(* itself.                                                                 *)
RejectionsAreFinal ==
    stage = "failed" =>
        /\ reason \in DocumentReasons \cup ArchiveReasons \cup AnalysisReasons
                      \cup {"package not found", "not JSON", "unstorable",
                            "malformed url", "invalid url",
                            "integrity metadata", "size", "digest"}
              => ~Retried(reason)
        /\ reason \in {"registry timeout", "timeout"} => Retried(reason)

(* A first publication is never scored above the same content published as *)
(* an update: comparing can only add findings or weigh them more.          *)
BaselineNeverLowersScore ==
    stage = "analyzed" =>
        score >= CalculateScore(Analyze(input.files, UNION scripts["latest"],
                                        input.size, {}, NoSize))

Suspicious == {f \in findings : f.type \in {"EXECUTABLE_BINARY", "INSTALL_HOOK_ADDED",
                                            "COMMAND_EXECUTION_PATTERN", "OBFUSCATED_CODE"}}

(* The weights and the thresholds fit each other: one finding of any kind  *)
(* leaves a package at low, any two suspicious ones take it out of low,    *)
(* and two never make it high.                                             *)
RiskCalibration ==
    stage = "analyzed" =>
        /\ Cardinality(findings) <= 1 => riskLevel = "low"
        /\ Cardinality(Suspicious) >= 2 => riskLevel # "low"
        /\ Cardinality(findings) <= 2 => riskLevel # "high"

(* An attempt ends: the size limit bounds the stream, and the previous     *)
(* version has no previous version.                                        *)
ScanEnds == <>(stage \in {"saved", "failed"})
=============================================================================
