----------------------------- MODULE Detectors -----------------------------
(***************************************************************************)
(* StaticPackageAnalyzer and the scoring of what it finds.  What the       *)
(* patterns match is data: a file carries the answers of the predicates    *)
(* the detectors ask of it.  A detector reports at most one finding for a  *)
(* hook, for a file or for the sizes, so that the findings are a set.      *)
(***************************************************************************)
EXTENDS Integers, FiniteSets, Sequences

CONSTANTS RequiredHooks,  \* preinstall, install, postinstall
          OptionalHooks,  \* prepare, prepublish, prepublishOnly
          MaxFiles        \* max_files

ASSUME DetectorsAssumption ==
    /\ RequiredHooks \cap OptionalHooks = {}
    /\ IsFiniteSet(RequiredHooks) /\ IsFiniteSet(OptionalHooks)
    /\ MaxFiles \in Nat

Hooks == RequiredHooks \cup OptionalHooks

(* The values of unpacked_size: NoSize stands for None.                    *)
NoSize == -1

(* A regular file: `executable` when its extension or its first bytes say  *)
(* so, `obfuscated` and `commands` when a pattern is in its text, `large`  *)
(* when it is over max_text_file_bytes.  By extension a file is "code",    *)
(* "script" (.sh, .py, .ps1, .cmd), without extension or anything else.    *)
File == [extension  : {"code", "script", "none", "other"},
         executable : BOOLEAN,
         obfuscated : BOOLEAN,
         commands   : BOOLEAN,
         large      : BOOLEAN]

FindingType == {"EXECUTABLE_BINARY", "INSTALL_HOOK_ADDED",
                "COMMAND_EXECUTION_PATTERN", "OBFUSCATED_CODE",
                "SIZE_INCREASE_HIGH", "SIZE_INCREASE_MEDIUM",
                "INSTALL_HOOK_PRESENT", "INSTALL_HOOK_REMOVED"}

Finding(type, severity, where) ==
    [type |-> type, severity |-> severity, where |-> where]

-----------------------------------------------------------------------------
(* _resolve_scripts: the registry's scripts count when that map has any    *)
(* entry, whatever package.json says; package.json is not `readable` when  *)
(* it is missing, too large, or no JSON object.  Both are cut to hooks.    *)
ScriptSource == [present : BOOLEAN, hooks : SUBSET Hooks]

ResolveScripts(registry, packageJson) ==
    IF registry.present THEN registry.hooks
    ELSE IF packageJson.present THEN packageJson.hooks
    ELSE {}

-----------------------------------------------------------------------------
(* The detectors.  `previous` is the set of the hooks of the version       *)
(* compared with, empty when there is none.                                *)

HookSeverity(h, required, optional) ==
    IF h \in RequiredHooks THEN required ELSE optional

HookFindings(added, removed, present) ==
    {Finding("INSTALL_HOOK_ADDED", HookSeverity(h, "high", "medium"), h) : h \in added}
    \cup {Finding("INSTALL_HOOK_REMOVED", "low", h) : h \in removed}
    \cup {Finding("INSTALL_HOOK_PRESENT", HookSeverity(h, "medium", "low"), h) : h \in present}

(* Mutant: only what changed since the previous version is reported.       *)
DetectHookChanges(latest, previous) ==
    LET before == UNION previous
        added  == IF previous = {} THEN {} ELSE latest \ before
        kept   == IF previous = {} THEN latest ELSE {}
    IN  HookFindings(added, before \ latest, kept)

DetectInstallHooks(latest, previous) ==
    LET before == UNION previous
        added  == IF previous = {} THEN {} ELSE latest \ before
    IN  HookFindings(added, before \ latest, latest \ added)

(* (latest - previous) / previous in percent; the floating-point quotient  *)
(* of two sizes below 2^31 is on the same side of 30 and 100 as the exact  *)
(* one, so that the comparison is by integers.                             *)
DetectSizeIncrease(latest, previous) ==
    IF NoSize \in {latest, previous} \/ previous <= 0 \/ latest <= previous THEN {}
    ELSE IF latest - previous > previous
    THEN {Finding("SIZE_INCREASE_HIGH", "high", "size")}
    ELSE IF 100 * (latest - previous) >= 30 * previous
    THEN {Finding("SIZE_INCREASE_MEDIUM", "medium", "size")}
    ELSE {}

Matching(files, Matches(_), type, severity) ==
    {Finding(type, severity, i) : i \in {j \in DOMAIN files : Matches(files[j])}}

IsExecutable(f) == f.executable

IsObfuscated(f) ==
    f.extension \in {"code", "none"} /\ ~f.large /\ f.obfuscated

ExecutesCommands(f) ==
    f.extension \in {"code", "script"} /\ ~f.large /\ f.commands

(* iter_regular_files raises at the file after the last one allowed, in    *)
(* whichever detector asks for it.                                         *)
TooManyFiles(files) == Len(files) > MaxFiles

Analyze(files, scripts, size, previousScripts, previousSize) ==
    DetectInstallHooks(scripts, previousScripts)
    \cup DetectSizeIncrease(size, previousSize)
    \cup Matching(files, IsExecutable, "EXECUTABLE_BINARY", "high")
    \cup Matching(files, IsObfuscated, "OBFUSCATED_CODE", "medium")
    \cup Matching(files, ExecutesCommands, "COMMAND_EXECUTION_PATTERN", "high")

-----------------------------------------------------------------------------
(* Scoring *)

BaseScore == 1
MaxScore  == 100

ScoreDelta(type) ==
    CASE type = "EXECUTABLE_BINARY" -> 25
      [] type = "INSTALL_HOOK_ADDED" -> 20
      [] type \in {"COMMAND_EXECUTION_PATTERN", "OBFUSCATED_CODE"} -> 15
      [] type = "SIZE_INCREASE_HIGH" -> 10
      [] type \in {"SIZE_INCREASE_MEDIUM", "INSTALL_HOOK_PRESENT"} -> 5
      [] type = "INSTALL_HOOK_REMOVED" -> 0

(* Mutant: the upper bound is forgotten.                                   *)
ClampFromBelow(score) == IF score < BaseScore THEN BaseScore ELSE score

ClampScore(score) ==
    IF score < BaseScore THEN BaseScore
    ELSE IF score > MaxScore THEN MaxScore
    ELSE score

OfType(findings, type) == {f \in findings : f.type = type}

(* The points of the findings of one type.                                 *)
Points(findings, type) == ScoreDelta(type) * Cardinality(OfType(findings, type))

(* explain_score lists the points finding by finding; the sum goes over    *)
(* the types.                                                              *)
CalculateScore(findings) ==
    ClampScore(BaseScore
               + Points(findings, "EXECUTABLE_BINARY")
               + Points(findings, "INSTALL_HOOK_ADDED")
               + Points(findings, "COMMAND_EXECUTION_PATTERN")
               + Points(findings, "OBFUSCATED_CODE")
               + Points(findings, "SIZE_INCREASE_HIGH")
               + Points(findings, "SIZE_INCREASE_MEDIUM")
               + Points(findings, "INSTALL_HOOK_PRESENT")
               + Points(findings, "INSTALL_HOOK_REMOVED"))

(* Mutant: the lower threshold is one off.                                 *)
RiskLevelFrom31(score) ==
    IF ClampScore(score) <= 31 THEN "low"
    ELSE IF ClampScore(score) <= 70 THEN "medium"
    ELSE "high"

CalculateRiskLevel(score) ==
    IF ClampScore(score) <= 30 THEN "low"
    ELSE IF ClampScore(score) <= 70 THEN "medium"
    ELSE "high"
=============================================================================
