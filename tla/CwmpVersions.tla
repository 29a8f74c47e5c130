---------------------------- MODULE CwmpVersions ----------------------------
(***************************************************************************)
(* CWMP versions (internal/cwmp/cwmp_versions.go) and how the version of a *)
(* session is determined (determineCwmpVersion).                           *)
(***************************************************************************)
EXTENDS Integers, Sequences

CONSTANT Malformed  \* an entry of a version list that Sscanf("%d.%d") refuses

Entries == {Malformed} \cup (Int \X Int)

ASSUME MalformedAssumption == Malformed \notin Int \X Int

\* The iota constants; 1.0 to 1.4 are available.
UNKNOWN_CWMP_VERSION == 0
CWMP_V1_0 == 1
CWMP_V1_1 == 2
CWMP_V1_2 == 3
CWMP_V1_3 == 4
CWMP_V1_4 == 5

AllVersions == CWMP_V1_0 .. CWMP_V1_4

VersionMajor(v) == 1
VersionMinor(v) == v - CWMP_V1_0

\* SupportedCwmpVersion.String.
VersionString(v) ==
    IF v \in AllVersions THEN <<"1.0", "1.1", "1.2", "1.3", "1.4">>[v] ELSE "unknown"

\* The available version an entry <<major, minor>> names, if any.
Available(entry) ==
    {v \in AllVersions : entry # Malformed /\ entry = <<VersionMajor(v), VersionMinor(v)>>}

\* Mutant: the last common version of the list wins, not the highest.
Better_Latest(best, entry) ==
    IF Available(entry) = {} THEN best
    ELSE [version |-> CHOOSE v \in Available(entry) : TRUE,
          major |-> entry[1], minor |-> entry[2]]

\* One turn of the loop: an entry that names an available version replaces the
\* best one so far if it is higher.
Better(best, entry) ==
    IF \/ Available(entry) = {}
       \/ entry[1] < best.major
       \/ entry[1] = best.major /\ entry[2] <= best.minor
    THEN best
    ELSE [version |-> CHOOSE v \in Available(entry) : TRUE,
          major |-> entry[1], minor |-> entry[2]]

NoneBetter == [version |-> UNKNOWN_CWMP_VERSION, major |-> -1, minor |-> -1]

\* The loop over the comma-separated list; an empty string is an empty list.
MaxCommonVersion(possibleVersions) ==
    LET best[n \in 0 .. Len(possibleVersions)] ==
            IF n = 0 THEN NoneBetter ELSE Better(best[n - 1], possibleVersions[n])
    IN  best[Len(possibleVersions)].version

CwmpUrls == {"CWMP_1_0", "CWMP_1_1", "CWMP_1_2"}

\* The header SupportedCWMPVersions decides if it is there, else the namespace
\* and, for 1.2 and 1.3 which share one, whether SessionTimeout is there.
determineCwmpVersion(supported, cwmpNSUrl, hasSessionTimeout) ==
    IF supported # <<>> THEN MaxCommonVersion(supported)
    ELSE CASE cwmpNSUrl = "CWMP_1_0" -> CWMP_V1_0
           [] cwmpNSUrl = "CWMP_1_1" -> CWMP_V1_1
           [] cwmpNSUrl = "CWMP_1_2" -> IF hasSessionTimeout THEN CWMP_V1_3 ELSE CWMP_V1_2
=============================================================================
