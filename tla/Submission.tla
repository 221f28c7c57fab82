------------------------------ MODULE Submission ------------------------------
(***************************************************************************)
(* What three programs ask of one submission.  The manager validates the   *)
(* manifest of an archive (artifactsx) and the parameters of a run; the    *)
(* agent looks for an image for the parameters; runner.sh unpacks the      *)
(* archive and reads the manifest again, with jq.                          *)
(*                                                                         *)
(* An archive is the sequence of its tar entries.  Of an entry: its name,  *)
(* whether it is a regular file, its size class, and the document in it.   *)
(* Of a document: what the validations tell apart.  `decodes`: it is JSON  *)
(* of Manifest's types, with no unknown field.  `plain`: the keys are      *)
(* spelled as Manifest's tags are, and nothing follows the document        *)
(* (encoding/json ignores both the case and what follows; jq does not).    *)
(***************************************************************************)
EXTENDS Integers, Sequences

CONSTANTS
    Absent,        \* timeout_sec is missing or null
    MaxTimeoutSec  \* QTIVA_MAX_TIMEOUT_SEC

ASSUME AbsentAssumption == Absent \notin Int
ASSUME MaxTimeoutAssumption == MaxTimeoutSec \in Nat \ {0}

\* A string; "empty" stands for a missing key and null, too.
Texts == {"empty", "spaces", "text"}

\* Names that tar unpacks to manifest.json, and any other.
Names == {"manifest.json", "./manifest.json", "/manifest.json", "other"}

Documents ==
    [decodes : BOOLEAN, plain : BOOLEAN, config_path : Texts, scripts : Seq(Texts),
     application : Texts, timeout_sec : Int \cup {Absent}]

Entries ==
    [name : Names, regular : BOOLEAN, size : {"empty", "fits", "large"}, doc : Documents]

-----------------------------------------------------------------------------
(* The manager *)

\* TrimPrefix(hdr.Name, "./") = "manifest.json", of a regular file.
IsManifest(e) == e.regular /\ e.name \in {"manifest.json", "./manifest.json"}

\* ReadManifestFromTarGz takes the first such entry.
FirstManifest(archive) ==
    CHOOSE i \in DOMAIN archive :
        /\ IsManifest(archive[i])
        /\ \A j \in DOMAIN archive : IsManifest(archive[j]) => i <= j

ReadsManifest(archive) ==
    /\ \E i \in DOMAIN archive : IsManifest(archive[i])
    /\ archive[FirstManifest(archive)].size = "fits"

\* The document the manager has read.
Uploaded(archive) == archive[FirstManifest(archive)].doc

\* Variant of StoredTimeout: the limit as the default.
StoredTimeoutMax(d) ==
    IF d.timeout_sec = Absent \/ d.timeout_sec <= 0 THEN MaxTimeoutSec ELSE d.timeout_sec

\* ParseManifestJSON: no timeout, or none that is positive, means 60.
StoredTimeout(d) == IF d.timeout_sec = Absent \/ d.timeout_sec <= 0 THEN 60 ELSE d.timeout_sec

\* Variant of ValidateManifest: an empty list of scripts passes.
ValidateManifestNoScripts(d) ==
    /\ d.config_path = "text" /\ d.application = "text"
    /\ \A i \in DOMAIN d.scripts : d.scripts[i] = "text"
    /\ StoredTimeout(d) <= MaxTimeoutSec

ValidateManifest(d) ==
    /\ d.config_path = "text" /\ d.application = "text"
    /\ d.scripts # <<>> /\ \A i \in DOMAIN d.scripts : d.scripts[i] = "text"
    /\ StoredTimeout(d) <= MaxTimeoutSec

\* handleUploadArtifact does not answer MANIFEST_INVALID.
AcceptsArchive(archive) ==
    ReadsManifest(archive) /\ Uploaded(archive).decodes /\ ValidateManifest(Uploaded(archive))

\* Parameters of POST /runs.
OSes     == {"manjaro", "ubuntu"}
Displays == {"wayland", "x11"}
Versions == {"5.15"}

\* isValidOS, isValidDisplay, isValidQtVersion.
AcceptsParams(p) == p.os \in OSes /\ p.display \in Displays /\ p.qt \in Versions

-----------------------------------------------------------------------------
(* The agent *)

\* The configuration's map of images, by os, Qt version and display.
Images ==
    [manjaro |-> [v \in {"5.15"} |-> [wayland |-> "manjaro-qt5.15-wayland",
                                      x11     |-> "manjaro-qt5.15-x11"]],
     ubuntu  |-> [v \in {"5.15"} |-> [wayland |-> "ubuntu-qt5.15-wayland",
                                      x11     |-> "ubuntu-qt5.15-x11"]]]

\* GetImageName returns no error.
HasImage(p) ==
    /\ p.os \in DOMAIN Images
    /\ p.qt \in DOMAIN Images[p.os]
    /\ p.display \in DOMAIN Images[p.os][p.qt]

-----------------------------------------------------------------------------
(* runner.sh *)

Lands(e) == e.name # "other"

\* tar replaces a file that it unpacked before: the last entry stays.
LastUnpacked(archive) ==
    CHOOSE i \in DOMAIN archive :
        /\ Lands(archive[i])
        /\ \A j \in DOMAIN archive : Lands(archive[j]) => j <= i

\* [[ -f manifest.json ]]; a link is taken to lead nowhere.
Unpacks(archive) ==
    /\ \E i \in DOMAIN archive : Lands(archive[i])
    /\ archive[LastUnpacked(archive)].regular

\* The document jq reads.
Unpacked(archive) == archive[LastUnpacked(archive)].doc

\* -z, and the number of scripts, for a document that decodes; jq finds the
\* keys as they are spelled only.  The files that it names are not looked at.
RunnerAccepts(archive) ==
    /\ Unpacks(archive)
    /\ archive[LastUnpacked(archive)].size # "empty"
    /\ LET d == Unpacked(archive) IN
         d.plain /\ d.config_path # "empty" /\ d.scripts # <<>> /\ d.application # "empty"

\* .timeout_sec // 60, for a plain document: the alternative is for null only.
RunnerTimeout(d) == IF d.timeout_sec = Absent THEN 60 ELSE d.timeout_sec

-----------------------------------------------------------------------------
\* An archive as build tools make it: one manifest.json, a plain document.
\* For others the manager and the runner may read different manifests.
Ordinary(archive) ==
    /\ \A i, j \in DOMAIN archive : Lands(archive[i]) /\ Lands(archive[j]) => i = j
    /\ \A i \in DOMAIN archive : Lands(archive[i]) => archive[i].doc.plain
=============================================================================
