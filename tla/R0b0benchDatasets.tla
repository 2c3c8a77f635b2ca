-------------------------- MODULE R0b0benchDatasets --------------------------
(* The pinned assets of r0b0bench: "mtop datasets install", which several     *)
(* processes may run over one directory, any of them ending at any point.  An *)
(* installer is sequential; others see it between reading a file, downloading *)
(* its replacement, writing a temporary file and renaming it.                 *)
(* Definitions named M_... are deliberate mistakes: each stands for a bug the *)
(* code could have in the definition after it, and no behaviour uses them.    *)
EXTENDS Naturals

CONSTANTS
    Installers,     \* processes that run the installer
    Last            \* the number of assets; the last two are one directory

ASSUME AssetsAssumption == Last \in Nat \ {0, 1}

Assets == 1 .. Last

Manifest == Last + 1            \* manifest.json, written after every asset

VARIABLES
    files,      \* what _file_matches sees: missing, invalid, installed
    manifest,   \* manifest.json exists
    temps,      \* installers with a temporary file of their own on disk
    at,         \* the file an installer is at, 0 when it does not run
    step,       \* check, obtain, write, rename, verify
    outcome,    \* none, installed, failed, killed
    once,       \* history: assets that were installed at some time
    spoiled     \* history: a file was spoiled since the installer verifies

datasetsVars ==
    <<files, manifest, temps, at, step, outcome, once, spoiled>>

DatasetsTypeOK ==
    /\ files \in [Assets -> {"missing", "invalid", "installed"}]
    /\ manifest \in BOOLEAN
    /\ temps \subseteq Installers
    /\ at \in [Installers -> 0 .. Manifest]
    /\ step \in [Installers -> {"check", "obtain", "write", "rename", "verify"}]
    /\ outcome \in [Installers -> {"none", "installed", "failed", "killed"}]
    /\ once \subseteq Assets
    /\ spoiled \in [Installers -> BOOLEAN]

-----------------------------------------------------------------------------
(* What a run is offered *)

(* Each dataset fills a field of the configuration; the two scripts fill one. *)
Field(a) == IF a = Last THEN Last - 1 ELSE a

Offered ==
    {f \in {Field(a) : a \in Assets} :
        \A a \in Assets : Field(a) = f => files[a] = "installed"}

-----------------------------------------------------------------------------
(* An installer *)

GoTo(p, file, next) ==
    /\ at' = [at EXCEPT ![p] = file]
    /\ step' = [step EXCEPT ![p] = next]

Ends(p, how) ==
    /\ GoTo(p, 0, "check")
    /\ outcome' = [outcome EXCEPT ![p] = how]

Advance(p) == GoTo(p, at[p] + 1, IF at[p] = Last THEN "write" ELSE "check")

(* The directory is there, or cannot be prepared. *)
StartInstall(p) ==
    /\ at[p] = 0
    /\ \/ GoTo(p, 1, "check") /\ outcome' = [outcome EXCEPT ![p] = "none"]
       \/ Ends(p, "failed")
    /\ spoiled' = [spoiled EXCEPT ![p] = FALSE]
    /\ UNCHANGED <<files, manifest, temps, once>>

M_AnyFileWillDo(p) ==
    /\ at[p] \in Assets /\ step[p] = "check"
    /\ IF files[at[p]] # "missing"
       THEN Advance(p)
       ELSE GoTo(p, at[p], "obtain")
    /\ UNCHANGED <<files, manifest, temps, outcome, once, spoiled>>

(* A file that matches its pinned size and digest is left alone. *)
CheckAsset(p) ==
    /\ at[p] \in Assets /\ step[p] = "check"
    /\ IF files[at[p]] = "installed"
       THEN Advance(p)
       ELSE GoTo(p, at[p], "obtain")
    /\ UNCHANGED <<files, manifest, temps, outcome, once, spoiled>>

(* A server may answer anything, or not at all: status, range, size and the   *)
(* digest of what arrived are checked before it is transformed.               *)
Downloaded(answer) == answer = "pinned"

(* An archive is unpacked, QA is normalised to JSON lines; the rest stays as  *)
(* it is.  What the pinned bytes become may depend on the machine.            *)
Transformed(answer, output) == answer = "pinned" \/ output = "other"

(* Size, digest, schema and row count of the output. *)
Valid(output) == output = "pinned"

ObtainAsset(p) ==
    /\ step[p] = "obtain"
    /\ \E answer, output \in {"pinned", "other"} :
          /\ Transformed(answer, output)
          /\ IF Downloaded(answer) /\ Valid(output)
             THEN GoTo(p, at[p], "write") /\ UNCHANGED outcome
             ELSE Ends(p, "failed")
    /\ UNCHANGED <<files, manifest, temps, once, spoiled>>

M_WriteInPlace(p) ==
    /\ step[p] = "write"
    /\ GoTo(p, at[p], "rename")
    /\ IF at[p] = Manifest THEN UNCHANGED files
       ELSE files' = [files EXCEPT ![at[p]] = "invalid"]
    /\ UNCHANGED <<manifest, temps, outcome, once, spoiled>>

(* A temporary file in the same directory, written and synchronised; after a  *)
(* failure it is removed.                                                     *)
WriteTemporary(p) ==
    /\ step[p] = "write"
    /\ \/ /\ GoTo(p, at[p], "rename")
          /\ temps' = temps \cup {p}
          /\ UNCHANGED outcome
       \/ Ends(p, "failed") /\ UNCHANGED temps
    /\ UNCHANGED <<files, manifest, once, spoiled>>

M_KeepsTemporary(p) ==
    /\ step[p] = "rename"
    /\ Ends(p, "failed")
    /\ UNCHANGED <<files, manifest, temps, once, spoiled>>

RenameAsset(p) ==
    /\ at[p] \in Assets /\ step[p] = "rename"
    /\ files' = [files EXCEPT ![at[p]] = "installed"]
    /\ once' = once \cup {at[p]}
    /\ temps' = temps \ {p}
    /\ Advance(p)
    /\ UNCHANGED <<manifest, outcome, spoiled>>

RenameManifest(p) ==
    /\ at[p] = Manifest /\ step[p] = "rename"
    /\ manifest' = TRUE
    /\ temps' = temps \ {p}
    /\ GoTo(p, 1, "verify")
    /\ UNCHANGED <<files, outcome, once, spoiled>>

RenameFails(p) ==
    /\ step[p] = "rename"
    /\ temps' = temps \ {p}
    /\ Ends(p, "failed")
    /\ UNCHANGED <<files, manifest, once, spoiled>>

M_TrustsItself(p) ==
    /\ step[p] = "verify"
    /\ IF at[p] = Last THEN Ends(p, "installed")
       ELSE GoTo(p, at[p] + 1, "verify") /\ UNCHANGED outcome
    /\ UNCHANGED <<files, manifest, temps, once, spoiled>>

(* At the end every file is read again: one that does not match fails the     *)
(* installation as a whole.                                                   *)
VerifyAsset(p) ==
    /\ step[p] = "verify"
    /\ IF files[at[p]] # "installed" THEN Ends(p, "failed")
       ELSE IF at[p] = Last THEN Ends(p, "installed")
       ELSE GoTo(p, at[p] + 1, "verify") /\ UNCHANGED outcome
    /\ UNCHANGED <<files, manifest, temps, once, spoiled>>

(* The process is killed: its temporary file, if any, stays for ever, under a *)
(* name nobody uses again.                                                    *)
Kill(p) ==
    /\ at[p] # 0
    /\ Ends(p, "killed")
    /\ temps' = temps \ {p}
    /\ UNCHANGED <<files, manifest, once, spoiled>>

(* From outside: a file is lost or changed. *)
Spoil ==
    /\ \E a \in Assets, how \in {"missing", "invalid"} :
          files' = [files EXCEPT ![a] = how]
    /\ spoiled' = [p \in Installers |->
                      spoiled[p] \/ step[p] = "verify" \/ outcome[p] = "installed"]
    /\ UNCHANGED <<manifest, temps, at, step, outcome, once>>

-----------------------------------------------------------------------------
DatasetsInit ==
    /\ files = [a \in Assets |-> "missing"]
    /\ manifest = FALSE
    /\ temps = {}
    /\ at = [p \in Installers |-> 0]
    /\ step = [p \in Installers |-> "check"]
    /\ outcome = [p \in Installers |-> "none"]
    /\ once = {}
    /\ spoiled = [p \in Installers |-> FALSE]

Install(p) ==
    \/ StartInstall(p)
    \/ CheckAsset(p)
    \/ ObtainAsset(p)
    \/ WriteTemporary(p)
    \/ RenameAsset(p)
    \/ RenameManifest(p)
    \/ RenameFails(p)
    \/ VerifyAsset(p)
    \/ Kill(p)

DatasetsNext == (\E p \in Installers : Install(p)) \/ Spoil

DatasetsSpec == DatasetsInit /\ [][DatasetsNext]_datasetsVars

-----------------------------------------------------------------------------
(* Safety *)

(* An installation that reported success offers every field, unless a file    *)
(* was spoiled since it verified them; the manifest testifies to assets that  *)
(* were all installed once; and no installer that ended by itself leaves a    *)
(* temporary file.                                                            *)
InstallTellsTheTruth ==
    /\ \A p \in Installers :
          outcome[p] = "installed" /\ ~spoiled[p] => Offered = {Field(a) : a \in Assets}
    /\ manifest => once = Assets
    /\ \A p \in temps : step[p] = "rename"

(* Whoever runs beside it and wherever it is killed, an installer changes no  *)
(* file but to the pinned content: "atomically per file".                     *)
OnlyWholeFiles ==
    [][\A p \in Installers : <<at[p], step[p]>>' # <<at[p], step[p]>> =>
          \A a \in Assets : files'[a] \in {files[a], "installed"}]_datasetsVars

InstallsAreWhole == [](DatasetsTypeOK /\ InstallTellsTheTruth) /\ OnlyWholeFiles

=============================================================================
