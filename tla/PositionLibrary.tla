-------------------------- MODULE PositionLibrary --------------------------
(***************************************************************************)
(* The position library: the curator that writes frozen sets of files      *)
(* (Curation) beside importers that load them into PostgreSQL              *)
(* (load_collection, load_evaluations and import_collection of             *)
(* datasets/store.py and validation.py).  All the sets have one version.   *)
(*                                                                         *)
(* An import is one transaction under an advisory lock on the version: it  *)
(* inserts the whole set, or finds the same set there, or raises.          *)
(***************************************************************************)
EXTENDS Curation

CONSTANTS
    Importers,  \* processes that run the importer
    NoImporter

VARIABLES
    library,    \* the committed rows of the version, and the manifest they name
    lock,       \* who holds the version's advisory lock
    importer    \* [Importers -> [pc, dir, set, report]], report being "none" until it succeeds

importVars == <<library, lock, importer>>
vars == <<curationVars, importVars>>

NoSet == [file \in {"manifest", "positions", "evaluations"} |-> NoFile]

Idle == [pc |-> "idle", dir |-> MainDir, set |-> NoSet, report |-> "none"]

Init ==
    /\ InitCuration
    /\ library = NoSet
    /\ lock = NoImporter
    /\ importer = [i \in Importers |-> Idle]

-----------------------------------------------------------------------------

\* load_collection and load_evaluations: a missing file, a file that is not the
\* one the manifest seals, or a set that breaks the rules.
LoadRaises(files) ==
    \/ files["manifest"] \in {NoFile, EmptyFile}
    \/ files["positions"] # files["manifest"].positions
    \/ CollectionRaises(files["positions"].rows)
    \/ files["evaluations"] # files["manifest"].evaluations
    \/ EvaluationsRaise(files["positions"].rows, files["evaluations"].rows)

Load(i, d) ==
    /\ importer[i].pc = "idle"
    /\ importer' =
          [importer EXCEPT ![i] =
              IF LoadRaises(folder[d])
              THEN Idle
              ELSE [pc |-> "loaded", dir |-> d, set |-> folder[d], report |-> "none"]]
    /\ UNCHANGED <<curationVars, library, lock>>

Lock(i) ==
    /\ importer[i].pc = "loaded"
    /\ lock = NoImporter
    /\ lock' = i
    /\ importer' = [importer EXCEPT ![i].pc = "locked"]
    /\ UNCHANGED <<curationVars, library>>

\* The end of the transaction, which also drops the lock.
Report(i, report) ==
    /\ lock' = NoImporter
    /\ importer' = [importer EXCEPT ![i].pc = "idle", ![i].set = NoSet, ![i].report = report]
    /\ UNCHANGED curationVars

Insert(i) ==
    /\ importer[i].pc = "locked"
    /\ library = NoSet
    /\ library' = importer[i].set
    /\ Report(i, "imported")

\* A statement fails and all of the insertion is undone, or the reply to the
\* commit is lost and all of it is stored; the importer raises either way.
InsertFails(i) ==
    /\ importer[i].pc = "locked"
    /\ library = NoSet
    /\ faults < MaxFaults
    /\ library' \in {NoSet, importer[i].set}
    /\ lock' = NoImporter
    /\ importer' = [importer EXCEPT ![i] = Idle]
    /\ faults' = faults + 1
    /\ UNCHANGED <<disk, process, folder, pc, lost>>

\* Mutant: rows of the version are taken for the rows of the set.
AnyRows(set) == library # NoSet

\* The digest of the manifest first, then every row and evaluation.
SameSet(set) ==
    /\ library # NoSet
    /\ library.manifest = set["manifest"]
    /\ library.positions = set["positions"]
    /\ library.evaluations = set["evaluations"]

FindPresent(i) ==
    /\ importer[i].pc = "locked"
    /\ SameSet(importer[i].set)
    /\ Report(i, "already_present")
    /\ UNCHANGED library

\* "This dataset version is already frozen with different content".
Refuse(i) ==
    /\ importer[i].pc = "locked"
    /\ library # NoSet /\ ~SameSet(importer[i].set)
    /\ lock' = NoImporter
    /\ importer' = [importer EXCEPT ![i] = Idle]
    /\ UNCHANGED <<curationVars, library>>

Next ==
    \/ CurationNext /\ UNCHANGED importVars
    \/ \E i \in Importers :
          \/ \E d \in Dirs : Load(i, d)
          \/ Lock(i)
          \/ Insert(i) \/ InsertFails(i) \/ FindPresent(i) \/ Refuse(i)

Spec == Init /\ [][Next]_vars

-----------------------------------------------------------------------------
(* An importer that reports success for a directory speaks of what is        *)
(* stored: the rows and evaluations of the library are those that the        *)
(* directory's manifest seals, and a complete set by the rules, whatever     *)
(* was crashed, half written, imported by another process or curated again   *)
(* with another seed since.                                                  *)
ReportedIsStored ==
    \A i \in Importers :
        importer[i].report \in {"imported", "already_present"} =>
            LET files == folder[importer[i].dir]
            IN  /\ library # NoSet
                /\ files["manifest"] = library.manifest
                /\ files["positions"] = library.positions
                /\ library.manifest.evaluations = library.evaluations
                /\ ~CollectionRaises(library.positions.rows)
                /\ ~EvaluationsRaise(library.positions.rows, library.evaluations.rows)
=============================================================================
