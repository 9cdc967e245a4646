----------------------- MODULE PositionLibraryProofs -----------------------
(***************************************************************************)
(* Proofs about PositionLibrary, for every source of records, every output *)
(* of the engine, any quotas, directories, importers and faults.           *)
(*                                                                         *)
(* First the importers: what an importer holds, and what the library       *)
(* stores, is a set that passed the rules and that its directory still     *)
(* holds.  Then the curator: the process counts what it holds, what it     *)
(* reads may join what it holds, so that every selection it writes is one  *)
(* (CuratorOK), and a full selection splits into two balanced halves.      *)
(* Last, the curation that is interrupted and resumed, against a single    *)
(* pass that never is (ResumeOK): the pass up to the cursors, or one       *)
(* record further, holds what the disk holds.                              *)
(***************************************************************************)
EXTENDS PositionLibrary, FiniteSetTheorems, WellFoundedInduction, TLAPS

----------------------------------------------------------------------------
(* Induction on the numbers, and the places of an order.                   *)

\* A set of numbers with 0, and with each number the next, has them all.
LEMMA SetInduction ==
    ASSUME NEW S, 0 \in S, \A n \in Nat : n \in S => n + 1 \in S
    PROVE  \A n \in Nat : n \in S
<1> DEFINE Less == OpToRel(<, Nat)
           T == Nat \ S
<1>1. SUFFICES ASSUME T # {} PROVE FALSE
  OBVIOUS
<1>2. IsWellFoundedOn(Less, Nat)
  BY NatLessThanWellFounded
<1>3. \A m, n \in Nat : m < n => <<m, n>> \in Less
  BY DEF OpToRel
<1>4. PICK n \in T : \A m \in T : <<m, n>> \notin Less
  <2> HIDE DEF Less
  <2> QED BY <1>1, <1>2, WFMin
<1> HIDE DEF Less
<1>5. n \in Nat /\ n # 0 /\ n - 1 \in Nat /\ n - 1 < n /\ (n - 1) + 1 = n
  OBVIOUS
<1>6. n - 1 \notin T
  BY <1>3, <1>4, <1>5
<1> QED BY <1>5, <1>6

\* Positions of a strict order on a finite set: how many come before.
LEMMA Ranked ==
    ASSUME NEW S, IsFiniteSet(S), NEW B \in [S -> SUBSET S],
           \A i \in S : i \notin B[i],
           \A i, j \in S : j \in B[i] => B[j] \subseteq B[i],
           \A i, j \in S : i # j => i \in B[j] \/ j \in B[i]
    PROVE  /\ \A i \in S : Cardinality(B[i]) \in 0 .. Cardinality(S) - 1
           /\ \A i, j \in S : i \in B[j] => Cardinality(B[i]) < Cardinality(B[j])
           /\ \A i, j \in S : Cardinality(B[i]) = Cardinality(B[j]) => i = j
           /\ \A k \in 1 .. Cardinality(S) : \E i \in S : Cardinality(B[i]) = k - 1
<1> DEFINE L == Cardinality(S)
<1>1. L \in Nat
  BY FS_CardinalityType
<1>2. ASSUME NEW i \in S
      PROVE  IsFiniteSet(B[i]) /\ Cardinality(B[i]) \in 0 .. L - 1
  <2>1. B[i] \in SUBSET S /\ B[i] # S
    OBVIOUS
  <2>2. IsFiniteSet(B[i]) /\ Cardinality(B[i]) <= L /\ Cardinality(B[i]) # L
    BY <2>1, FS_Subset
  <2>3. Cardinality(B[i]) \in Nat
    BY <2>2, FS_CardinalityType
  <2> HIDE DEF L
  <2> QED BY <1>1, <2>2, <2>3
<1>3. ASSUME NEW i \in S, NEW j \in S, i \in B[j]
      PROVE  Cardinality(B[i]) < Cardinality(B[j])
  <2>1. B[i] \in SUBSET B[j] /\ B[i] # B[j]
    BY <1>3
  <2>2. Cardinality(B[i]) <= Cardinality(B[j]) /\ Cardinality(B[i]) # Cardinality(B[j])
    BY <1>2, <2>1, FS_Subset
  <2>3. Cardinality(B[i]) \in Nat /\ Cardinality(B[j]) \in Nat
    BY <1>2, FS_CardinalityType
  <2> QED BY <2>2, <2>3
<1>4. ASSUME NEW i \in S, NEW j \in S, Cardinality(B[i]) = Cardinality(B[j])
      PROVE  i = j
  <2> HIDE DEF L
  <2>1. Cardinality(B[i]) \in Int /\ Cardinality(B[j]) \in Int
    BY <1>1, <1>2
  <2> QED BY <1>3, <1>4, <2>1
<1>5. ASSUME NEW k \in 1 .. L PROVE \E i \in S : Cardinality(B[i]) = k - 1
  <2> DEFINE f == [i \in S |-> Cardinality(B[i]) + 1]
             D == 1 .. L
  <2>1. f \in [S -> D]
    <3> HIDE DEF L
    <3> QED BY <1>1, <1>2
  <2>2. \A i, j \in S : f[i] = f[j] => i = j
    <3>1. \A i \in S : Cardinality(B[i]) \in Int
      <4> HIDE DEF L
      <4> QED BY <1>1, <1>2
    <3> QED BY <1>4, <3>1
  <2>3. IsFiniteSet(D) /\ Cardinality(D) = Cardinality(S)
    <3> HIDE DEF L
    <3> QED BY <1>1, FS_Interval DEF L
  <2>6. k \in D
    OBVIOUS
  <2> HIDE DEF D, f
  <2>4. f \in Surjection(S, D)
    <3>1. f \in Injection(S, D)
      BY <2>1, <2>2 DEF Injection, IsInjective
    <3> QED BY <2>3, <3>1, FS_Injection
  <2>5. PICK i \in S : f[i] = k
    BY <2>4, <2>6 DEF Surjection
  <2>7. f[i] = Cardinality(B[i]) + 1
    BY DEF f
  <2>8. Cardinality(B[i]) \in Int
    <3> HIDE DEF L
    <3> QED BY <1>1, <1>2
  <2> QED BY <2>5, <2>7, <2>8
<1> QED BY <1>2, <1>3, <1>4, <1>5

----------------------------------------------------------------------------
(* Files and imports.                                                      *)

Files == {"positions", "evaluations", "manifest"}

\* What a set passes before it is imported.
Sealed(files) ==
    /\ files["manifest"] \notin {NoFile, EmptyFile}
    /\ files["positions"] = files["manifest"].positions
    /\ ~CollectionRaises(files["positions"].rows)
    /\ files["evaluations"] = files["manifest"].evaluations
    /\ ~EvaluationsRaise(files["positions"].rows, files["evaluations"].rows)

\* The manifest of a directory is the last file written to it.
FoldersOK ==
    /\ folder = [d \in Dirs |-> [f \in Files |-> folder[d][f]]]
    /\ target \in Dirs
    /\ at = [kind |-> at.kind, page |-> at.page, row |-> at.row, file |-> at.file]
    /\ pc \in {"open", "fill"} =>
          /\ at.file \in 1 .. 3
          /\ folder[target]["manifest"] = IF pc = "fill" /\ at.file = 3 THEN EmptyFile ELSE NoFile

Passing(i) == importer[i].pc \in {"loaded", "locked"}
Reported(i) == importer[i].report \in {"imported", "already_present"}

\* A set on its way to the library, or stored there, is one that passed, and the
\* directory it was read from still holds it.
ImporterOK(i) ==
    /\ importer[i] = [pc |-> importer[i].pc, dir |-> importer[i].dir,
                      set |-> importer[i].set, report |-> importer[i].report]
    /\ importer[i].dir \in Dirs
    /\ Passing(i) => /\ Sealed(importer[i].set) /\ importer[i].set = folder[importer[i].dir]
                     /\ importer[i].report = "none"
    /\ Reported(i) => /\ library # NoSet
                      /\ \A f \in Files : library[f] = folder[importer[i].dir][f]

ImportsOK ==
    /\ library = NoSet \/ Sealed(library)
    /\ importer = [i \in Importers |-> importer[i]]
    /\ \A i \in Importers : ImporterOK(i)

LEMMA TheFiles ==
    /\ ToSet(OutputFiles) = Files
    /\ Len(OutputFiles) = 3
    /\ OutputFiles[1] = "positions" /\ OutputFiles[2] = "evaluations" /\ OutputFiles[3] = "manifest"
<1>1. DOMAIN OutputFiles = 1 .. 3 /\ Len(OutputFiles) = 3
  BY DEF OutputFiles
<1>2. OutputFiles[1] = "positions" /\ OutputFiles[2] = "evaluations" /\ OutputFiles[3] = "manifest"
  BY DEF OutputFiles
<1>3. DOMAIN OutputFiles = {1, 2, 3}
  BY <1>1
<1>4. ToSet(OutputFiles) = {OutputFiles[1], OutputFiles[2], OutputFiles[3]}
  BY <1>3 DEF ToSet
<1> QED BY <1>1, <1>2, <1>4 DEF Files

LEMMA EmptyIsNotMissing == EmptyFile # NoFile
  BY DEF EmptyFile, NoFile

\* A manifest is never taken for a missing or an empty one.
LEMMA FilesBegin ==
    ASSUME Init
    PROVE  FoldersOK /\ ImportsOK
<1>1. FoldersOK
  BY TheFiles, CurationAssumption DEF Init, InitCuration, Start, FoldersOK
<1>2. ImportsOK
  <2>1. library = NoSet /\ importer = [i \in Importers |-> Idle]
    BY DEF Init
  <2>2. ASSUME NEW i \in Importers PROVE ImporterOK(i)
    <3>1. importer[i] = [pc |-> "idle", dir |-> MainDir, set |-> NoSet, report |-> "none"]
      BY <2>1 DEF Idle
    <3> QED BY <3>1, CurationAssumption DEF ImporterOK, Passing, Reported
  <2>3. importer = [i \in Importers |-> importer[i]]
    BY <2>1
  <2> QED BY <2>1, <2>2, <2>3 DEF ImportsOK
<1> QED BY <1>1, <1>2

\* The steps of the curator that write no output file.
Elsewhere ==
    /\ UNCHANGED folder
    /\ target' \in Dirs
    /\ at' = [kind |-> at'.kind, page |-> at'.page, row |-> at'.row, file |-> at'.file]
    /\ pc' \notin {"open", "fill"}

LEMMA CurationSteps ==
    ASSUME FoldersOK, CurationNext
    PROVE  Elsewhere \/ BeginSave \/ OpenFile \/ FillFile
<1>1. /\ target \in Dirs /\ MainDir \in Dirs
      /\ at = [kind |-> at.kind, page |-> at.page, row |-> at.row, file |-> at.file]
  BY CurationAssumption DEF FoldersOK
<1>2. ASSUME NEW d \in Dirs, Launch(d) PROVE Elsewhere
  BY <1>1, <1>2 DEF Launch, Elsewhere
<1>3. CASE BeginKind \/ EndKind \/ BeginPage \/ PageUnavailable \/ EndPage
  BY <1>1, <1>3 DEF BeginKind, EndKind, BeginPage, PageUnavailable, EndPage, Checkpoint, Elsewhere
<1>4. CASE ReadRecord \/ ExportUnavailable
  BY <1>1, <1>4 DEF ReadRecord, Take, ExportUnavailable, Elsewhere
<1>5. CASE Accept \/ MarkRecord
  BY <1>1, <1>5 DEF Accept, MarkRecord, Elsewhere
<1>6. CASE Exit \/ Crash \/ CrashInCache
  BY <1>1, <1>6 DEF Exit, Crash, CrashInCache, Halt, Start, Elsewhere
<1> QED BY <1>2, <1>3, <1>4, <1>5, <1>6 DEF CurationNext

\* Every step of the curator leaves alone a directory that has its manifest.
LEMMA FolderKept ==
    ASSUME FoldersOK, CurationNext
    PROVE  /\ FoldersOK'
           /\ \A d \in Dirs : folder[d]["manifest"] \notin {NoFile, EmptyFile} => folder'[d] = folder[d]
<1>1. CASE Elsewhere
  BY <1>1 DEF Elsewhere, FoldersOK
<1>2. CASE BeginSave
  <2>1. /\ UNCHANGED <<folder, target>> /\ pc' = "open" /\ at' = [at EXCEPT !.file = 1]
        /\ folder[target]["manifest"] = NoFile
    BY <1>2 DEF BeginSave, SaveRaises
  <2> QED BY <2>1 DEF FoldersOK
<1>3. CASE OpenFile
  <2> DEFINE file == OutputFiles[at.file]
  <2>1. /\ pc = "open" /\ pc' = "fill" /\ UNCHANGED <<at, target>>
        /\ folder' = [folder EXCEPT ![target][file] = EmptyFile]
    BY <1>3 DEF OpenFile, process
  <2>2. /\ target \in Dirs /\ at.file \in 1 .. 3 /\ folder[target]["manifest"] = NoFile
        /\ at = [kind |-> at.kind, page |-> at.page, row |-> at.row, file |-> at.file]
        /\ folder = [d \in Dirs |-> [f \in Files |-> folder[d][f]]]
    BY <2>1 DEF FoldersOK
  <2>3. file \in Files /\ (file = "manifest" <=> at.file = 3)
    BY <2>2, TheFiles DEF Files
  <2> HIDE DEF file
  <2>4. folder' = [d \in Dirs |-> [f \in Files |-> IF d = target /\ f = file THEN EmptyFile ELSE folder[d][f]]]
    BY <2>1, <2>2, <2>3
  <2>5. /\ folder'[target]["manifest"] = IF file = "manifest" THEN EmptyFile ELSE NoFile
        /\ folder' = [d \in Dirs |-> [f \in Files |-> folder'[d][f]]]
    BY <2>2, <2>4 DEF Files
  <2>6. FoldersOK'
    BY <2>1, <2>2, <2>3, <2>5 DEF FoldersOK
  <2>7. ASSUME NEW d \in Dirs, d # target PROVE folder'[d] = folder[d]
    BY <2>2, <2>4, <2>7
  <2> QED BY <2>2, <2>6, <2>7
<1>4. CASE FillFile
  <2> DEFINE file == OutputFiles[at.file]
             text == Content(file, memory.held, target)
  <2>1. /\ pc = "fill"
        /\ folder' = [folder EXCEPT ![target][file] = text]
        /\ IF at.file < 3 THEN pc' = "open" /\ UNCHANGED target /\ at' = [at EXCEPT !.file = @ + 1]
           ELSE pc' = "off" /\ target' = MainDir /\ at' = Start
    BY <1>4, TheFiles DEF FillFile, Halt
  <2>2. /\ target \in Dirs /\ MainDir \in Dirs /\ at.file \in 1 .. 3
        /\ folder[target]["manifest"] = IF at.file = 3 THEN EmptyFile ELSE NoFile
        /\ at = [kind |-> at.kind, page |-> at.page, row |-> at.row, file |-> at.file]
        /\ folder = [d \in Dirs |-> [f \in Files |-> folder[d][f]]]
    BY <2>1, CurationAssumption DEF FoldersOK
  <2>3. file \in Files /\ (file = "manifest" <=> at.file = 3)
    BY <2>2, TheFiles DEF Files
  <2> HIDE DEF file, text
  <2>4. folder' = [d \in Dirs |-> [f \in Files |-> IF d = target /\ f = file THEN text ELSE folder[d][f]]]
    BY <2>1, <2>2, <2>3
  <2>5. /\ at.file < 3 => folder'[target]["manifest"] = NoFile
        /\ folder' = [d \in Dirs |-> [f \in Files |-> folder'[d][f]]]
    BY <2>2, <2>3, <2>4 DEF Files
  <2>6. /\ at.file < 3 => at'.file \in 1 .. 3
        /\ at' = [kind |-> at'.kind, page |-> at'.page, row |-> at'.row, file |-> at'.file]
    BY <2>1, <2>2 DEF Start
  <2>7. FoldersOK'
    BY <2>1, <2>2, <2>5, <2>6 DEF FoldersOK
  <2>8. ASSUME NEW d \in Dirs, d # target PROVE folder'[d] = folder[d]
    BY <2>2, <2>4, <2>8
  <2> QED BY <2>2, <2>7, <2>8
<1> QED BY <1>1, <1>2, <1>3, <1>4, CurationSteps

\* The importers keep what they read, whatever the curator does meanwhile.
LEMMA CurationKeepsImports ==
    ASSUME FoldersOK, ImportsOK, CurationNext, UNCHANGED importVars
    PROVE  ImportsOK'
<1>1. UNCHANGED <<library, importer>>
  BY DEF importVars
<1>2. ASSUME NEW i \in Importers PROVE ImporterOK(i)'
  <2>1. ImporterOK(i)
    BY DEF ImportsOK
  <2>2. ASSUME Passing(i) \/ Reported(i)
        PROVE  folder[importer[i].dir]["manifest"] \notin {NoFile, EmptyFile}
    <3>1. CASE Passing(i)
      BY <2>1, <3>1 DEF ImporterOK, Sealed
    <3>2. CASE Reported(i)
      BY <2>1, <3>2 DEF ImporterOK, ImportsOK, Sealed, Files
    <3> QED BY <2>2, <3>1, <3>2
  <2>3. Passing(i) \/ Reported(i) => folder'[importer[i].dir] = folder[importer[i].dir]
    BY <2>1, <2>2, FolderKept DEF ImporterOK
  <2> QED BY <1>1, <2>1, <2>3 DEF ImporterOK, Passing, Reported
<1> QED BY <1>1, <1>2 DEF ImportsOK

\* One importer moves, and the others keep what they know of the library.
LEMMA ImporterMoves ==
    ASSUME ImportsOK, NEW i \in Importers, NEW now, UNCHANGED folder,
           importer' = [importer EXCEPT ![i] = now],
           library' = library \/ (library = NoSet /\ library' # NoSet /\ Sealed(library')),
           now = [pc |-> now.pc, dir |-> now.dir, set |-> now.set, report |-> now.report],
           now.dir \in Dirs,
           now.pc \in {"loaded", "locked"} =>
              Sealed(now.set) /\ now.set = folder[now.dir] /\ now.report = "none",
           now.report \in {"imported", "already_present"} =>
              /\ library' # NoSet
              /\ \A f \in Files : library'[f] = folder[now.dir][f]
    PROVE  ImportsOK'
<1>1. /\ importer = [k \in Importers |-> importer[k]]
      /\ importer' = [k \in Importers |-> IF k = i THEN now ELSE importer[k]]
  BY DEF ImportsOK
<1>2. ASSUME NEW k \in Importers PROVE ImporterOK(k)'
  <2>1. CASE k = i
    <3>1. importer'[k] = now
      BY <1>1, <2>1
    <3> QED BY <3>1 DEF ImporterOK, Passing, Reported
  <2>2. CASE k # i
    <3>1. ImporterOK(k) /\ importer'[k] = importer[k]
      BY <1>1, <2>2 DEF ImportsOK
    <3>2. Reported(k) => library' = library
      BY <3>1 DEF ImporterOK
    <3> QED BY <3>1, <3>2 DEF ImporterOK, Passing, Reported
  <2> QED BY <2>1, <2>2
<1>3. library' = NoSet \/ Sealed(library')
  BY DEF ImportsOK
<1>4. importer' = [k \in Importers |-> importer'[k]]
  BY <1>1
<1> QED BY <1>2, <1>3, <1>4 DEF ImportsOK

LEMMA LoadedIsSealed ==
    ASSUME NEW files, ~LoadRaises(files)
    PROVE  Sealed(files)
  BY DEF LoadRaises, Sealed

LEMMA ImportsKept ==
    ASSUME FoldersOK, ImportsOK, [Next]_vars
    PROVE  FoldersOK' /\ ImportsOK'
<1>1. CASE CurationNext /\ UNCHANGED importVars
  BY <1>1, FolderKept, CurationKeepsImports
<1>2. ASSUME NEW i \in Importers,
             (\E d \in Dirs : Load(i, d)) \/ Lock(i) \/ Insert(i) \/ InsertFails(i) \/ FindPresent(i) \/ Refuse(i)
      PROVE  FoldersOK' /\ ImportsOK'
  <2>1. UNCHANGED <<folder, target, pc, at>>
    BY <1>2 DEF Load, Lock, Insert, InsertFails, FindPresent, Refuse, Report, curationVars, process
  <2>2. FoldersOK'
    BY <2>1 DEF FoldersOK
  <2> DEFINE r == importer[i]
  <2>3. /\ r = [pc |-> r.pc, dir |-> r.dir, set |-> r.set, report |-> r.report]
        /\ r.dir \in Dirs
        /\ r.pc \in {"loaded", "locked"} => Sealed(r.set) /\ r.set = folder[r.dir] /\ r.report = "none"
        /\ r.report \in {"imported", "already_present"} =>
              library # NoSet /\ \A f \in Files : library[f] = folder[r.dir][f]
    BY DEF ImportsOK, ImporterOK, Passing, Reported
  <2>4. MainDir \in Dirs
    BY CurationAssumption
  <2>5. ASSUME NEW now, importer' = [importer EXCEPT ![i] = now], now = Idle,
               library' = library \/ (library = NoSet /\ library' # NoSet /\ Sealed(library'))
        PROVE  ImportsOK'
    <3>1. /\ now = [pc |-> now.pc, dir |-> now.dir, set |-> now.set, report |-> now.report]
          /\ now.dir \in Dirs /\ now.pc = "idle" /\ now.report = "none"
      BY <2>4, <2>5 DEF Idle
    <3> QED BY <2>1, <2>5, <3>1, ImporterMoves
  <2>6. ASSUME NEW d \in Dirs, Load(i, d) PROVE ImportsOK'
    <3>1. CASE LoadRaises(folder[d])
      BY <2>5, <2>6, <3>1 DEF Load
    <3>2. CASE ~LoadRaises(folder[d])
      <4> DEFINE now == [pc |-> "loaded", dir |-> d, set |-> folder[d], report |-> "none"]
      <4>1. importer' = [importer EXCEPT ![i] = now] /\ UNCHANGED library
        BY <2>6, <3>2 DEF Load
      <4>2. /\ now = [pc |-> now.pc, dir |-> now.dir, set |-> now.set, report |-> now.report]
            /\ now.dir \in Dirs /\ Sealed(now.set) /\ now.set = folder[now.dir] /\ now.report = "none"
        BY <3>2, LoadedIsSealed
      <4> HIDE DEF now
      <4> QED BY <2>1, <4>1, <4>2, ImporterMoves
    <3> QED BY <3>1, <3>2
  <2>7. CASE Lock(i)
    <3> DEFINE now == [r EXCEPT !.pc = "locked"]
    <3>1. importer' = [importer EXCEPT ![i] = now] /\ UNCHANGED library /\ r.pc = "loaded"
      BY <2>7 DEF Lock
    <3> HIDE DEF r
    <3>2. /\ now = [pc |-> now.pc, dir |-> now.dir, set |-> now.set, report |-> now.report]
          /\ now.dir \in Dirs /\ Sealed(now.set) /\ now.set = folder[now.dir] /\ now.report = "none"
      BY <2>3, <3>1
    <3> HIDE DEF now
    <3> QED BY <2>1, <2>2, <3>1, <3>2, ImporterMoves
  <2>8. ASSUME NEW report, Report(i, report), r.pc = "locked",
               library' = library \/ (library = NoSet /\ library' # NoSet /\ Sealed(library')),
               library' # NoSet, \A f \in Files : library'[f] = r.set[f]
        PROVE  ImportsOK'
    <3> DEFINE now == [r EXCEPT !.pc = "idle", !.set = NoSet, !.report = report]
    <3>1. importer' = [importer EXCEPT ![i] = now]
      BY <2>3, <2>8 DEF Report
    <3>2. /\ now = [pc |-> now.pc, dir |-> now.dir, set |-> now.set, report |-> now.report]
          /\ now.pc = "idle" /\ now.dir = r.dir /\ now.dir \in Dirs
      <4> HIDE DEF r
      <4> DEFINE p == r.pc  d == r.dir  s == r.set  x == r.report
      <4>0. r = [pc |-> p, dir |-> d, set |-> s, report |-> x] /\ d = r.dir
        BY <2>3
      <4> HIDE DEF p, d, s, x
      <4> DEFINE a == [r EXCEPT !.pc = "idle"]
                 b == [a EXCEPT !.set = NoSet]
                 e == [b EXCEPT !.report = report]
      <4>1. now = e
        OBVIOUS
      <4>2. a = [pc |-> "idle", dir |-> d, set |-> s, report |-> x]
        BY <4>0
      <4> HIDE DEF a
      <4>3. b = [pc |-> "idle", dir |-> d, set |-> NoSet, report |-> x]
        BY <4>2
      <4> HIDE DEF b
      <4>4. e = [pc |-> "idle", dir |-> d, set |-> NoSet, report |-> report]
        BY <4>3
      <4> HIDE DEF e
      <4>5. now = [pc |-> "idle", dir |-> r.dir, set |-> NoSet, report |-> report]
        BY <4>0, <4>1, <4>4
      <4> HIDE DEF now
      <4> QED BY <2>3, <4>5
    <3> HIDE DEF r
    <3> HIDE DEF now
    <3>3. \A f \in Files : library'[f] = folder[now.dir][f]
      BY <2>3, <2>8, <3>2
    <3> QED BY <2>1, <2>8, <3>1, <3>2, <3>3, ImporterMoves
  <2>9. CASE Insert(i)
    <3>1. Sealed(r.set) /\ r.set # NoSet
      BY <2>3, <2>9 DEF Insert, Sealed, NoSet
    <3> QED BY <2>2, <2>8, <2>9, <3>1 DEF Insert
  <2>10. CASE FindPresent(i)
    <3>1. /\ r.pc = "locked" /\ Report(i, "already_present") /\ UNCHANGED library /\ library # NoSet
          /\ library["manifest"] = r.set["manifest"] /\ library["positions"] = r.set["positions"]
          /\ library["evaluations"] = r.set["evaluations"]
      BY <2>10 DEF FindPresent, SameSet
    <3>2. \A f \in Files : library'[f] = r.set[f]
      BY <3>1 DEF Files
    <3> QED BY <2>2, <2>8, <3>1, <3>2
  <2>11. CASE InsertFails(i)
    <3>1. Sealed(r.set) /\ r.set # NoSet
      BY <2>3, <2>11 DEF InsertFails, Sealed, NoSet
    <3> QED BY <2>2, <2>5, <2>11, <3>1 DEF InsertFails
  <2>12. CASE Refuse(i)
    BY <2>2, <2>5, <2>12 DEF Refuse
  <2> QED BY <1>2, <2>2, <2>6, <2>7, <2>9, <2>10, <2>11, <2>12
<1>3. CASE UNCHANGED vars
  <2>1. UNCHANGED <<folder, target, pc, at, library, importer>>
    BY <1>3 DEF vars, curationVars, importVars, process
  <2>2. FoldersOK'
    BY <2>1 DEF FoldersOK
  <2>3. ASSUME NEW i \in Importers PROVE ImporterOK(i)'
    BY <2>1 DEF ImportsOK, ImporterOK, Passing, Reported
  <2> QED BY <2>1, <2>2, <2>3 DEF ImportsOK
<1> QED BY <1>1, <1>2, <1>3 DEF Next

\* Success is only reported of what is stored.
THEOREM ReportsAreTrue == Spec => []ReportedIsStored
<1>1. FoldersOK /\ ImportsOK => ReportedIsStored
  <2> SUFFICES ASSUME ImportsOK, NEW i \in Importers, Reported(i)
               PROVE  LET files == folder[importer[i].dir]
                      IN  /\ library # NoSet
                          /\ files["manifest"] = library.manifest
                          /\ files["positions"] = library.positions
                          /\ library.manifest.evaluations = library.evaluations
                          /\ ~CollectionRaises(library.positions.rows)
                          /\ ~EvaluationsRaise(library.positions.rows, library.evaluations.rows)
    BY DEF ReportedIsStored, Reported
  <2>1. library # NoSet /\ Sealed(library) /\ \A f \in Files : library[f] = folder[importer[i].dir][f]
    BY DEF ImportsOK, ImporterOK
  <2> QED BY <2>1 DEF Sealed, Files
<1> QED BY <1>1, FilesBegin, ImportsKept, PTL DEF Spec

----------------------------------------------------------------------------
(* What the process knows of the items it holds.                           *)

\* known[n] is what the first n items add up to.
Adds(known, items, n) ==
    known = [i \in 0 .. n |-> IF i = 0 THEN Nothing ELSE Track(known[i - 1], items[i].position)]

LEMMA TrackedExists ==
    ASSUME NEW items
    PROVE  \A n \in Nat : \E known : Adds(known, items, n)
<1> DEFINE S == {n \in Nat : \E known : Adds(known, items, n)}
<1>1. 0 \in S
  <2> DEFINE known == [i \in 0 .. 0 |-> Nothing]
  <2>1. known = [i \in 0 .. 0 |-> IF i = 0 THEN Nothing ELSE Track(known[i - 1], items[i].position)]
    OBVIOUS
  <2> HIDE DEF known
  <2> QED BY <2>1 DEF Adds
<1>2. ASSUME NEW n \in Nat, n \in S PROVE n + 1 \in S
  <2>1. PICK known : Adds(known, items, n)
    BY <1>2
  <2> DEFINE more == [i \in 0 .. n + 1 |-> IF i <= n THEN known[i] ELSE Track(known[n], items[n + 1].position)]
  <2>2. ASSUME NEW i \in 0 .. n + 1
        PROVE  more[i] = IF i = 0 THEN Nothing ELSE Track(more[i - 1], items[i].position)
    <3>1. CASE i = n + 1
      <4>1. i # 0 /\ i - 1 = n /\ ~(i <= n) /\ n \in 0 .. n + 1
        BY <3>1
      <4>2. more[i] = Track(known[n], items[n + 1].position) /\ more[n] = known[n]
        BY <3>1, <4>1
      <4> HIDE DEF more
      <4> QED BY <3>1, <4>1, <4>2
    <3>2. CASE i # n + 1
      <4>1. i \in 0 .. n /\ (i # 0 => i - 1 \in 0 .. n /\ i - 1 \in 0 .. n + 1)
        BY <3>2
      <4>2. known[i] = IF i = 0 THEN Nothing ELSE Track(known[i - 1], items[i].position)
        BY <2>1, <4>1 DEF Adds
      <4>3. more[i] = known[i] /\ (i # 0 => more[i - 1] = known[i - 1])
        BY <4>1
      <4> HIDE DEF more
      <4> QED BY <4>2, <4>3
    <3> QED BY <3>1, <3>2
  <2>3. more = [i \in 0 .. n + 1 |-> more[i]]
    OBVIOUS
  <2> HIDE DEF more
  <2>4. Adds(more, items, n + 1)
    BY <2>2, <2>3 DEF Adds
  <2> QED BY <2>4
<1> HIDE DEF S
<1>3. \A n \in Nat : n \in S
  BY <1>1, <1>2, SetInduction
<1> QED BY <1>3 DEF S

\* What agrees on the items agrees on what they add up to.
LEMMA AddsTheSame ==
    ASSUME NEW items, NEW m \in Nat, NEW known, Adds(known, items, m),
           NEW others, NEW n \in Nat, NEW more, Adds(more, others, n),
           m <= n, \A i \in 1 .. m : items[i] = others[i]
    PROVE  \A i \in 0 .. m : known[i] = more[i]
<1> DEFINE S == {i \in Nat : i <= m => known[i] = more[i]}
<1>1. 0 \in S
  BY DEF Adds
<1>2. ASSUME NEW i \in Nat, i \in S PROVE i + 1 \in S
  <2> SUFFICES ASSUME i + 1 <= m PROVE known[i + 1] = more[i + 1]
    OBVIOUS
  <2>1. known[i] = more[i] /\ items[i + 1] = others[i + 1]
    BY <1>2
  <2>2. i + 1 \in 0 .. m /\ i + 1 \in 0 .. n /\ (i + 1) - 1 = i /\ i + 1 # 0
    OBVIOUS
  <2>3. /\ known[i + 1] = Track(known[i], items[i + 1].position)
        /\ more[i + 1] = Track(more[i], others[i + 1].position)
    <3> HIDE DEF S
    <3> QED BY <2>2 DEF Adds
  <2> QED BY <2>1, <2>3
<1> HIDE DEF S
<1>3. \A i \in Nat : i \in S
  BY <1>1, <1>2, SetInduction
<1> QED BY <1>3 DEF S

LEMMA TrackedIs ==
    ASSUME NEW items, Len(items) \in Nat, NEW known, Adds(known, items, Len(items))
    PROVE  Tracked(items) = known[Len(items)]
<1>1. Tracked(items) = (CHOOSE k : Adds(k, items, Len(items)))[Len(items)]
  BY DEF Tracked, Adds
<1> DEFINE chosen == CHOOSE k : Adds(k, items, Len(items))
<1>2. Adds(chosen, items, Len(items))
  OBVIOUS
<1> HIDE DEF chosen
<1>3. chosen[Len(items)] = known[Len(items)]
  BY <1>2, AddsTheSame
<1> QED BY <1>1, <1>3 DEF chosen

LEMMA TrackedNothing == Tracked(<<>>) = Nothing
<1>1. Len(<<>>) = 0
  OBVIOUS
<1>2. PICK known : Adds(known, <<>>, 0)
  BY TrackedExists
<1>3. known[0] = Nothing
  BY <1>2 DEF Adds
<1> QED BY <1>1, <1>2, <1>3, TrackedIs

\* One more item is one more step of the loop.
LEMMA TrackedGrows ==
    ASSUME NEW S, NEW items \in Seq(S), NEW item
    PROVE  Tracked(Append(items, item)) = Track(Tracked(items), item.position)
<1> DEFINE n    == Len(items)
           more == Append(items, item)
<1>1. n \in Nat /\ Len(more) = n + 1 /\ more[n + 1] = item /\ \A i \in 1 .. n : more[i] = items[i]
  <2>1. items \in Seq(S \cup {item})
    OBVIOUS
  <2> QED BY <2>1
<1> HIDE DEF n, more
<1>2. PICK known : Adds(known, items, n)
  BY <1>1, TrackedExists
<1>3. PICK later : Adds(later, more, n + 1)
  <2>1. n + 1 \in Nat
    BY <1>1
  <2> QED BY <2>1, TrackedExists
<1>4. known[n] = later[n]
  BY <1>1, <1>2, <1>3, AddsTheSame
<1>5. later[n + 1] = Track(later[n], item.position)
  <2>1. n + 1 \in 0 .. n + 1 /\ (n + 1) - 1 = n /\ n + 1 # 0
    BY <1>1
  <2> QED BY <1>1, <1>3, <2>1 DEF Adds
<1>6. Tracked(items) = known[n]
  BY <1>1, <1>2, TrackedIs DEF n
<1>7. Tracked(more) = later[n + 1]
  BY <1>1, <1>3, TrackedIs
<1> QED BY <1>4, <1>5, <1>6, <1>7 DEF more

----------------------------------------------------------------------------
(* A selection: what was accepted so far.                                  *)

Sides == (DOMAIN Quotas) \X Colors

OfSide(items, side) == {i \in DOMAIN items : Bucket(items[i].position) = side}

\* A position and its evaluation, as accept writes them.
Sound(item) ==
    LET row == item.position
        e   == item.evaluation
    IN  /\ DOMAIN row = {"id", "board", "game", "kind", "phase", "split", "mating"}
        /\ row.id = <<row.game, row.board.name>> /\ row.board.turn \in Colors
        /\ ~PositionRaises(row)
        /\ e.position = row.id
        /\ e.moves # <<>> /\ Head(e.moves) = e.best /\ IsInjective(e.moves)

\* The process counts what it holds.
Counted(items, known) ==
    /\ known = [counts |-> known.counts, games |-> known.games, boards |-> known.boards]
    /\ known.counts = [side \in Sides |-> Cardinality(OfSide(items, side))]
    /\ known.games = {items[i].position.game : i \in DOMAIN items}
    /\ known.boards = {items[i].position.board.key : i \in DOMAIN items}

Different(items) ==
    \A i, j \in DOMAIN items :
        i # j => /\ items[i].position.game # items[j].position.game
                 /\ items[i].position.board.key # items[j].position.board.key

Capped(items) ==
    \A bucket \in DOMAIN Quotas :
        bucket[2] = "tactical" => MatesIn(items, bucket[1]) <= Quotas[bucket]

Selection(items) ==
    /\ items \in Seq({items[i] : i \in DOMAIN items})
    /\ \A i \in DOMAIN items : Sound(items[i])
    /\ Different(items) /\ Capped(items)
    /\ Counted(items, Tracked(items))

\* An item that may join: nobody has its game or its board, and the mating
\* puzzles of its phase leave room for it.
Joins(item, items, known) ==
    /\ Sound(item)
    /\ item.position.game \notin known.games
    /\ item.position.board.key \notin known.boards
    /\ item.position.kind = "tactical" /\ item.position.mating =>
          MatesIn(items, item.position.phase) < Quotas[<<item.position.phase, "tactical">>]

LEMMA Appended ==
    ASSUME NEW S, NEW items \in Seq(S), NEW item
    PROVE  LET more == Append(items, item)
           IN  /\ more \in Seq({more[i] : i \in DOMAIN more})
               /\ Len(items) \in Nat /\ DOMAIN items = 1 .. Len(items)
               /\ Len(more) = Len(items) + 1 /\ DOMAIN more = 1 .. Len(items) + 1
               /\ \A i \in DOMAIN items : more[i] = items[i]
               /\ more[Len(items) + 1] = item
<1> DEFINE more == Append(items, item)
<1>1. items \in Seq(S \cup {item})
  OBVIOUS
<1>2. more \in Seq(S \cup {item}) /\ Len(more) = Len(items) + 1 /\ Len(items) \in Nat
      /\ DOMAIN items = 1 .. Len(items) /\ more[Len(items) + 1] = item
      /\ \A i \in 1 .. Len(items) : more[i] = items[i]
  BY <1>1
<1> HIDE DEF more
<1>3. DOMAIN more = 1 .. Len(more)
  BY <1>2
<1>4. more \in Seq({more[i] : i \in DOMAIN more})
  BY <1>2, <1>3
<1> QED BY <1>2, <1>3, <1>4 DEF more

LEMMA SelectionBegins == Selection(<<>>) /\ Tracked(<<>>) = Nothing
<1>1. DOMAIN <<>> = {}
  OBVIOUS
<1>2. \A side \in Sides : Cardinality(OfSide(<<>>, side)) = 0
  <2>1. \A side : OfSide(<<>>, side) = {}
    BY <1>1 DEF OfSide
  <2> QED BY <2>1, FS_EmptySet
<1>3. Counted(<<>>, Nothing)
  BY <1>1, <1>2 DEF Counted, Nothing, Sides
<1>4. Capped(<<>>)
  <2>1. \A phase : MatesIn(<<>>, phase) = 0
    BY <1>1, FS_EmptySet DEF MatesIn, Rows
  <2> QED BY <2>1, QuotaAssumption DEF Capped
<1>5. Different(<<>>)
  BY <1>1 DEF Different
<1>6. <<>> \in Seq({})
  OBVIOUS
<1> QED BY <1>1, <1>3, <1>4, <1>5, <1>6, TrackedNothing DEF Selection

\* The numbers of a prefix, and one more.
LEMMA OneMore ==
    ASSUME NEW n \in Nat, NEW A \in SUBSET (1 .. n), NEW B,
           B = A \/ B = A \cup {n + 1}
    PROVE  /\ Cardinality(A) \in Nat
           /\ Cardinality(B) = IF B = A THEN Cardinality(A) ELSE Cardinality(A) + 1
           /\ Cardinality(B) \in Nat
<1>1. IsFiniteSet(A)
  <2>1. IsFiniteSet(1 .. n)
    BY FS_Interval
  <2> QED BY <2>1, FS_Subset
<1>2. n + 1 \notin A
  OBVIOUS
<1>3. Cardinality(A) \in Nat /\ Cardinality(A \cup {n + 1}) = Cardinality(A) + 1
  BY <1>1, <1>2, FS_AddElement, FS_CardinalityType
<1>4. CASE B = A
  BY <1>3, <1>4
<1>5. CASE B = A \cup {n + 1}
  <2>1. B # A
    BY <1>2, <1>5
  <2>2. Cardinality(B) = Cardinality(A) + 1
    BY <1>3, <1>5
  <2> QED BY <1>3, <2>1, <2>2
<1> QED BY <1>4, <1>5

\* accept keeps a selection one.
LEMMA SelectionGrows ==
    ASSUME NEW items, Selection(items), NEW item, Joins(item, items, Tracked(items))
    PROVE  Selection(Append(items, item))
<1> DEFINE n     == Len(items)
           more  == Append(items, item)
           known == Tracked(items)
           row   == item.position
           later == Track(known, row)
<1>1. /\ more \in Seq({more[i] : i \in DOMAIN more})
      /\ n \in Nat /\ DOMAIN items = 1 .. n /\ DOMAIN more = 1 .. n + 1
      /\ \A i \in 1 .. n : more[i] = items[i]
      /\ more[n + 1] = item
  BY Appended DEF Selection
<1>2. Tracked(more) = later
  BY TrackedGrows DEF Selection
<1>3. Counted(items, known) /\ Different(items) /\ Capped(items) /\ \A i \in 1 .. n : Sound(items[i])
  BY <1>1 DEF Selection
<1>4. /\ Sound(item) /\ row.game \notin known.games /\ row.board.key \notin known.boards
      /\ row.kind = "tactical" /\ row.mating => MatesIn(items, row.phase) < Quotas[<<row.phase, "tactical">>]
  BY DEF Joins
<1> HIDE DEF n, more, known, row
<1>5. \A i \in DOMAIN more : i = n + 1 \/ i \in 1 .. n
  BY <1>1
<1>6. \A i \in DOMAIN more : Sound(more[i])
  BY <1>1, <1>3, <1>4, <1>5
<1>7. Different(more)
  <2>1. \A i \in 1 .. n : items[i].position.game # row.game /\ items[i].position.board.key # row.board.key
    BY <1>1, <1>3, <1>4 DEF Counted
  <2>2. more[n + 1].position = row
    BY <1>1 DEF row
  <2>3. ASSUME NEW i \in DOMAIN more, NEW j \in DOMAIN more, i # j
        PROVE  /\ more[i].position.game # more[j].position.game
               /\ more[i].position.board.key # more[j].position.board.key
    <3>1. CASE i \in 1 .. n /\ j \in 1 .. n
      BY <1>1, <1>3, <2>3, <3>1 DEF Different
    <3>2. CASE i = n + 1 /\ j \in 1 .. n
      BY <1>1, <2>1, <2>2, <3>2
    <3>3. CASE i \in 1 .. n /\ j = n + 1
      BY <1>1, <2>1, <2>2, <3>3
    <3> QED BY <1>5, <2>3, <3>1, <3>2, <3>3
  <2> QED BY <2>3 DEF Different
<1>8. ASSUME NEW side \in Sides
      PROVE  /\ Cardinality(OfSide(more, side)) =
                   IF side = Bucket(row) THEN Cardinality(OfSide(items, side)) + 1
                   ELSE Cardinality(OfSide(items, side))
  <2>1. OfSide(items, side) \in SUBSET (1 .. n)
    BY <1>1 DEF OfSide
  <2>2. \A i \in 1 .. n : i \in OfSide(more, side) <=> i \in OfSide(items, side)
    BY <1>1 DEF OfSide
  <2>3. n + 1 \in OfSide(more, side) <=> side = Bucket(row)
    BY <1>1 DEF OfSide, row
  <2>4. OfSide(more, side) \subseteq 1 .. n + 1
    BY <1>1 DEF OfSide
  <2>5. OfSide(more, side) = IF side = Bucket(row) THEN OfSide(items, side) \cup {n + 1} ELSE OfSide(items, side)
    <3>1. \A i \in 1 .. n + 1 : i = n + 1 \/ i \in 1 .. n
      BY <1>1
    <3>2. n + 1 \notin 1 .. n
      BY <1>1
    <3> QED BY <2>1, <2>2, <2>3, <2>4, <3>1, <3>2
  <2>6. OfSide(items, side) \cup {n + 1} # OfSide(items, side)
    <3>1. n + 1 \notin 1 .. n
      BY <1>1
    <3> QED BY <2>1, <3>1
  <2> QED BY <1>1, <2>1, <2>5, <2>6, OneMore
<1>9. Counted(more, later)
  <2>1. /\ known = [counts |-> known.counts, games |-> known.games, boards |-> known.boards]
        /\ known.counts = [side \in Sides |-> Cardinality(OfSide(items, side))]
        /\ known.games = {items[i].position.game : i \in DOMAIN items}
        /\ known.boards = {items[i].position.board.key : i \in DOMAIN items}
    BY <1>3 DEF Counted
  <2>2. /\ later = [counts |-> later.counts, games |-> later.games, boards |-> later.boards]
        /\ later.counts = [known.counts EXCEPT ![Bucket(row)] = @ + 1]
        /\ later.games = known.games \cup {row.game}
        /\ later.boards = known.boards \cup {row.board.key}
    BY DEF Track
  <2> HIDE DEF later
  <2>3. later.counts = [side \in Sides |-> IF side = Bucket(row) THEN known.counts[side] + 1 ELSE known.counts[side]]
    BY <2>1, <2>2
  <2>4. later.counts = [side \in Sides |-> Cardinality(OfSide(more, side))]
    <3>1. \A side \in Sides : known.counts[side] = Cardinality(OfSide(items, side))
      BY <2>1
    <3> QED BY <1>8, <2>3, <3>1
  <2>5. /\ later.games = {more[i].position.game : i \in DOMAIN more}
        /\ later.boards = {more[i].position.board.key : i \in DOMAIN more}
    <3>1. more[n + 1].position = row /\ n + 1 \in DOMAIN more /\ \A i \in 1 .. n : i \in DOMAIN more
      BY <1>1 DEF row
    <3>2. \A i \in 1 .. n : more[i].position = items[i].position
      BY <1>1
    <3>3. ASSUME NEW x
          PROVE  x \in later.games <=> \E i \in DOMAIN more : x = more[i].position.game
      BY <1>1, <1>5, <2>1, <2>2, <3>1, <3>2
    <3>4. ASSUME NEW x
          PROVE  x \in later.boards <=> \E i \in DOMAIN more : x = more[i].position.board.key
      <4>1. /\ \A i \in 1 .. n : more[i].position.board.key = items[i].position.board.key
            /\ more[n + 1].position.board.key = row.board.key
        BY <3>1, <3>2
      <4>2. x \in later.boards <=> x = row.board.key \/ \E i \in 1 .. n : x = items[i].position.board.key
        BY <1>1, <2>1, <2>2
      <4> QED BY <1>5, <3>1, <4>1, <4>2
    <3> QED BY <3>3, <3>4
  <2> QED BY <2>2, <2>4, <2>5 DEF Counted
<1>10. Capped(more)
  <2> SUFFICES ASSUME NEW bucket \in DOMAIN Quotas, bucket[2] = "tactical"
               PROVE  MatesIn(more, bucket[1]) <= Quotas[bucket]
    BY DEF Capped
  <2> DEFINE mating(x) == x.position.phase = bucket[1] /\ x.position.kind = "tactical" /\ x.position.mating
             A == {i \in DOMAIN items : mating(items[i])}
             B == {i \in DOMAIN more : mating(more[i])}
  <2>1. MatesIn(items, bucket[1]) = Cardinality(A) /\ MatesIn(more, bucket[1]) = Cardinality(B)
    BY DEF MatesIn, Rows
  <2>2. A \in SUBSET (1 .. n)
    BY <1>1
  <2>3. B = IF mating(item) THEN A \cup {n + 1} ELSE A
    <3>1. \A i \in 1 .. n + 1 : i = n + 1 \/ i \in 1 .. n
      BY <1>1
    <3>2. n + 1 \notin 1 .. n /\ n + 1 \in 1 .. n + 1 /\ \A i \in 1 .. n : i \in 1 .. n + 1
      BY <1>1
    <3>3. \A i \in 1 .. n : i \in B <=> i \in A
      BY <1>1, <3>2
    <3>4. n + 1 \in B <=> mating(item)
      BY <1>1, <3>2
    <3>5. B \subseteq 1 .. n + 1
      BY <1>1
    <3> HIDE DEF A, B, mating
    <3> QED BY <2>2, <3>1, <3>2, <3>3, <3>4, <3>5
  <2>4. Cardinality(A) <= Quotas[bucket] /\ Quotas[bucket] \in Nat
    BY <1>3, <2>1, QuotaAssumption DEF Capped
  <2>5. mating(item) => Cardinality(A) < Quotas[bucket]
    <3>1. bucket = <<bucket[1], "tactical">>
      BY QuotaAssumption
    <3> HIDE DEF A
    <3> QED BY <1>4, <2>1, <3>1 DEF row
  <2> HIDE DEF A, B, mating
  <2>6. Cardinality(A) \in Nat /\ Cardinality(B) \in Nat
        /\ Cardinality(B) = IF B = A THEN Cardinality(A) ELSE Cardinality(A) + 1
    BY <1>1, <2>2, <2>3, OneMore
  <2> QED BY <2>1, <2>3, <2>4, <2>5, <2>6
<1> HIDE DEF later
<1>11. Selection(more)
  BY <1>1, <1>2, <1>6, <1>7, <1>9, <1>10 DEF Selection
<1> QED BY <1>11 DEF more

----------------------------------------------------------------------------
(* What the engine's output gives.                                         *)

LEMMA Greatest ==
    ASSUME NEW S \in SUBSET Nat, S # {}, NEW bound \in Nat, \A s \in S : s <= bound
    PROVE  Deepest(S) \in S
<1>1. \E s \in S : \A e \in S : e <= s
  <2> SUFFICES ASSUME \A s \in S : \E e \in S : e > s PROVE FALSE
    OBVIOUS
  <2> DEFINE T == {n \in Nat : \E s \in S : s >= n}
  <2>1. 0 \in T
    <3>1. PICK s \in S : TRUE
      OBVIOUS
    <3>2. s \in Nat /\ s >= 0
      OBVIOUS
    <3> QED BY <3>2
  <2>2. ASSUME NEW n \in Nat, n \in T PROVE n + 1 \in T
    <3>1. PICK s \in S : s >= n
      BY <2>2
    <3>2. PICK e \in S : e > s
      OBVIOUS
    <3>3. s \in Nat /\ e \in Nat
      OBVIOUS
    <3>4. e >= n + 1
      BY <3>1, <3>2, <3>3
    <3> QED BY <3>4
  <2> HIDE DEF T
  <2>3. \A n \in Nat : n \in T
    BY <2>1, <2>2, SetInduction
  <2>4. bound + 1 \in T
    BY <2>3
  <2> QED BY <2>4 DEF T
<1> QED BY <1>1 DEF Deepest

LEMMA DepthsBounded ==
    ASSUME NEW infos, IsList(infos), \A info \in ToSet(infos) : info.depth \in Nat
    PROVE  \E bound \in Nat : \A d \in Depths(infos) : d \in Nat /\ d <= bound
<1> DEFINE last == Len(infos)
           S == {n \in Nat : n <= last => \E bound \in Nat : \A i \in 1 .. n : infos[i].depth <= bound}
<1>1. last \in Nat /\ DOMAIN infos = 1 .. last /\ \A i \in 1 .. last : infos[i].depth \in Nat
  BY DEF IsList, ToSet
<1> HIDE DEF last
<1>2. 0 \in S
  OBVIOUS
<1>3. ASSUME NEW n \in Nat, n \in S PROVE n + 1 \in S
  <2> SUFFICES ASSUME n + 1 <= last
               PROVE  \E bound \in Nat : \A i \in 1 .. n + 1 : infos[i].depth <= bound
    OBVIOUS
  <2>1. PICK bound \in Nat : \A i \in 1 .. n : infos[i].depth <= bound
    BY <1>1, <1>3
  <2>2. infos[n + 1].depth \in Nat
    BY <1>1
  <2>3. \A i \in 1 .. n + 1 : infos[i].depth <= bound + infos[n + 1].depth
    <3> SUFFICES ASSUME NEW i \in 1 .. n + 1 PROVE infos[i].depth <= bound + infos[n + 1].depth
      OBVIOUS
    <3>1. infos[i].depth \in Nat
      BY <1>1
    <3>2. CASE i = n + 1
      BY <2>2, <3>2
    <3>3. CASE i # n + 1
      BY <2>1, <2>2, <3>1, <3>3
    <3> QED BY <3>2, <3>3
  <2>4. bound + infos[n + 1].depth \in Nat
    BY <2>2
  <2> QED BY <2>3, <2>4
<1> HIDE DEF S
<1>4. last \in S
  BY <1>1, <1>2, <1>3, SetInduction
<1>5. PICK bound \in Nat : \A i \in 1 .. last : infos[i].depth <= bound
  BY <1>1, <1>4 DEF S
<1>6. \A d \in Depths(infos) : \E i \in 1 .. last : d = infos[i].depth
  BY <1>1 DEF Depths
<1> QED BY <1>1, <1>5, <1>6

\* As many lines as were asked for, with different first moves, or nothing.
LEMMA CompleteIsDifferent ==
    ASSUME NEW infos, IsList(infos), \A info \in ToSet(infos) : info.depth \in Nat,
           NEW count \in Nat, CompleteVariations(infos, count) # <<>>
    PROVE  LET lines == CompleteVariations(infos, count)
           IN  /\ lines = [k \in 1 .. count |-> lines[k]]
               /\ \A i, j \in 1 .. count : lines[i].move = lines[j].move => i = j
<1> DEFINE good(d) == /\ DOMAIN LinesAt(infos, d) = 1 .. count
                      /\ Cardinality(Roots(LinesAt(infos, d))) = count
           complete == {d \in Depths(infos) : good(d)}
           d == Deepest(complete)
           lines == LinesAt(infos, d)
<1>1. CompleteVariations(infos, count) = IF complete = {} THEN <<>> ELSE LinesAt(infos, Deepest(complete))
  BY DEF CompleteVariations
<1>2. complete # {} /\ CompleteVariations(infos, count) = lines
  BY <1>1
<1>3. good(d)
  <2>1. PICK bound \in Nat : \A e \in Depths(infos) : e \in Nat /\ e <= bound
    BY DepthsBounded
  <2>2. complete \in SUBSET Nat /\ \A e \in complete : e <= bound
    BY <2>1
  <2>3. d \in complete
    <3> HIDE DEF complete
    <3> QED BY <1>2, <2>2, Greatest
  <2> QED BY <2>3
<1>4. lines = [k \in DOMAIN lines |-> lines[k]]
  <2> HIDE DEF d
  <2> QED BY DEF LinesAt
<1>5. \A i, j \in 1 .. count : lines[i].move = lines[j].move => i = j
  <2> DEFINE D == 1 .. count
             R == Roots(lines)
             f == [k \in D |-> lines[k].move]
  <2>1. R = {lines[k].move : k \in D} /\ Cardinality(R) = count
    BY <1>3 DEF Roots
  <2>2. IsFiniteSet(D) /\ Cardinality(D) = count
    <3>1. Cardinality(1 .. count) = IF 1 > count THEN 0 ELSE count - 1 + 1
      BY FS_Interval
    <3> QED BY <3>1, FS_Interval
  <2>3. \A k \in D : f[k] = lines[k].move
    OBVIOUS
  <2>4. f \in [D -> R] /\ \A r \in R : \E k \in D : f[k] = r
    <3> HIDE DEF D
    <3> QED BY <2>1, <2>3
  <2> HIDE DEF R, f, D, lines
  <2>5. f \in Surjection(D, R)
    BY <2>4 DEF Surjection
  <2>6. f \in Injection(D, R)
    BY <2>1, <2>2, <2>5, FS_SurjSameCardinalityImpliesInj
  <2>7. \A i, j \in D : f[i] = f[j] => i = j
    BY <2>4, <2>6 DEF Injection, IsInjective
  <2> QED BY <2>3, <2>7 DEF D
<1>6. lines = [k \in 1 .. count |-> lines[k]]
  BY <1>3, <1>4
<1> HIDE DEF lines
<1> QED BY <1>2, <1>5, <1>6

LEMMA AnalysedIsDifferent ==
    ASSUME NEW board, BoardKnown(board), NEW nodes \in Nodes, Analysed(board, nodes) # <<>>
    PROVE  LET lines == Analysed(board, nodes)
           IN  /\ lines \in Seq({lines[k] : k \in DOMAIN lines})
               /\ Len(lines) >= 1
               /\ \A i, j \in DOMAIN lines : lines[i].move = lines[j].move => i = j
<1> DEFINE infos == Streams[board.name][nodes]
           count == Least(3, board.replies)
           lines == Analysed(board, nodes)
<1>1. IsList(infos) /\ \A info \in ToSet(infos) : info.depth \in Nat
  BY DEF BoardKnown
<1>2. count \in Nat
  BY DEF BoardKnown, Least
<1>3. lines = CompleteVariations(infos, count) /\ lines # <<>>
  BY DEF Analysed
<1> HIDE DEF infos, count, lines
<1>4. /\ lines = [k \in 1 .. count |-> lines[k]]
      /\ \A i, j \in 1 .. count : lines[i].move = lines[j].move => i = j
  BY <1>1, <1>2, <1>3, CompleteIsDifferent
<1>5. DOMAIN lines = 1 .. count
  BY <1>4
<1>6. lines \in Seq({lines[k] : k \in DOMAIN lines}) /\ Len(lines) = count
  <2> DEFINE S == {lines[k] : k \in DOMAIN lines}
  <2>1. \A k \in 1 .. count : lines[k] \in S
    BY <1>5
  <2> HIDE DEF S
  <2>2. lines \in Seq(S)
    BY <1>2, <1>4, <2>1
  <2>3. Len(lines) = count
    BY <1>2, <1>5, <2>2
  <2> QED BY <2>2, <2>3 DEF S
<1>7. count # 0
  BY <1>3, <1>6
<1> QED BY <1>2, <1>4, <1>5, <1>6, <1>7 DEF lines

\* A position with what the engine says of it is an item as the rules want it.
LEMMA ItemIsSound ==
    ASSUME NEW board, BoardKnown(board), NEW nodes \in Nodes, Analysed(board, nodes) # <<>>,
           NEW game, NEW kind, NEW mating,
           ~PositionRaises(MakeRow(board, game, kind, mating))
    PROVE  Sound(Item(MakeRow(board, game, kind, mating), Analysed(board, nodes)))
<1> DEFINE lines == Analysed(board, nodes)
           row   == MakeRow(board, game, kind, mating)
           moves == [k \in DOMAIN lines |-> lines[k].move]
           item  == Item(row, lines)
<1>1. /\ lines \in Seq({lines[k] : k \in DOMAIN lines})
      /\ Len(lines) >= 1
      /\ \A i, j \in DOMAIN lines : lines[i].move = lines[j].move => i = j
  BY AnalysedIsDifferent
<1> HIDE DEF lines
<1>2. DOMAIN lines = 1 .. Len(lines) /\ Len(lines) \in Nat
  BY <1>1
<1>3. moves \in Seq({lines[k].move : k \in DOMAIN lines}) /\ Len(moves) = Len(lines)
  BY <1>2
<1>4. moves # <<>> /\ Head(moves) = lines[1].move
  BY <1>1, <1>2, <1>3
<1>5. IsInjective(moves)
  BY <1>1 DEF IsInjective
<1>6. item.position = row /\ item.evaluation.position = row.id
      /\ item.evaluation.moves = moves /\ item.evaluation.best = lines[1].move
  BY DEF Item
<1>7. /\ DOMAIN row = {"id", "board", "game", "kind", "phase", "split", "mating"}
      /\ row.id = <<row.game, row.board.name>> /\ row.board.turn \in Colors
  BY DEF MakeRow, BoardKnown
<1> HIDE DEF row, moves, item
<1>8. Sound(item)
  BY <1>4, <1>5, <1>6, <1>7 DEF Sound, row
<1> QED BY <1>8 DEF item, row, lines

----------------------------------------------------------------------------
(* What reading a record may give to accept.                               *)

\* The places of a sequence that some phase, round after round, puts in order.
LEMMA CandidatesAreEligible ==
    ASSUME NEW known, NEW game, NEW boards, IsList(boards), Shuffles(game, boards)
    PROVE  LET chosen == Candidates(known, game, boards)
           IN  /\ Len(chosen) \in Nat /\ DOMAIN chosen = 1 .. Len(chosen)
               /\ \A k \in DOMAIN chosen :
                     \E i \in DOMAIN boards : chosen[k] = boards[i] /\ Eligible(known, boards[i])
<1> DEFINE kept      == {i \in DOMAIN boards : Eligible(known, boards[i])}
           place     == Shuffled(game, kept)
           turn(i)   == CASE PhaseOf(boards[i]) = "endgame" -> 1
                          [] PhaseOf(boards[i]) = "middlegame" -> 2
                          [] OTHER -> 3
           peers(i)  == {j \in kept : place[j] < place[i] /\ turn(j) = turn(i)}
           round(i)  == Cardinality(peers(i))
           before(i) == {j \in kept : \/ round(j) < round(i)
                                      \/ round(j) = round(i) /\ turn(j) < turn(i)}
           nth(k)    == CHOOSE i \in kept : Cardinality(before(i)) = k - 1
           size      == Least(6, Cardinality(kept))
           chosen    == [k \in 1 .. size |-> boards[nth(k)]]
<1>1. Candidates(known, game, boards) = chosen
  BY DEF Candidates, Sampled
<1>2. DOMAIN boards = 1 .. Len(boards) /\ Len(boards) \in Nat
  BY DEF IsList
<1>3. IsFiniteSet(kept) /\ Cardinality(kept) \in Nat
  <2>1. kept \in SUBSET (1 .. Len(boards))
    BY <1>2
  <2>2. IsFiniteSet(1 .. Len(boards))
    BY <1>2, FS_Interval
  <2> HIDE DEF kept
  <2>3. IsFiniteSet(kept)
    BY <2>1, <2>2, FS_Subset
  <2> QED BY <2>3, FS_CardinalityType
<1>16. /\ \A i \in kept : place[i] \in Nat
       /\ \A i, j \in kept : place[i] = place[j] => i = j
  <2>1. kept \in SUBSET DOMAIN boards
    OBVIOUS
  <2> HIDE DEF kept
  <2>2. place \in Injection(kept, Nat)
    BY <2>1 DEF Shuffles
  <2> HIDE DEF place
  <2> QED BY <2>2 DEF Injection, IsInjective
<1> HIDE DEF place
<1>4. ASSUME NEW i \in kept
      PROVE  round(i) \in Int /\ turn(i) \in Int
  <2> HIDE DEF kept
  <2>1. peers(i) \in SUBSET kept
    OBVIOUS
  <2>2. IsFiniteSet(peers(i))
    BY <1>3, <2>1, FS_Subset
  <2>3. round(i) \in Int
    <3> HIDE DEF peers
    <3>1. Cardinality(peers(i)) \in Nat
      BY <2>2, FS_CardinalityType
    <3> QED BY <3>1
  <2>4. turn(i) \in Int
    OBVIOUS
  <2> QED BY <2>3, <2>4
<1>5. ASSUME NEW i \in kept, NEW j \in kept, turn(i) = turn(j), place[i] < place[j]
      PROVE  round(i) < round(j)
  <2> HIDE DEF kept, turn
  <2>1. peers(i) \in SUBSET peers(j) /\ i \in peers(j) /\ i \notin peers(i)
    BY <1>5, <1>16
  <2>2. peers(j) \in SUBSET kept
    OBVIOUS
  <2> HIDE DEF peers
  <2>3. IsFiniteSet(peers(j))
    BY <1>3, <2>2, FS_Subset
  <2>4. Cardinality(peers(i)) <= Cardinality(peers(j)) /\ Cardinality(peers(i)) # Cardinality(peers(j))
    BY <2>1, <2>3, FS_Subset
  <2>5. Cardinality(peers(i)) \in Int /\ Cardinality(peers(j)) \in Int
    BY <1>4
  <2> QED BY <2>4, <2>5
<1> HIDE DEF kept, turn, round
<1> DEFINE B == [i \in kept |-> before(i)]
<1>6. B \in [kept -> SUBSET kept]
  OBVIOUS
<1>7. \A i \in kept : i \notin B[i]
  BY <1>4
<1>8. \A i, j \in kept : j \in B[i] => B[j] \subseteq B[i]
  BY <1>4
<1>9. \A i, j \in kept : i # j => i \in B[j] \/ j \in B[i]
  <2> SUFFICES ASSUME NEW i \in kept, NEW j \in kept, i # j, i \notin B[j], j \notin B[i]
               PROVE  FALSE
    OBVIOUS
  <2>1. round(i) = round(j) /\ turn(i) = turn(j)
    BY <1>4
  <2>2. place[i] < place[j] \/ place[j] < place[i]
    BY <1>16
  <2> QED BY <1>4, <1>5, <2>1, <2>2
<1>10. \A k \in 1 .. Cardinality(kept) : \E i \in kept : Cardinality(B[i]) = k - 1
  <2> HIDE DEF B
  <2> QED BY <1>3, <1>6, <1>7, <1>8, <1>9, Ranked
<1>11. \A k \in 1 .. Cardinality(kept) : nth(k) \in kept
  <2>1. \A i \in kept : B[i] = before(i)
    OBVIOUS
  <2> HIDE DEF before, B
  <2> QED BY <1>10, <2>1
<1>12. size \in Nat /\ \A k \in 1 .. size : k \in 1 .. Cardinality(kept)
  BY <1>3 DEF Least
<1> HIDE DEF nth, size
<1>13. \A k \in 1 .. size : chosen[k] = boards[nth(k)] /\ nth(k) \in kept
  BY <1>11, <1>12
<1>14. Len(chosen) = size /\ DOMAIN chosen = 1 .. size
  BY <1>12
<1> HIDE DEF chosen
<1>15. \A k \in DOMAIN chosen :
         \E i \in DOMAIN boards : chosen[k] = boards[i] /\ Eligible(known, boards[i])
  BY <1>13, <1>14 DEF kept
<1> QED BY <1>1, <1>12, <1>14, <1>15

\* seen[n] is what the first n boards came to.
Looks(seen, boards, game, broken, n) ==
    seen = [i \in 0 .. n |->
              IF i = 0 THEN Passed(<<>>) ELSE Examine(seen[i - 1], boards[i], game, broken)]

LEMMA LooksExists ==
    ASSUME NEW boards, NEW game, NEW broken
    PROVE  \A n \in Nat : \E seen : Looks(seen, boards, game, broken, n)
<1> DEFINE S == {n \in Nat : \E seen : Looks(seen, boards, game, broken, n)}
           next(x, i) == Examine(x, boards[i], game, broken)
<1>0. \A seen, n : Looks(seen, boards, game, broken, n) <=>
                      seen = [i \in 0 .. n |-> IF i = 0 THEN Passed(<<>>) ELSE next(seen[i - 1], i)]
  BY DEF Looks
<1> HIDE DEF next
<1>1. 0 \in S
  <2> DEFINE seen == [i \in 0 .. 0 |-> Passed(<<>>)]
  <2>1. seen = [i \in 0 .. 0 |-> IF i = 0 THEN Passed(<<>>) ELSE next(seen[i - 1], i)]
    OBVIOUS
  <2> HIDE DEF seen
  <2> QED BY <1>0, <2>1
<1>2. ASSUME NEW n \in Nat, n \in S PROVE n + 1 \in S
  <2>1. PICK seen : Looks(seen, boards, game, broken, n)
    BY <1>2
  <2> DEFINE more == [i \in 0 .. n + 1 |-> IF i <= n THEN seen[i] ELSE next(seen[n], n + 1)]
  <2>2. ASSUME NEW i \in 0 .. n + 1
        PROVE  more[i] = IF i = 0 THEN Passed(<<>>) ELSE next(more[i - 1], i)
    <3>1. CASE i = n + 1
      <4>1. i # 0 /\ i - 1 = n /\ ~(i <= n) /\ n \in 0 .. n + 1
        BY <3>1
      <4>2. more[i] = next(seen[n], n + 1) /\ more[n] = seen[n]
        BY <3>1, <4>1
      <4> HIDE DEF more
      <4> QED BY <3>1, <4>1, <4>2
    <3>2. CASE i # n + 1
      <4>1. i \in 0 .. n /\ (i # 0 => i - 1 \in 0 .. n /\ i - 1 \in 0 .. n + 1)
        BY <3>2
      <4>2. seen[i] = IF i = 0 THEN Passed(<<>>) ELSE next(seen[i - 1], i)
        BY <1>0, <2>1, <4>1
      <4>3. more[i] = seen[i] /\ (i # 0 => more[i - 1] = seen[i - 1])
        BY <4>1
      <4> HIDE DEF more
      <4> QED BY <4>2, <4>3
    <3> QED BY <3>1, <3>2
  <2>3. more = [i \in 0 .. n + 1 |-> more[i]]
    OBVIOUS
  <2> HIDE DEF more
  <2>4. more = [i \in 0 .. n + 1 |-> IF i = 0 THEN Passed(<<>>) ELSE next(more[i - 1], i)]
    BY <2>2, <2>3
  <2>5. Looks(more, boards, game, broken, n + 1)
    BY <1>0, <2>4
  <2> QED BY <2>5
<1> HIDE DEF S
<1>3. \A n \in Nat : n \in S
  BY <1>1, <1>2, SetInduction
<1> QED BY <1>3 DEF S

\* A quiet item comes from one of the boards, after a thorough look at it.
FromBoard(item, board, game) ==
    /\ item = Item(MakeRow(board, game, "quiet", FALSE), Analysed(board, "reference"))
    /\ ~PositionRaises(item.position)
    /\ ~Rejected(Analysed(board, "reference"))

LEMMA ExamineFromBoard ==
    ASSUME NEW seen, NEW board, NEW game, NEW broken,
           Examine(seen, board, game, broken).end = "accepted", seen.end # "accepted"
    PROVE  FromBoard(Examine(seen, board, game, broken).item, board, game)
<1> DEFINE item == Item(MakeRow(board, game, "quiet", FALSE), Analysed(board, "reference"))
           seen1 == Examine(seen, board, game, broken)
<1>1. \A keys : Passed(keys).end # "accepted" /\ GivesUp(keys).end # "accepted"
  BY DEF Passed, GivesUp
<1>2. \E keys : seen1 = Accepts(keys, item) /\ ~Rejected(Analysed(board, "reference"))
  BY <1>1 DEF Examine
<1>3. PICK keys : seen1 = Accepts(keys, item)
  BY <1>2
<1> HIDE DEF seen1, item
<1>4. ~PositionRaises(item.position) /\ seen1.item = item
  BY <1>1, <1>3 DEF Accepts, seen1
<1> QED BY <1>2, <1>4 DEF FromBoard, seen1, item

LEMMA ScreenedFromBoard ==
    ASSUME NEW boards, Len(boards) \in Nat, NEW game, NEW broken,
           Screened(boards, game, broken).end = "accepted"
    PROVE  \E i \in 1 .. Len(boards) :
              FromBoard(Screened(boards, game, broken).item, boards[i], game)
<1> DEFINE last == Len(boards)
           seen == CHOOSE s : Looks(s, boards, game, broken, last)
           S == {n \in Nat : n <= last /\ seen[n].end = "accepted" =>
                                \E i \in 1 .. last : FromBoard(seen[n].item, boards[i], game)}
<1>1. Screened(boards, game, broken) = seen[last]
  BY DEF Screened, Looks
<1>2. Looks(seen, boards, game, broken, last)
  BY LooksExists
<1> HIDE DEF seen
<1>3. 0 \in S
  <2>1. seen[0] = Passed(<<>>)
    BY <1>2 DEF Looks
  <2> QED BY <2>1 DEF Passed
<1>4. ASSUME NEW n \in Nat, n \in S PROVE n + 1 \in S
  <2> SUFFICES ASSUME n + 1 <= last, seen[n + 1].end = "accepted"
               PROVE  \E i \in 1 .. last : FromBoard(seen[n + 1].item, boards[i], game)
    OBVIOUS
  <2>1. seen[n + 1] = Examine(seen[n], boards[n + 1], game, broken)
    <3>1. n + 1 \in 0 .. last /\ (n + 1) - 1 = n /\ n + 1 # 0
      OBVIOUS
    <3> QED BY <1>2, <3>1 DEF Looks
  <2>2. CASE seen[n].end = "accepted"
    <3>1. seen[n + 1] = seen[n]
      BY <2>1, <2>2 DEF Examine
    <3> QED BY <1>4, <2>2, <3>1
  <2>3. CASE seen[n].end # "accepted"
    BY <2>1, <2>3, ExamineFromBoard
  <2> QED BY <2>2, <2>3
<1> HIDE DEF S
<1>5. last \in S
  BY <1>3, <1>4, SetInduction
<1> QED BY <1>1, <1>5 DEF S

\* What a record may be: the boards it shows have an analysis.
RecordOK(kind, record) ==
    /\ kind = "quiet" => IsList(record.boards) /\ Shuffles(record.game, record.boards)
    /\ \A board \in BoardsOf(kind, record) : BoardKnown(board)

LEMMA MatesAreCounted ==
    ASSUME NEW items, IsList(items), NEW phase
    PROVE  MatesIn(items, phase) \in Nat
<1> DEFINE A == {i \in DOMAIN items : /\ items[i].position.phase = phase
                                     /\ items[i].position.kind = "tactical"
                                     /\ items[i].position.mating}
<1>1. MatesIn(items, phase) = Cardinality(A)
  BY DEF MatesIn, Rows
<1>2. A \in SUBSET (1 .. Len(items)) /\ Len(items) \in Nat
  BY DEF IsList
<1>3. IsFiniteSet(A)
  <2> HIDE DEF A
  <2>1. IsFiniteSet(1 .. Len(items))
    BY <1>2, FS_Interval
  <2> QED BY <1>2, <2>1, FS_Subset
<1> QED BY <1>1, <1>3, FS_CardinalityType

LEMMA PuzzleJoins ==
    ASSUME NEW mem, IsList(mem.held), NEW p, RecordOK("tactical", p), NEW broken,
           Puzzle(mem, p, broken).end = "accepted"
    PROVE  LET item == Puzzle(mem, p, broken).item
           IN  Joins(item, mem.held, mem.known) /\ item.position.kind = "tactical"
<1> DEFINE lines == Analysed(p.board, "reference")
           row   == MakeRow(p.board, p.game, "tactical", "mate" \in p.themes)
           item  == Item(row, lines)
           read  == Puzzle(mem, p, broken)
<1>1. \A keys : Passed(keys).end # "accepted" /\ GivesUp(keys).end # "accepted"
  BY DEF Passed, GivesUp
<1>2. WantedPuzzle(mem, p) /\ lines # <<>> /\ \E keys : read = Accepts(keys, item)
  BY <1>1 DEF Puzzle
<1>3. PICK keys : read = Accepts(keys, item)
  BY <1>2
<1>4. BoardKnown(p.board)
  BY DEF RecordOK, BoardsOf
<1>5. item.position = row
  BY DEF Item
<1> HIDE DEF read, item, lines
<1>6. ~PositionRaises(row) /\ read.item = item
  BY <1>1, <1>3, <1>5 DEF Accepts, read
<1>7. Sound(item)
  BY <1>2, <1>4, <1>6, ItemIsSound DEF lines, item, Nodes
<1>8. /\ row.game = p.game /\ row.board = p.board /\ row.kind = "tactical"
      /\ row.mating = ("mate" \in p.themes) /\ row.phase = PhaseOf(p.board)
  BY DEF MakeRow
<1> HIDE DEF row
<1>9. row.game \notin mem.known.games /\ row.board.key \notin mem.known.boards
  BY <1>2, <1>8 DEF WantedPuzzle, Taken
<1>10. row.mating => MatesIn(mem.held, row.phase) < Quotas[<<row.phase, "tactical">>]
  <2> DEFINE q == Quotas[<<PhaseOf(p.board), "tactical">>]
             m == MatesIn(mem.held, PhaseOf(p.board))
  <2>1. <<PhaseOf(p.board), "tactical">> \in DOMAIN Quotas
    BY <1>6, <1>8 DEF PositionRaises
  <2>2. q \in Nat
    BY <2>1, QuotaAssumption
  <2>3. "mate" \in p.themes => ~(m >= q)
    BY <1>2 DEF WantedPuzzle
  <2>4. m \in Nat
    BY MatesAreCounted
  <2> HIDE DEF q, m
  <2>5. "mate" \in p.themes => m < q
    BY <2>2, <2>3, <2>4
  <2> QED BY <1>8, <2>5 DEF q, m
<1> QED BY <1>5, <1>6, <1>7, <1>8, <1>9, <1>10 DEF Joins, read

LEMMA QuietJoins ==
    ASSUME NEW mem, NEW g, RecordOK("quiet", g), NEW broken,
           QuietGame(mem, g, broken).end = "accepted"
    PROVE  LET item == QuietGame(mem, g, broken).item
           IN  Joins(item, mem.held, mem.known) /\ item.position.kind = "quiet"
<1> DEFINE boards == Candidates(mem.known, g.game, g.boards)
           item   == Screened(boards, g.game, broken).item
<1>1. \A keys : Passed(keys).end # "accepted" /\ GivesUp(keys).end # "accepted"
  BY DEF Passed, GivesUp
<1>2. /\ QuietGame(mem, g, broken) = Screened(boards, g.game, broken)
      /\ g.game \notin mem.known.games
  BY <1>1 DEF QuietGame
<1>3. /\ Len(boards) \in Nat /\ DOMAIN boards = 1 .. Len(boards)
      /\ \A k \in DOMAIN boards :
            \E i \in DOMAIN g.boards : boards[k] = g.boards[i] /\ Eligible(mem.known, g.boards[i])
  BY CandidatesAreEligible DEF RecordOK
<1> HIDE DEF boards
<1>4. PICK k \in 1 .. Len(boards) : FromBoard(item, boards[k], g.game)
  BY <1>2, <1>3, ScreenedFromBoard
<1>5. PICK i \in DOMAIN g.boards : boards[k] = g.boards[i] /\ Eligible(mem.known, g.boards[i])
  BY <1>3
<1> HIDE DEF item
<1> DEFINE board == g.boards[i]
           lines == Analysed(board, "reference")
           row   == MakeRow(board, g.game, "quiet", FALSE)
<1>6. /\ item = Item(row, lines)
      /\ ~PositionRaises(item.position)
      /\ ~Rejected(lines)
  BY <1>4, <1>5 DEF FromBoard
<1>7. item.position = row
  BY <1>6 DEF Item
<1>8. /\ row.game = g.game /\ row.board = board /\ row.kind = "quiet" /\ row.mating = FALSE
  BY DEF MakeRow
<1>9. BoardKnown(board)
  BY DEF RecordOK, BoardsOf, ToSet
<1>10. lines # <<>>
  <2>1. lines = <<>> => Len(lines) = 0
    OBVIOUS
  <2> HIDE DEF lines
  <2> QED BY <1>6, <2>1 DEF Rejected
<1>11. Sound(item)
  BY <1>6, <1>7, <1>9, <1>10, ItemIsSound DEF Nodes
<1>12. board.key \notin mem.known.boards
  BY <1>5 DEF Eligible
<1> HIDE DEF board, row, lines
<1> QED BY <1>2, <1>7, <1>8, <1>11, <1>12 DEF Joins, item

\* Whatever is read: what it gives to accept may join what is held.
LEMMA ReadJoins ==
    ASSUME NEW mem, IsList(mem.held), NEW kind \in Kinds, NEW record, RecordOK(kind, record),
           NEW broken, Read(kind, mem, record, broken).end = "accepted"
    PROVE  LET item == Read(kind, mem, record, broken).item
           IN  Joins(item, mem.held, mem.known) /\ item.position.kind = kind
<1>1. CASE kind = "tactical"
  BY <1>1, PuzzleJoins DEF Read
<1>2. CASE kind = "quiet"
  BY <1>2, QuietJoins DEF Read
<1> QED BY <1>1, <1>2 DEF Kinds

----------------------------------------------------------------------------
(* The curator, from one state to the next.                                *)

\* Its places are places of the sources.
PlaceOK ==
    /\ at = [kind |-> at.kind, page |-> at.page, row |-> at.row, file |-> at.file]
    /\ at.kind \in Kinds /\ at.page \in Nat /\ at.row \in Nat
    /\ resume \in Nat \X Nat
    /\ progress \in [Kinds -> Nat \X Nat]
    /\ memory = [held |-> memory.held, known |-> memory.known, cursors |-> memory.cursors]
    /\ memory.cursors \in [Kinds -> Nat \X Nat]
    /\ pc \in {"row", "accept", "mark"} => at.page < MaxPages

\* It holds what is on the disk, and counts what it holds.
HeldOK ==
    /\ Selection(selected)
    /\ pc # "off" => memory.held = selected /\ memory.known = Tracked(selected)
    /\ pc = "accept" => /\ Joins(found, selected, Tracked(selected))
                        /\ found.position.kind = at.kind

\* It leaves a kind when its quotas are full.
FullOK ==
    /\ pc # "off" /\ at.kind = "quiet" => Complete(memory.known, "tactical")
    /\ pc \in {"save", "open", "fill"} => \A kind \in Kinds : Complete(memory.known, kind)

CuratorOK == PlaceOK /\ HeldOK /\ FullOK

LEMMA CuratorBegins == Init => CuratorOK
<1> SUFFICES ASSUME Init PROVE CuratorOK
  OBVIOUS
<1>1. /\ selected = <<>> /\ progress = Origin /\ pc = "off" /\ at = Start /\ resume = <<0, 0>>
      /\ memory = Loaded(<<>>, Origin)
  BY DEF Init, InitCuration
<1>2. Origin \in [Kinds -> Nat \X Nat]
  BY DEF Origin
<1>3. PlaceOK
  BY <1>1, <1>2 DEF PlaceOK, Start, Loaded, Kinds
<1>4. HeldOK
  BY <1>1, SelectionBegins DEF HeldOK
<1>5. FullOK
  BY <1>1 DEF FullOK
<1> QED BY <1>3, <1>4, <1>5 DEF CuratorOK

\* With no process, only the disk is left.
LEMMA HaltKeepsCurator ==
    ASSUME CuratorOK, Halt, UNCHANGED <<selected, progress>>
    PROVE  CuratorOK'
<1>1. pc' = "off" /\ at' = Start /\ resume' = <<0, 0>> /\ memory' = Loaded(<<>>, Origin)
  BY DEF Halt
<1>2. Origin \in [Kinds -> Nat \X Nat]
  BY DEF Origin
<1>3. PlaceOK'
  <2>1. progress' \in [Kinds -> Nat \X Nat]
    BY DEF CuratorOK, PlaceOK
  <2> QED BY <1>1, <1>2, <2>1 DEF PlaceOK, Start, Loaded, Kinds
<1>4. HeldOK'
  BY <1>1 DEF CuratorOK, HeldOK
<1>5. FullOK'
  BY <1>1 DEF FullOK
<1> QED BY <1>3, <1>4, <1>5 DEF CuratorOK

\* The record read next is one of its source.
LEMMA RecordHereOK ==
    ASSUME CuratorOK, pc \in {"row", "accept", "mark"}, at.row < Len(PageHere)
    PROVE  RecordOK(at.kind, RecordHere)
<1>1. at.kind \in Kinds /\ at.page \in Nat /\ at.page < MaxPages /\ at.row \in Nat
  BY DEF CuratorOK, PlaceOK
<1> DEFINE order  == PageOrder[at.kind]
           offset == order[at.page + 1]
           page   == PageRows[at.kind][offset]
<1>2. /\ IsList(order) /\ Len(order) >= MaxPages /\ MaxPages \in Nat
      /\ \A x \in ToSet(order) :
            /\ IsList(PageRows[at.kind][x])
            /\ \A record \in ToSet(PageRows[at.kind][x]) :
                  /\ at.kind = "quiet" => IsList(record.boards) /\ Shuffles(record.game, record.boards)
                  /\ \A board \in BoardsOf(at.kind, record) : BoardKnown(board)
  BY <1>1, CurationAssumption
<1> HIDE DEF order
<1>3. at.page + 1 \in DOMAIN order
  BY <1>1, <1>2 DEF IsList
<1>4. offset \in ToSet(order)
  BY <1>3 DEF ToSet
<1>5. IsList(page) /\ at.row + 1 \in DOMAIN page
  <2>1. IsList(page)
    BY <1>2, <1>4
  <2>2. page = PageHere
    BY DEF PageHere, order
  <2>3. at.row + 1 \in 1 .. Len(page) /\ Len(page) \in Nat
    <3> HIDE DEF page
    <3> QED BY <1>1, <2>1, <2>2 DEF IsList
  <2> HIDE DEF page
  <2> QED BY <2>1, <2>3 DEF IsList
<1>6. page[at.row + 1] \in ToSet(page)
  BY <1>5 DEF ToSet
<1>7. RecordHere = page[at.row + 1]
  BY DEF RecordHere, PageHere, order
<1> HIDE DEF page
<1> QED BY <1>2, <1>4, <1>6, <1>7 DEF RecordOK, page

\* What moves the place and leaves the items alone.
LEMMA ElsewhereKeepsCurator ==
    ASSUME CuratorOK, PlaceOK', UNCHANGED selected, pc' \notin {"accept", "save", "open", "fill"},
           pc # "off", memory'.held = memory.held, memory'.known = memory.known,
           at'.kind = at.kind \/ (at'.kind = "quiet" => Complete(memory.known, "tactical"))
    PROVE  CuratorOK'
<1>1. HeldOK'
  BY DEF CuratorOK, HeldOK
<1>2. FullOK'
  BY DEF CuratorOK, FullOK, Complete
<1> QED BY <1>1, <1>2 DEF CuratorOK

LEMMA CheckpointKeepsPlace ==
    ASSUME PlaceOK, NEW page \in Nat, NEW row \in Nat, Checkpoint(page, row)
    PROVE  /\ progress' \in [Kinds -> Nat \X Nat]
           /\ memory'.held = memory.held /\ memory'.known = memory.known
           /\ memory' = [held |-> memory'.held, known |-> memory'.known, cursors |-> memory'.cursors]
           /\ memory'.cursors = progress'
<1> DEFINE cursors == memory.cursors
           moved   == [cursors EXCEPT ![at.kind] = <<page, row>>]
<1>1. memory = [held |-> memory.held, known |-> memory.known, cursors |-> cursors]
      /\ cursors \in [Kinds -> Nat \X Nat]
  BY DEF PlaceOK
<1>2. memory' = [memory EXCEPT !.cursors = moved] /\ progress' = memory'.cursors
  BY DEF Checkpoint
<1>3. moved \in [Kinds -> Nat \X Nat]
  BY <1>1
<1> HIDE DEF moved, cursors
<1>4. memory' = [held |-> memory.held, known |-> memory.known, cursors |-> moved]
  BY <1>1, <1>2
<1> QED BY <1>2, <1>3, <1>4

LEMMA CuratorKept == CuratorOK /\ [Next]_vars => CuratorOK'
<1> SUFFICES ASSUME CuratorOK, [Next]_vars PROVE CuratorOK'
  OBVIOUS
<1>1. PlaceOK /\ HeldOK /\ FullOK
  BY DEF CuratorOK
<1>2. /\ at = [kind |-> at.kind, page |-> at.page, row |-> at.row, file |-> at.file]
      /\ at.kind \in Kinds /\ at.page \in Nat /\ at.row \in Nat
      /\ resume \in Nat \X Nat
      /\ progress \in [Kinds -> Nat \X Nat]
      /\ memory = [held |-> memory.held, known |-> memory.known, cursors |-> memory.cursors]
      /\ memory.cursors \in [Kinds -> Nat \X Nat]
      /\ pc \in {"row", "accept", "mark"} => at.page < MaxPages
  BY <1>1 DEF PlaceOK
<1>3. ASSUME UNCHANGED <<selected, progress, pc, at, resume, memory, found>> PROVE CuratorOK'
  <2>1. PlaceOK'
    BY <1>1, <1>3 DEF PlaceOK
  <2>2. HeldOK'
    BY <1>1, <1>3 DEF HeldOK
  <2>3. FullOK'
    BY <1>1, <1>3 DEF FullOK, Complete
  <2> QED BY <2>1, <2>2, <2>3 DEF CuratorOK
<1>4. CASE CurationNext
  <2>1. ASSUME NEW d \in Dirs, Launch(d) PROVE CuratorOK'
    <3>1. /\ pc' = "kind" /\ memory' = Loaded(selected, progress) /\ at' = [at EXCEPT !.kind = "tactical"]
          /\ UNCHANGED <<selected, progress, resume, found>>
      BY <2>1 DEF Launch, disk
    <3>2. at' = [kind |-> "tactical", page |-> at.page, row |-> at.row, file |-> at.file]
      BY <1>2, <3>1
    <3>3. PlaceOK'
      BY <1>2, <3>1, <3>2 DEF PlaceOK, Loaded, Kinds
    <3>4. HeldOK'
      BY <1>1, <3>1 DEF HeldOK, Loaded
    <3>5. FullOK'
      BY <3>1, <3>2 DEF FullOK
    <3> QED BY <3>3, <3>4, <3>5 DEF CuratorOK
  <2>2. CASE BeginKind
    <3>1. /\ pc = "kind" /\ pc' = "page" /\ resume' = memory.cursors[at.kind]
          /\ at' = [at EXCEPT !.page = memory.cursors[at.kind][1]]
          /\ UNCHANGED <<selected, progress, memory, found>>
      BY <2>2 DEF BeginKind
    <3>2. at' = [kind |-> at.kind, page |-> memory.cursors[at.kind][1], row |-> at.row, file |-> at.file]
      BY <1>2, <3>1
    <3>3. PlaceOK'
      BY <1>2, <3>1, <3>2 DEF PlaceOK
    <3> QED BY <3>1, <3>2, <3>3, ElsewhereKeepsCurator
  <2>3. CASE EndKind
    <3>1. /\ pc \in {"kind", "page"} /\ Complete(memory.known, at.kind)
          /\ UNCHANGED <<selected, progress, memory, found, resume>>
      BY <2>3 DEF EndKind, Full, disk
    <3>2. CASE at.kind = "tactical"
      <4>1. pc' = "kind" /\ at' = [at EXCEPT !.kind = "quiet"]
        BY <2>3, <3>2 DEF EndKind
      <4>2. at' = [kind |-> "quiet", page |-> at.page, row |-> at.row, file |-> at.file]
        BY <1>2, <4>1
      <4>3. PlaceOK'
        BY <1>2, <3>1, <4>1, <4>2 DEF PlaceOK, Kinds
      <4> QED BY <3>1, <3>2, <4>1, <4>2, <4>3, ElsewhereKeepsCurator
    <3>3. CASE at.kind # "tactical"
      <4>1. pc' = "save" /\ UNCHANGED at /\ at.kind = "quiet"
        BY <1>2, <2>3, <3>3 DEF EndKind, Kinds
      <4>2. PlaceOK'
        BY <1>2, <3>1, <4>1 DEF PlaceOK
      <4>3. HeldOK'
        BY <1>1, <3>1, <4>1 DEF HeldOK
      <4>4. \A kind \in Kinds : Complete(memory.known, kind)
        BY <1>1, <3>1, <4>1 DEF FullOK, Kinds
      <4>5. FullOK'
        BY <3>1, <4>1, <4>4 DEF FullOK, Complete, Kinds
      <4> QED BY <4>2, <4>3, <4>5 DEF CuratorOK
    <3> QED BY <3>2, <3>3
  <2>4. CASE BeginPage
    <3> DEFINE row == IF at.page = resume[1] THEN resume[2] ELSE 0
    <3>1. /\ pc = "page" /\ pc' = "row" /\ at' = [at EXCEPT !.row = row] /\ at.page < MaxPages
          /\ UNCHANGED <<selected, progress, memory, found, resume>>
      BY <2>4 DEF BeginPage
    <3>2. row \in Nat
      BY <1>2
    <3> HIDE DEF row
    <3>3. at' = [kind |-> at.kind, page |-> at.page, row |-> row, file |-> at.file]
      BY <1>2, <3>1
    <3>4. PlaceOK'
      BY <1>2, <3>1, <3>2, <3>3 DEF PlaceOK
    <3> QED BY <3>1, <3>3, <3>4, ElsewhereKeepsCurator
  <2>5. CASE PageUnavailable \/ EndPage
    <3>1. /\ pc \in {"page", "row"} /\ pc' = "page" /\ at' = [at EXCEPT !.page = @ + 1]
          /\ Checkpoint(at.page + 1, 0)
          /\ UNCHANGED <<selected, found, resume>>
      BY <2>5 DEF PageUnavailable, EndPage
    <3>2. at' = [kind |-> at.kind, page |-> at.page + 1, row |-> at.row, file |-> at.file]
      BY <1>2, <3>1
    <3>3. /\ progress' \in [Kinds -> Nat \X Nat]
          /\ memory'.held = memory.held /\ memory'.known = memory.known
          /\ memory' = [held |-> memory'.held, known |-> memory'.known, cursors |-> memory'.cursors]
          /\ memory'.cursors = progress'
      <4>1. at.page + 1 \in Nat /\ 0 \in Nat
        BY <1>2
      <4> QED BY <1>1, <3>1, <4>1, CheckpointKeepsPlace
    <3>4. PlaceOK'
      BY <1>2, <3>1, <3>2, <3>3 DEF PlaceOK
    <3> QED BY <3>1, <3>2, <3>3, <3>4, ElsewhereKeepsCurator
  <2>6. CASE ReadRecord
    <3>1. PICK reaching \in SUBSET CutOff :
             /\ pc = "row" /\ at.row < Len(PageHere)
             /\ found' = ReadHere(reaching).item
             /\ pc' = IF ReadHere(reaching).end = "accepted" THEN "accept" ELSE "mark"
             /\ UNCHANGED <<selected, progress, at, resume, memory>>
      BY <2>6 DEF ReadRecord, Take
    <3> DEFINE read == ReadHere(reaching)
    <3>2. PlaceOK'
      BY <1>2, <3>1 DEF PlaceOK
    <3>3. CASE read.end # "accepted"
      <4>1. pc' = "mark"
        BY <3>1, <3>3
      <4> QED BY <3>1, <3>2, <4>1, ElsewhereKeepsCurator
    <3>4. CASE read.end = "accepted"
      <4>1. pc' = "accept"
        BY <3>1, <3>4
      <4>2. memory.held = selected /\ memory.known = Tracked(selected) /\ Selection(selected)
        BY <1>1, <3>1 DEF HeldOK
      <4>3. IsList(memory.held)
        BY <4>2 DEF Selection, IsList, ToSet
      <4>4. Joins(read.item, memory.held, memory.known) /\ read.item.position.kind = at.kind
        <5>1. RecordOK(at.kind, RecordHere)
          BY <3>1, RecordHereOK
        <5>2. Read(at.kind, memory, RecordHere, spoilt \ reaching).end = "accepted"
          BY <3>4 DEF ReadHere
        <5> QED BY <1>2, <4>3, <5>1, <5>2, ReadJoins DEF ReadHere
      <4>5. HeldOK'
        <5>1. Joins(found', selected, Tracked(selected)) /\ found'.position.kind = at.kind
          BY <3>1, <4>2, <4>4
        <5> QED BY <3>1, <4>1, <4>2, <5>1 DEF HeldOK
      <4>6. FullOK'
        BY <1>1, <3>1, <4>1 DEF FullOK, Complete
      <4> QED BY <3>2, <4>5, <4>6 DEF CuratorOK
    <3> QED BY <3>3, <3>4
  <2>7. CASE ExportUnavailable
    <3>1. pc = "row" /\ pc' = "mark" /\ UNCHANGED <<selected, progress, at, resume, memory, found>>
      BY <2>7 DEF ExportUnavailable, disk
    <3>2. PlaceOK'
      BY <1>2, <3>1 DEF PlaceOK
    <3> QED BY <3>1, <3>2, ElsewhereKeepsCurator
  <2>8. CASE Accept
    <3>1. /\ pc = "accept" /\ pc' = "mark" /\ selected' = Append(selected, found)
          /\ memory' = Kept(memory, found)
          /\ UNCHANGED <<progress, at, resume>>
      BY <2>8 DEF Accept
    <3>2. /\ Selection(selected) /\ memory.held = selected /\ memory.known = Tracked(selected)
          /\ Joins(found, selected, Tracked(selected)) /\ found.position.kind = at.kind
      BY <1>1, <3>1 DEF HeldOK
    <3>3. /\ memory'.held = selected' /\ memory'.known = Track(memory.known, found.position)
          /\ memory'.cursors = memory.cursors
          /\ memory' = [held |-> memory'.held, known |-> memory'.known, cursors |-> memory'.cursors]
      BY <3>1, <3>2 DEF Kept
    <3>4. Selection(selected') /\ memory'.known = Tracked(selected')
      <4>1. Selection(selected')
        BY <3>1, <3>2, SelectionGrows
      <4>2. Tracked(selected') = Track(Tracked(selected), found.position)
        BY <3>1, <3>2, TrackedGrows DEF Selection
      <4> QED BY <3>2, <3>3, <4>1, <4>2
    <3>5. PlaceOK'
      BY <1>2, <3>1, <3>3 DEF PlaceOK
    <3>6. HeldOK'
      BY <3>1, <3>3, <3>4 DEF HeldOK
    <3>7. FullOK'
      <4> SUFFICES ASSUME at.kind = "quiet" PROVE Complete(memory'.known, "tactical")
        BY <3>1 DEF FullOK, Complete
      <4> DEFINE counts == memory.known.counts
      <4>1. Complete(memory.known, "tactical")
        BY <1>1, <3>1 DEF FullOK
      <4>2. counts = [side \in Sides |-> counts[side]]
        BY <3>2 DEF Selection, Counted
      <4>3. memory'.known.counts = [counts EXCEPT ![Bucket(found.position)] = @ + 1]
        BY <3>3 DEF Track
      <4>4. Bucket(found.position)[1][2] = "quiet"
        BY <3>2 DEF Bucket
      <4> HIDE DEF counts
      <4>5. ASSUME NEW bucket \in DOMAIN Quotas, NEW color \in Colors, bucket[2] = "tactical"
            PROVE  memory'.known.counts[<<bucket, color>>] = Quotas[bucket]
        <5>1. <<bucket, color>> # Bucket(found.position)
          BY <4>4, <4>5
        <5>2. memory'.known.counts[<<bucket, color>>] = counts[<<bucket, color>>]
          BY <4>2, <4>3, <5>1 DEF Sides
        <5>3. counts[<<bucket, color>>] = Quotas[bucket]
          BY <4>1, <4>5 DEF Complete, counts
        <5> QED BY <5>2, <5>3
      <4> QED BY <4>5 DEF Complete
    <3> QED BY <3>5, <3>6, <3>7 DEF CuratorOK
  <2>9. CASE MarkRecord
    <3>1. /\ pc = "mark" /\ pc' = "row" /\ at' = [at EXCEPT !.row = @ + 1]
          /\ Checkpoint(at.page, at.row + 1)
          /\ UNCHANGED <<selected, found, resume>>
      BY <2>9 DEF MarkRecord
    <3>2. at' = [kind |-> at.kind, page |-> at.page, row |-> at.row + 1, file |-> at.file]
      BY <1>2, <3>1
    <3>3. /\ progress' \in [Kinds -> Nat \X Nat]
          /\ memory'.held = memory.held /\ memory'.known = memory.known
          /\ memory' = [held |-> memory'.held, known |-> memory'.known, cursors |-> memory'.cursors]
          /\ memory'.cursors = progress'
      <4>1. at.row + 1 \in Nat
        BY <1>2
      <4> QED BY <1>1, <1>2, <3>1, <4>1, CheckpointKeepsPlace
    <3>4. PlaceOK'
      BY <1>2, <3>1, <3>2, <3>3 DEF PlaceOK
    <3> QED BY <3>1, <3>2, <3>3, <3>4, ElsewhereKeepsCurator
  <2>10. CASE BeginSave \/ OpenFile \/ (FillFile /\ at.file < Len(OutputFiles))
    <3>1. /\ pc \in {"save", "open", "fill"} /\ pc' \in {"save", "open", "fill"}
          /\ at' = at \/ \E n : at' = [at EXCEPT !.file = n]
          /\ UNCHANGED <<selected, progress, resume, memory, found>>
      BY <2>10 DEF BeginSave, OpenFile, FillFile, disk, process
    <3>2. at' = [kind |-> at.kind, page |-> at.page, row |-> at.row, file |-> at'.file]
      BY <1>2, <3>1
    <3>3. PlaceOK'
      BY <1>2, <3>1, <3>2 DEF PlaceOK
    <3>4. HeldOK'
      BY <1>1, <3>1 DEF HeldOK
    <3>5. FullOK'
      BY <1>1, <3>1, <3>2 DEF FullOK, Complete
    <3> QED BY <3>3, <3>4, <3>5 DEF CuratorOK
  <2>11. CASE (FillFile /\ ~(at.file < Len(OutputFiles))) \/ Exit \/ Crash \/ CrashInCache
    <3>1. Halt /\ UNCHANGED <<selected, progress>>
      BY <2>11 DEF FillFile, Exit, Crash, CrashInCache, disk
    <3> QED BY <3>1, HaltKeepsCurator
  <2> QED BY <1>4, <2>1, <2>2, <2>3, <2>4, <2>5, <2>6, <2>7, <2>8, <2>9, <2>10, <2>11 DEF CurationNext
<1>5. CASE \E i \in Importers :
             \/ \E d \in Dirs : Load(i, d)
             \/ Lock(i)
             \/ Insert(i) \/ InsertFails(i) \/ FindPresent(i) \/ Refuse(i)
  <2>1. UNCHANGED <<selected, progress, pc, at, resume, memory, found>>
    BY <1>5 DEF Load, Lock, Insert, InsertFails, FindPresent, Refuse, Report, curationVars, disk, process
  <2> QED BY <1>3, <2>1
<1>6. CASE UNCHANGED vars
  BY <1>3, <1>6 DEF vars, curationVars, disk, process
<1> QED BY <1>4, <1>5, <1>6 DEF Next

----------------------------------------------------------------------------
(* The split of a full selection.                                          *)

\* The same items in another order.
Rearranged(order, items) ==
    \E p \in Bijection(DOMAIN items, DOMAIN items) : order = [k \in DOMAIN items |-> items[p[k]]]

\* The first h members of a finite set of numbers, and the others.
LEMMA Halves ==
    ASSUME NEW P, IsFiniteSet(P), \A i \in P : i \in Nat,
           NEW h \in Nat, h <= Cardinality(P)
    PROVE  LET place(k) == Cardinality({j \in P : j < k})
           IN  /\ Cardinality({k \in P : place(k) < h}) = h
               /\ Cardinality({k \in P : ~(place(k) < h)}) = Cardinality(P) - h
<1> DEFINE before(k) == {j \in P : j < k}
           B == [k \in P |-> before(k)]
           first == {k \in P : Cardinality(before(k)) < h}
           others == {k \in P : ~(Cardinality(before(k)) < h)}
           q == Cardinality(P)
<1>1. q \in Nat
  BY FS_CardinalityType
<1>2. /\ B \in [P -> SUBSET P]
      /\ \A i \in P : i \notin B[i]
      /\ \A i, j \in P : j \in B[i] => B[j] \subseteq B[i]
      /\ \A i, j \in P : i # j => i \in B[j] \/ j \in B[i]
  <2>1. \A i, j \in P : i # j => i < j \/ j < i
    OBVIOUS
  <2> QED BY <2>1
<1>3. \A k \in P : B[k] = before(k)
  OBVIOUS
<1> HIDE DEF B
<1>4. /\ \A i \in P : Cardinality(B[i]) \in 0 .. q - 1
      /\ \A i, j \in P : Cardinality(B[i]) = Cardinality(B[j]) => i = j
      /\ \A k \in 1 .. q : \E i \in P : Cardinality(B[i]) = k - 1
  BY <1>2, Ranked
<1> HIDE DEF before, q
<1>5. /\ \A i \in P : Cardinality(before(i)) \in 0 .. q - 1
      /\ \A i, j \in P : Cardinality(before(i)) = Cardinality(before(j)) => i = j
      /\ \A k \in 1 .. q : \E i \in P : Cardinality(before(i)) = k - 1
  BY <1>3, <1>4
<1>6. IsFiniteSet(first) /\ Cardinality(first) = h
  <2> DEFINE D == 1 .. h
             f == [k \in first |-> Cardinality(before(k)) + 1]
  <2>1. IsFiniteSet(D) /\ Cardinality(D) = h
    <3>1. Cardinality(1 .. h) = IF 1 > h THEN 0 ELSE h - 1 + 1
      BY FS_Interval
    <3> QED BY <3>1, FS_Interval
  <2>2. \A k \in first : f[k] = Cardinality(before(k)) + 1 /\ f[k] \in D
    <3>1. \A k \in first : Cardinality(before(k)) \in Nat /\ Cardinality(before(k)) < h
      BY <1>1, <1>5
    <3> QED BY <3>1
  <2>3. f \in [first -> D]
    <3> HIDE DEF D, first
    <3> QED BY <2>2
  <2>4. \A i, j \in first : f[i] = f[j] => i = j
    <3>1. \A k \in first : Cardinality(before(k)) \in Int
      BY <1>1, <1>5
    <3>2. \A k \in first : k \in P /\ f[k] = Cardinality(before(k)) + 1
      BY <2>2
    <3> HIDE DEF f, first
    <3> QED BY <1>5, <3>1, <3>2
  <2>5. \A d \in D : \E k \in first : f[k] = d
    <3> SUFFICES ASSUME NEW d \in D PROVE \E k \in first : f[k] = d
      OBVIOUS
    <3>1. d \in 1 .. q
      BY <1>1 DEF q
    <3>2. PICK k \in P : Cardinality(before(k)) = d - 1
      BY <1>5, <3>1
    <3>3. k \in first /\ f[k] = d
      BY <1>1, <3>2
    <3> QED BY <3>3
  <2> HIDE DEF f, D, first
  <2>6. f \in Injection(first, D) /\ f \in Surjection(first, D)
    BY <2>3, <2>4, <2>5 DEF Injection, IsInjective, Surjection
  <2>7. IsFiniteSet(first)
    BY <2>1, <2>6, FS_Injection
  <2> QED BY <2>1, <2>6, <2>7, FS_Injection
<1>7. Cardinality(others) = q - h
  <2>1. others = P \ first /\ P \cap first = first
    OBVIOUS
  <2> HIDE DEF others, first
  <2> QED BY <1>6, <2>1, FS_Difference DEF q
<1> QED BY <1>6, <1>7 DEF before, q

LEMMA RearrangedIs ==
    ASSUME NEW items, Selection(items), NEW order, Rearranged(order, items)
    PROVE  /\ DOMAIN order = 1 .. Len(items) /\ Len(order) = Len(items) /\ Len(items) \in Nat
           /\ \A k \in DOMAIN order : Sound(order[k])
           /\ Different(order)
           /\ \A side : Cardinality(OfSide(order, side)) = Cardinality(OfSide(items, side))
<1> DEFINE n == Len(items)
<1>1. items \in Seq({items[i] : i \in DOMAIN items})
  BY DEF Selection
<1>2. n \in Nat /\ DOMAIN items = 1 .. n
  BY <1>1
<1>3. PICK p \in Bijection(1 .. n, 1 .. n) : order = [k \in 1 .. n |-> items[p[k]]]
  BY <1>2 DEF Rearranged
<1>4. /\ p \in [1 .. n -> 1 .. n]
      /\ \A i, j \in 1 .. n : p[i] = p[j] => i = j
      /\ \A i \in 1 .. n : \E j \in 1 .. n : p[j] = i
  BY <1>3 DEF Bijection, Injection, Surjection, IsInjective
<1>5. DOMAIN order = 1 .. n /\ \A k \in 1 .. n : order[k] = items[p[k]]
  BY <1>3
<1>6. Len(order) = n
  <2>1. order \in Seq({items[i] : i \in 1 .. n})
    BY <1>2, <1>3, <1>4
  <2> QED BY <1>2, <1>5, <2>1
<1> HIDE DEF n
<1>7. \A k \in DOMAIN order : Sound(order[k])
  BY <1>2, <1>4, <1>5 DEF Selection
<1>8. Different(order)
  <2>1. Different(items)
    BY DEF Selection
  <2>2. \A i, j \in 1 .. n : i # j => p[i] # p[j] /\ p[i] \in 1 .. n /\ p[j] \in 1 .. n
    BY <1>4
  <2> QED BY <1>2, <1>5, <2>1, <2>2 DEF Different
<1>9. ASSUME NEW side
      PROVE  Cardinality(OfSide(order, side)) = Cardinality(OfSide(items, side))
  <2> DEFINE S == OfSide(order, side)
             T == OfSide(items, side)
             f == [k \in S |-> p[k]]
  <2>1. \A k \in 1 .. n : k \in S <=> p[k] \in T
    BY <1>2, <1>4, <1>5 DEF OfSide
  <2>2. S \subseteq 1 .. n /\ T \in SUBSET (1 .. n)
    BY <1>2, <1>5 DEF OfSide
  <2> HIDE DEF S, T
  <2>3. f \in [S -> T] /\ \A k \in S : f[k] = p[k]
    BY <2>1, <2>2
  <2> HIDE DEF f
  <2>4. \A i, j \in S : f[i] = f[j] => i = j
    BY <1>4, <2>2, <2>3
  <2>5. \A t \in T : \E k \in S : f[k] = t
    BY <1>4, <2>1, <2>2, <2>3
  <2>6. f \in Injection(S, T) /\ f \in Surjection(S, T)
    BY <2>3, <2>4, <2>5 DEF Injection, IsInjective, Surjection
  <2>7. IsFiniteSet(T)
    <3>1. IsFiniteSet(1 .. n)
      BY <1>2, FS_Interval
    <3> QED BY <2>2, <3>1, FS_Subset
  <2>8. IsFiniteSet(S)
    BY <2>6, <2>7, FS_Injection
  <2> QED BY <2>6, <2>7, FS_Injection DEF S, T
<1> QED BY <1>2, <1>5, <1>6, <1>7, <1>8, <1>9 DEF n

\* The half that a place of an order falls in.
HalfOf(order, k) ==
    LET peers == OfSide(order, Bucket(order[k].position))
    IN  IF Cardinality({j \in peers : j < k}) < Cardinality(peers) \div 2 THEN "train" ELSE "test"

\* What the rows of a split say, each of its item.
LEMMA SplitRowsAre ==
    ASSUME NEW items, Selection(items), NEW d, Rearranged(Arrange(d, items), items)
    PROVE  LET order == Arrange(d, items)
               rows  == Positions(items, d)
           IN  /\ DOMAIN rows = 1 .. Len(items) /\ Len(rows) = Len(items)
               /\ \A k \in 1 .. Len(items) :
                     /\ rows[k].id = order[k].position.id
                     /\ rows[k].board = order[k].position.board
                     /\ rows[k].game = order[k].position.game
                     /\ rows[k].kind = order[k].position.kind
                     /\ rows[k].phase = order[k].position.phase
                     /\ rows[k].split = HalfOf(order, k) /\ rows[k].split \in Splits
<1> DEFINE order    == Arrange(d, items)
           n        == Len(items)
           split(k) == HalfOf(order, k)
           rows     == [k \in DOMAIN order |-> [order[k].position EXCEPT !.split = split(k)]]
<1>1. Positions(items, d) = rows
  BY DEF Positions, OfSide, HalfOf
<1>2. DOMAIN order = 1 .. n /\ n \in Nat /\ \A k \in 1 .. n : Sound(order[k])
  BY RearrangedIs
<1>0. \A k : split(k) \in Splits
  BY DEF HalfOf, Splits
<1> HIDE DEF order, n, split
<1>3. DOMAIN rows = 1 .. n /\ Len(rows) = n
  BY <1>2
<1>4. ASSUME NEW k \in 1 .. n
      PROVE  /\ rows[k].id = order[k].position.id
             /\ rows[k].board = order[k].position.board
             /\ rows[k].game = order[k].position.game
             /\ rows[k].kind = order[k].position.kind
             /\ rows[k].phase = order[k].position.phase
             /\ rows[k].split = split(k)
  <2> DEFINE row == order[k].position
  <2>1. DOMAIN row = {"id", "board", "game", "kind", "phase", "split", "mating"}
    BY <1>2, <1>4 DEF Sound
  <2>2. rows[k] = [row EXCEPT !.split = split(k)]
    BY <1>2, <1>4
  <2> HIDE DEF row, rows
  <2>3. /\ rows[k].id = row.id /\ rows[k].board = row.board /\ rows[k].game = row.game
        /\ rows[k].kind = row.kind /\ rows[k].phase = row.phase /\ rows[k].split = split(k)
    BY <2>1, <2>2
  <2> QED BY <2>3 DEF row
<1> HIDE DEF rows
<1> QED BY <1>0, <1>1, <1>3, <1>4 DEF order, n, split

\* Each side of a bucket is cut in two halves.
LEMMA SidesAreHalved ==
    ASSUME NEW items, Selection(items), \A kind \in Kinds : Complete(Tracked(items), kind),
           NEW d, Rearranged(Arrange(d, items), items),
           NEW bucket \in DOMAIN Quotas, NEW color \in Colors, NEW split \in Splits
    PROVE  LET rows == Positions(items, d)
               part == {i \in DOMAIN rows : /\ rows[i].split = split
                                            /\ <<rows[i].phase, rows[i].kind>> = bucket
                                            /\ rows[i].board.turn = color}
           IN  /\ IsFiniteSet(part)
               /\ Cardinality(part) = Quotas[bucket] \div 2
<1> DEFINE order    == Arrange(d, items)
           n        == Len(items)
           rows     == Positions(items, d)
           side     == <<bucket, color>>
           P        == OfSide(order, side)
           q        == Quotas[bucket]
           part     == {i \in DOMAIN rows : /\ rows[i].split = split
                                            /\ <<rows[i].phase, rows[i].kind>> = bucket
                                            /\ rows[i].board.turn = color}
           place(k) == Cardinality({j \in P : j < k})
           h        == q \div 2
<1>1. /\ DOMAIN order = 1 .. n /\ n \in Nat
      /\ Cardinality(P) = Cardinality(OfSide(items, side))
  BY RearrangedIs
<1>2. q \in Nat /\ h \in Nat /\ q = h + h
  <2>1. q \in Nat /\ q % 2 = 0
    BY QuotaAssumption
  <2> QED BY <2>1
<1>3. Cardinality(P) = q
  <2>1. bucket[2] \in Kinds
    BY QuotaAssumption DEF Kinds
  <2>2. Tracked(items).counts[side] = q
    BY <2>1 DEF Complete
  <2>3. Tracked(items).counts[side] = Cardinality(OfSide(items, side))
    BY DEF Selection, Counted, Sides
  <2> QED BY <1>1, <2>2, <2>3
<1>4. P \in SUBSET (1 .. n)
  BY <1>1 DEF OfSide
<1>5. IsFiniteSet(P) /\ \A i \in P : i \in Nat
  <2>1. IsFiniteSet(1 .. n)
    BY <1>1, FS_Interval
  <2> HIDE DEF P
  <2>2. IsFiniteSet(P)
    BY <1>4, <2>1, FS_Subset
  <2> QED BY <1>4, <2>2
<1>6. /\ DOMAIN rows = 1 .. n
      /\ \A k \in 1 .. n :
            /\ rows[k].board = order[k].position.board
            /\ rows[k].kind = order[k].position.kind
            /\ rows[k].phase = order[k].position.phase
            /\ rows[k].split = HalfOf(order, k)
  BY SplitRowsAre
<1>7. \A k \in 1 .. n : k \in P <=> <<rows[k].phase, rows[k].kind>> = bucket /\ rows[k].board.turn = color
  <2>1. \A k \in 1 .. n : rows[k].board.turn = order[k].position.board.turn
    BY <1>6
  <2> QED BY <1>1, <1>6, <2>1 DEF OfSide, Bucket
<1>8. \A k \in P : HalfOf(order, k) = IF place(k) < Cardinality(P) \div 2 THEN "train" ELSE "test"
  <2>1. \A k \in P : OfSide(order, Bucket(order[k].position)) = P
    BY DEF OfSide
  <2> HIDE DEF P
  <2> QED BY <2>1 DEF HalfOf
<1> HIDE DEF P, q, rows, order, n
<1>9. \A k \in P : k \in 1 .. n /\ rows[k].split = IF place(k) < h THEN "train" ELSE "test"
  BY <1>3, <1>4, <1>6, <1>8
<1>10. /\ Cardinality({k \in P : place(k) < h}) = h
       /\ Cardinality({k \in P : ~(place(k) < h)}) = q - h
  <2> HIDE DEF h, place
  <2>1. h <= Cardinality(P)
    BY <1>2, <1>3
  <2>2. /\ Cardinality({k \in P : Cardinality({j \in P : j < k}) < h}) = h
        /\ Cardinality({k \in P : ~(Cardinality({j \in P : j < k}) < h)}) = Cardinality(P) - h
    BY <1>2, <1>5, <2>1, Halves
  <2> QED BY <1>3, <2>2 DEF place
<1>11. part = IF split = "train" THEN {k \in P : place(k) < h} ELSE {k \in P : ~(place(k) < h)}
  <2>1. ASSUME NEW k \in 1 .. n
        PROVE  k \in part <=> k \in P /\ (split = "train" <=> place(k) < h)
    <3> HIDE DEF place, h
    <3> QED BY <1>6, <1>7, <1>9 DEF Splits
  <2>2. part \subseteq 1 .. n
    BY <1>6
  <2> HIDE DEF part, place, h
  <2> QED BY <1>4, <2>1, <2>2
<1>12. IsFiniteSet(part)
  <2>1. part \in SUBSET P
    BY <1>11
  <2> HIDE DEF part
  <2> QED BY <1>5, <2>1, FS_Subset
<1>13. Cardinality(part) = h
  <2>1. q - h = h
    BY <1>2
  <2> HIDE DEF h, place, part
  <2> QED BY <1>10, <1>11, <2>1
<1> QED BY <1>12, <1>13 DEF rows, q

\* A full selection passes the rules whatever order its sides are put in.
LEMMA FullIsBalanced ==
    ASSUME NEW items, Selection(items), \A kind \in Kinds : Complete(Tracked(items), kind),
           NEW d, Rearranged(Arrange(d, items), items)
    PROVE  /\ ~CollectionRaises(Positions(items, d))
           /\ ~EvaluationsRaise(Positions(items, d), Evaluations(items, d))
<1> DEFINE order == Arrange(d, items)
           n     == Len(items)
           rows  == Positions(items, d)
           evaluations == Evaluations(items, d)
<1>1. /\ DOMAIN order = 1 .. n /\ Len(order) = n /\ n \in Nat
      /\ \A k \in 1 .. n : Sound(order[k])
      /\ Different(order)
  BY RearrangedIs
<1>2. /\ DOMAIN rows = 1 .. n /\ Len(rows) = n
      /\ \A k \in 1 .. n :
            /\ rows[k].id = order[k].position.id
            /\ rows[k].board = order[k].position.board
            /\ rows[k].game = order[k].position.game
            /\ rows[k].kind = order[k].position.kind
            /\ rows[k].phase = order[k].position.phase
            /\ rows[k].split \in Splits
  BY SplitRowsAre
<1>3. evaluations = [k \in 1 .. n |-> order[k].evaluation]
  BY <1>1 DEF Evaluations
<1>4. ASSUME NEW bucket \in DOMAIN Quotas, NEW split \in Splits
      PROVE  LET of(turns) == Rows(rows, LAMBDA r : /\ r.split = split
                                                    /\ <<r.phase, r.kind>> = bucket
                                                    /\ r.board.turn \in turns)
             IN  /\ of(Colors) = Quotas[bucket]
                 /\ \A color \in Colors : of({color}) = Quotas[bucket] \div 2
  <2> DEFINE part(color) == {i \in DOMAIN rows : /\ rows[i].split = split
                                                 /\ <<rows[i].phase, rows[i].kind>> = bucket
                                                 /\ rows[i].board.turn = color}
             of(turns) == Rows(rows, LAMBDA r : /\ r.split = split
                                                /\ <<r.phase, r.kind>> = bucket
                                                /\ r.board.turn \in turns)
             all(turns) == {i \in DOMAIN rows : /\ rows[i].split = split
                                                /\ <<rows[i].phase, rows[i].kind>> = bucket
                                                /\ rows[i].board.turn \in turns}
             h == Quotas[bucket] \div 2
  <2>1. \A color \in Colors : IsFiniteSet(part(color)) /\ Cardinality(part(color)) = h
    BY SidesAreHalved
  <2>2. \A turns : of(turns) = Cardinality(all(turns))
    BY DEF Rows
  <2>3. h \in Nat /\ Quotas[bucket] = h + h
    <3>1. Quotas[bucket] \in Nat /\ Quotas[bucket] % 2 = 0
      BY QuotaAssumption
    <3> QED BY <3>1
  <2>4. /\ \A color : all({color}) = part(color)
        /\ all(Colors) = part("white") \cup part("black")
        /\ part("white") \cap part("black") = {}
    <3> HIDE DEF rows
    <3> QED BY DEF Colors
  <2> HIDE DEF part, all, h, of, rows
  <2>5. Cardinality(all(Colors)) = h + h - Cardinality({})
    <3>1. "white" \in Colors /\ "black" \in Colors
      BY DEF Colors
    <3> QED BY <2>1, <2>4, <3>1, FS_Union
  <2>6. of(Colors) = Quotas[bucket]
    BY <2>2, <2>3, <2>5, FS_EmptySet
  <2>7. \A color \in Colors : of({color}) = h
    BY <2>1, <2>2, <2>4
  <2> QED BY <2>6, <2>7 DEF of, h
<1>5. ~CollectionRaises(rows)
  <2> HIDE DEF order, rows
  <2>1. \A i \in 1 .. n : ~PositionRaises(rows[i])
    <3>1. \A i \in 1 .. n : ~PositionRaises(order[i].position)
      BY <1>1 DEF Sound
    <3>2. \A i \in 1 .. n : /\ rows[i].board.over = order[i].position.board.over
                            /\ rows[i].board.check = order[i].position.board.check
      BY <1>2
    <3> QED BY <1>2, <3>1, <3>2 DEF PositionRaises
  <2>2. \A i, j \in 1 .. n : i # j => /\ rows[i].game # rows[j].game
                                      /\ rows[i].board.key # rows[j].board.key
    BY <1>1, <1>2 DEF Different
  <2>3. \A i, j \in 1 .. n : i # j => rows[i].id # rows[j].id
    <3>1. \A i \in 1 .. n : rows[i].id = <<rows[i].game, rows[i].board.name>>
      <4>1. \A i \in 1 .. n : order[i].position.id = <<order[i].position.game, order[i].position.board.name>>
        BY <1>1 DEF Sound
      <4> QED BY <1>2, <4>1
    <3> QED BY <2>2, <3>1
  <2> QED BY <1>2, <1>4, <2>1, <2>2, <2>3 DEF CollectionRaises, Repeats
<1>6. ~EvaluationsRaise(rows, evaluations)
  <2> HIDE DEF order, rows, evaluations, n
  <2>1. DOMAIN evaluations = 1 .. n /\ Len(evaluations) = n
    BY <1>1, <1>3
  <2>2. \A k \in 1 .. n : evaluations[k] = order[k].evaluation
    BY <1>3
  <2>3. \A k \in 1 .. n : evaluations[k].position = rows[k].id
    BY <1>1, <1>2, <2>2 DEF Sound
  <2>4. \A e \in ToSet(evaluations) : \E k \in 1 .. n : e = evaluations[k]
    BY <2>1 DEF ToSet
  <2>5. \A k \in 1 .. n : /\ evaluations[k].moves # <<>>
                          /\ Head(evaluations[k].moves) = evaluations[k].best
                          /\ IsInjective(evaluations[k].moves)
    BY <1>1, <2>2 DEF Sound
  <2>6. {e.position : e \in ToSet(evaluations)} = {r.id : r \in ToSet(rows)}
    <3>1. ToSet(evaluations) = {evaluations[k] : k \in 1 .. n} /\ ToSet(rows) = {rows[k] : k \in 1 .. n}
      BY <1>2, <2>1 DEF ToSet
    <3> QED BY <2>3, <3>1
  <2> QED BY <1>2, <2>1, <2>4, <2>5, <2>6 DEF EvaluationsRaise
<1> QED BY <1>5, <1>6

\* What the shuffles of a seed do: they group the items and reorder each side, and
\* neither drop nor repeat an item.
ArrangeKeepsTheItems ==
    \A d \in Dirs : \A items : Selection(items) => Rearranged(Arrange(d, items), items)

\* When the last quota fills, the split of every seed passes the validation and the
\* mating puzzles keep to their half.
THEOREM FullSelectionsAreBalanced ==
    ASSUME ArrangeKeepsTheItems
    PROVE  Spec => []FullSelectionIsBalanced
<1>1. CuratorOK => FullSelectionIsBalanced
  <2> SUFFICES ASSUME CuratorOK, pc = "save"
               PROVE  /\ \A d \in Dirs : /\ ~CollectionRaises(Positions(memory.held, d))
                                         /\ ~EvaluationsRaise(Positions(memory.held, d),
                                                              Evaluations(memory.held, d))
                      /\ Capped(memory.held)
    BY DEF FullSelectionIsBalanced, Capped
  <2>1. /\ Selection(memory.held) /\ memory.known = Tracked(memory.held)
        /\ \A kind \in Kinds : Complete(memory.known, kind)
    BY DEF CuratorOK, HeldOK, FullOK
  <2> QED BY <2>1, FullIsBalanced DEF ArrangeKeepsTheItems, Selection
<1> QED BY <1>1, CuratorBegins, CuratorKept, PTL DEF Spec

----------------------------------------------------------------------------
(* The pass that an interrupted curation is compared with.                 *)

\* What the first n rows of a page make of what is held.
Rowwise(after, skipped, mem, kind, number, n) ==
    after = [i \in 0 .. n |-> IF i = 0 THEN mem ELSE Undisturbed(skipped, after[i - 1], <<kind, number, i>>)]

LEMMA RowwiseExists ==
    ASSUME NEW skipped, NEW mem, NEW kind, NEW number
    PROVE  \A n \in Nat : \E after : Rowwise(after, skipped, mem, kind, number, n)
<1> DEFINE S == {n \in Nat : \E after : Rowwise(after, skipped, mem, kind, number, n)}
           next(x, i) == Undisturbed(skipped, x, <<kind, number, i>>)
<1>0. \A after, n : Rowwise(after, skipped, mem, kind, number, n) <=>
                       after = [i \in 0 .. n |-> IF i = 0 THEN mem ELSE next(after[i - 1], i)]
  BY DEF Rowwise
<1> HIDE DEF next
<1>1. 0 \in S
  <2> DEFINE after == [i \in 0 .. 0 |-> mem]
  <2>1. after = [i \in 0 .. 0 |-> IF i = 0 THEN mem ELSE next(after[i - 1], i)]
    OBVIOUS
  <2> HIDE DEF after
  <2> QED BY <1>0, <2>1
<1>2. ASSUME NEW n \in Nat, n \in S PROVE n + 1 \in S
  <2>1. PICK after : Rowwise(after, skipped, mem, kind, number, n)
    BY <1>2
  <2> DEFINE more == [i \in 0 .. n + 1 |-> IF i <= n THEN after[i] ELSE next(after[n], n + 1)]
  <2>2. ASSUME NEW i \in 0 .. n + 1
        PROVE  more[i] = IF i = 0 THEN mem ELSE next(more[i - 1], i)
    <3>1. CASE i = n + 1
      <4>1. i # 0 /\ i - 1 = n /\ ~(i <= n) /\ n \in 0 .. n + 1
        BY <3>1
      <4>2. more[i] = next(after[n], n + 1) /\ more[n] = after[n]
        BY <3>1, <4>1
      <4> HIDE DEF more
      <4> QED BY <3>1, <4>1, <4>2
    <3>2. CASE i # n + 1
      <4>1. i \in 0 .. n /\ (i # 0 => i - 1 \in 0 .. n /\ i - 1 \in 0 .. n + 1)
        BY <3>2
      <4>2. after[i] = IF i = 0 THEN mem ELSE next(after[i - 1], i)
        BY <1>0, <2>1, <4>1
      <4>3. more[i] = after[i] /\ (i # 0 => more[i - 1] = after[i - 1])
        BY <4>1
      <4> HIDE DEF more
      <4> QED BY <4>2, <4>3
    <3> QED BY <3>1, <3>2
  <2>3. more = [i \in 0 .. n + 1 |-> more[i]]
    OBVIOUS
  <2> HIDE DEF more
  <2>4. more = [i \in 0 .. n + 1 |-> IF i = 0 THEN mem ELSE next(more[i - 1], i)]
    BY <2>2, <2>3
  <2>5. Rowwise(more, skipped, mem, kind, number, n + 1)
    BY <1>0, <2>4
  <2> QED BY <2>5
<1> HIDE DEF S
<1>3. \A n \in Nat : n \in S
  BY <1>1, <1>2, SetInduction
<1> QED BY <1>3 DEF S

LEMMA RowwiseAgree ==
    ASSUME NEW skipped, NEW mem, NEW kind, NEW number,
           NEW m \in Nat, NEW n \in Nat, m <= n, NEW after, Rowwise(after, skipped, mem, kind, number, m),
           NEW more, Rowwise(more, skipped, mem, kind, number, n)
    PROVE  \A i \in 0 .. m : after[i] = more[i]
<1> DEFINE S == {i \in Nat : i <= m => after[i] = more[i]}
<1>1. 0 \in S
  BY DEF Rowwise
<1>2. ASSUME NEW i \in Nat, i \in S PROVE i + 1 \in S
  <2> SUFFICES ASSUME i + 1 <= m PROVE after[i + 1] = more[i + 1]
    OBVIOUS
  <2>1. after[i] = more[i]
    BY <1>2
  <2>2. i + 1 \in 0 .. m /\ i + 1 \in 0 .. n /\ (i + 1) - 1 = i /\ i + 1 # 0
    OBVIOUS
  <2> DEFINE next(x, j) == Undisturbed(skipped, x, <<kind, number, j>>)
  <2>3. /\ after[i + 1] = next(after[i], i + 1)
        /\ more[i + 1] = next(more[i], i + 1)
    <3> HIDE DEF S
    <3> QED BY <2>2 DEF Rowwise
  <2> HIDE DEF next
  <2> QED BY <2>1, <2>3
<1> HIDE DEF S
<1>3. \A i \in Nat : i \in S
  BY <1>1, <1>2, SetInduction
<1> QED BY <1>3 DEF S

\* No step, and one more step.
LEMMA ThroughRowsBegins ==
    ASSUME NEW skipped, NEW mem, NEW kind, NEW number
    PROVE  ThroughRows(skipped, mem, kind, number, 0) = mem
<1> DEFINE chosen == CHOOSE after : Rowwise(after, skipped, mem, kind, number, 0)
<1>1. ThroughRows(skipped, mem, kind, number, 0) = chosen[0]
  BY DEF ThroughRows, Rowwise
<1>2. Rowwise(chosen, skipped, mem, kind, number, 0)
  BY RowwiseExists
<1> HIDE DEF chosen
<1>3. chosen[0] = mem
  BY <1>2 DEF Rowwise
<1> QED BY <1>1, <1>3

LEMMA ThroughRowsSteps ==
    ASSUME NEW skipped, NEW mem, NEW kind, NEW number, NEW n \in Nat
    PROVE  ThroughRows(skipped, mem, kind, number, n + 1) =
               Undisturbed(skipped, ThroughRows(skipped, mem, kind, number, n), <<kind, number, n + 1>>)
<1> DEFINE chosen(k) == CHOOSE after : Rowwise(after, skipped, mem, kind, number, k)
<1>1. \A k \in Nat : /\ ThroughRows(skipped, mem, kind, number, k) = chosen(k)[k]
                     /\ Rowwise(chosen(k), skipped, mem, kind, number, k)
  <2> SUFFICES ASSUME NEW k \in Nat
               PROVE  /\ ThroughRows(skipped, mem, kind, number, k) = chosen(k)[k]
                      /\ Rowwise(chosen(k), skipped, mem, kind, number, k)
    OBVIOUS
  <2>1. ThroughRows(skipped, mem, kind, number, k) = chosen(k)[k]
    BY DEF ThroughRows, Rowwise
  <2>2. Rowwise(chosen(k), skipped, mem, kind, number, k)
    BY RowwiseExists
  <2> QED BY <2>1, <2>2
<1> HIDE DEF chosen
<1>3. chosen(n)[n] = chosen(n + 1)[n]
  <2>1. n + 1 \in Nat /\ n <= n + 1 /\ n \in 0 .. n
    OBVIOUS
  <2>2. /\ Rowwise(chosen(n), skipped, mem, kind, number, n)
        /\ Rowwise(chosen(n + 1), skipped, mem, kind, number, n + 1)
    BY <1>1, <2>1
  <2> QED BY <2>1, <2>2, RowwiseAgree
<1> DEFINE next(x, i) == Undisturbed(skipped, x, <<kind, number, i>>)
<1>4. chosen(n + 1)[n + 1] = next(chosen(n + 1)[n], n + 1)
  <2>1. n + 1 \in 0 .. n + 1 /\ (n + 1) - 1 = n /\ n + 1 # 0 /\ n + 1 \in Nat
    OBVIOUS
  <2>2. Rowwise(chosen(n + 1), skipped, mem, kind, number, n + 1)
    BY <1>1, <2>1
  <2> QED BY <2>1, <2>2 DEF Rowwise
<1>5. ThroughRows(skipped, mem, kind, number, n + 1) = next(ThroughRows(skipped, mem, kind, number, n), n + 1)
  <2> HIDE DEF next
  <2>1. n + 1 \in Nat
    OBVIOUS
  <2> QED BY <1>1, <1>3, <1>4, <2>1
<1>6. (n + 1) - 1 = n
  OBVIOUS
<1> QED BY <1>5, <1>6

\* What the first n pages make of it.
Pagewise(after, skipped, mem, kind, n) ==
    after = [i \in 0 .. n |->
                IF i = 0 THEN mem
                ELSE ThroughRows(skipped, after[i - 1], kind, i - 1, Len(PageAt(kind, i - 1)))]

LEMMA PagewiseExists ==
    ASSUME NEW skipped, NEW mem, NEW kind
    PROVE  \A n \in Nat : \E after : Pagewise(after, skipped, mem, kind, n)
<1> DEFINE S == {n \in Nat : \E after : Pagewise(after, skipped, mem, kind, n)}
           next(x, i) == ThroughRows(skipped, x, kind, i - 1, Len(PageAt(kind, i - 1)))
<1>0. \A after, n : Pagewise(after, skipped, mem, kind, n) <=>
                       after = [i \in 0 .. n |-> IF i = 0 THEN mem ELSE next(after[i - 1], i)]
  BY DEF Pagewise
<1> HIDE DEF next
<1>1. 0 \in S
  <2> DEFINE after == [i \in 0 .. 0 |-> mem]
  <2>1. after = [i \in 0 .. 0 |-> IF i = 0 THEN mem ELSE next(after[i - 1], i)]
    OBVIOUS
  <2> HIDE DEF after
  <2> QED BY <1>0, <2>1
<1>2. ASSUME NEW n \in Nat, n \in S PROVE n + 1 \in S
  <2>1. PICK after : Pagewise(after, skipped, mem, kind, n)
    BY <1>2
  <2> DEFINE more == [i \in 0 .. n + 1 |-> IF i <= n THEN after[i] ELSE next(after[n], n + 1)]
  <2>2. ASSUME NEW i \in 0 .. n + 1
        PROVE  more[i] = IF i = 0 THEN mem ELSE next(more[i - 1], i)
    <3>1. CASE i = n + 1
      <4>1. i # 0 /\ i - 1 = n /\ ~(i <= n) /\ n \in 0 .. n + 1
        BY <3>1
      <4>2. more[i] = next(after[n], n + 1) /\ more[n] = after[n]
        BY <3>1, <4>1
      <4> HIDE DEF more
      <4> QED BY <3>1, <4>1, <4>2
    <3>2. CASE i # n + 1
      <4>1. i \in 0 .. n /\ (i # 0 => i - 1 \in 0 .. n /\ i - 1 \in 0 .. n + 1)
        BY <3>2
      <4>2. after[i] = IF i = 0 THEN mem ELSE next(after[i - 1], i)
        BY <1>0, <2>1, <4>1
      <4>3. more[i] = after[i] /\ (i # 0 => more[i - 1] = after[i - 1])
        BY <4>1
      <4> HIDE DEF more
      <4> QED BY <4>2, <4>3
    <3> QED BY <3>1, <3>2
  <2>3. more = [i \in 0 .. n + 1 |-> more[i]]
    OBVIOUS
  <2> HIDE DEF more
  <2>4. more = [i \in 0 .. n + 1 |-> IF i = 0 THEN mem ELSE next(more[i - 1], i)]
    BY <2>2, <2>3
  <2>5. Pagewise(more, skipped, mem, kind, n + 1)
    BY <1>0, <2>4
  <2> QED BY <2>5
<1> HIDE DEF S
<1>3. \A n \in Nat : n \in S
  BY <1>1, <1>2, SetInduction
<1> QED BY <1>3 DEF S

LEMMA PagewiseAgree ==
    ASSUME NEW skipped, NEW mem, NEW kind,
           NEW m \in Nat, NEW n \in Nat, m <= n, NEW after, Pagewise(after, skipped, mem, kind, m),
           NEW more, Pagewise(more, skipped, mem, kind, n)
    PROVE  \A i \in 0 .. m : after[i] = more[i]
<1> DEFINE S == {i \in Nat : i <= m => after[i] = more[i]}
<1>1. 0 \in S
  BY DEF Pagewise
<1>2. ASSUME NEW i \in Nat, i \in S PROVE i + 1 \in S
  <2> SUFFICES ASSUME i + 1 <= m PROVE after[i + 1] = more[i + 1]
    OBVIOUS
  <2>1. after[i] = more[i]
    BY <1>2
  <2>2. i + 1 \in 0 .. m /\ i + 1 \in 0 .. n /\ (i + 1) - 1 = i /\ i + 1 # 0
    OBVIOUS
  <2> DEFINE next(x, j) == ThroughRows(skipped, x, kind, j - 1, Len(PageAt(kind, j - 1)))
  <2>3. /\ after[i + 1] = next(after[i], i + 1)
        /\ more[i + 1] = next(more[i], i + 1)
    <3> HIDE DEF S
    <3> QED BY <2>2 DEF Pagewise
  <2> HIDE DEF next
  <2> QED BY <2>1, <2>3
<1> HIDE DEF S
<1>3. \A i \in Nat : i \in S
  BY <1>1, <1>2, SetInduction
<1> QED BY <1>3 DEF S

\* No step, and one more step.
LEMMA ThroughPagesBegins ==
    ASSUME NEW skipped, NEW mem, NEW kind
    PROVE  ThroughPages(skipped, mem, kind, 0) = mem
<1> DEFINE chosen == CHOOSE after : Pagewise(after, skipped, mem, kind, 0)
<1>1. ThroughPages(skipped, mem, kind, 0) = chosen[0]
  BY DEF ThroughPages, Pagewise
<1>2. Pagewise(chosen, skipped, mem, kind, 0)
  BY PagewiseExists
<1> HIDE DEF chosen
<1>3. chosen[0] = mem
  BY <1>2 DEF Pagewise
<1> QED BY <1>1, <1>3

LEMMA ThroughPagesSteps ==
    ASSUME NEW skipped, NEW mem, NEW kind, NEW n \in Nat
    PROVE  ThroughPages(skipped, mem, kind, n + 1) =
               ThroughRows(skipped, ThroughPages(skipped, mem, kind, n), kind, n, Len(PageAt(kind, n)))
<1> DEFINE chosen(k) == CHOOSE after : Pagewise(after, skipped, mem, kind, k)
<1>1. \A k \in Nat : /\ ThroughPages(skipped, mem, kind, k) = chosen(k)[k]
                     /\ Pagewise(chosen(k), skipped, mem, kind, k)
  <2> SUFFICES ASSUME NEW k \in Nat
               PROVE  /\ ThroughPages(skipped, mem, kind, k) = chosen(k)[k]
                      /\ Pagewise(chosen(k), skipped, mem, kind, k)
    OBVIOUS
  <2>1. ThroughPages(skipped, mem, kind, k) = chosen(k)[k]
    BY DEF ThroughPages, Pagewise
  <2>2. Pagewise(chosen(k), skipped, mem, kind, k)
    BY PagewiseExists
  <2> QED BY <2>1, <2>2
<1> HIDE DEF chosen
<1>3. chosen(n)[n] = chosen(n + 1)[n]
  <2>1. n + 1 \in Nat /\ n <= n + 1 /\ n \in 0 .. n
    OBVIOUS
  <2>2. Pagewise(chosen(n), skipped, mem, kind, n) /\ Pagewise(chosen(n + 1), skipped, mem, kind, n + 1)
    BY <1>1, <2>1
  <2> QED BY <2>1, <2>2, PagewiseAgree
<1> DEFINE next(x, i) == ThroughRows(skipped, x, kind, i - 1, Len(PageAt(kind, i - 1)))
<1>4. chosen(n + 1)[n + 1] = next(chosen(n + 1)[n], n + 1)
  <2>1. n + 1 \in 0 .. n + 1 /\ (n + 1) - 1 = n /\ n + 1 # 0 /\ n + 1 \in Nat
    OBVIOUS
  <2>2. Pagewise(chosen(n + 1), skipped, mem, kind, n + 1)
    BY <1>1, <2>1
  <2> QED BY <2>1, <2>2 DEF Pagewise
<1>5. ThroughPages(skipped, mem, kind, n + 1) = next(ThroughPages(skipped, mem, kind, n), n + 1)
  <2> HIDE DEF next
  <2>1. n + 1 \in Nat
    OBVIOUS
  <2> QED BY <1>1, <1>3, <1>4, <2>1
<1>6. (n + 1) - 1 = n
  OBVIOUS
<1> QED BY <1>5, <1>6

LEMMA PagesAreLists ==
    ASSUME NEW kind \in Kinds, NEW page \in Nat, page < MaxPages
    PROVE  IsList(PageAt(kind, page)) /\ Len(PageAt(kind, page)) \in Nat
<1> DEFINE order == PageOrder[kind]
           rows  == PageAt(kind, page)
<1>1. /\ IsList(order) /\ Len(order) >= MaxPages /\ MaxPages \in Nat
      /\ \A x \in ToSet(order) : IsList(PageRows[kind][x])
  BY CurationAssumption
<1> HIDE DEF order
<1>2. page + 1 \in DOMAIN order
  BY <1>1 DEF IsList
<1>3. order[page + 1] \in ToSet(order)
  BY <1>2 DEF ToSet
<1>4. IsList(rows)
  BY <1>1, <1>3 DEF PageAt, order
<1> HIDE DEF rows
<1>5. Len(rows) \in Nat
  BY <1>4 DEF IsList
<1> QED BY <1>4, <1>5 DEF rows

LEMMA ThroughOrigin ==
    ASSUME NEW skipped, NEW mem, NEW kind
    PROVE  Through(skipped, mem, kind, <<0, 0>>) = mem
<1>1. ThroughPages(skipped, mem, kind, 0) = mem
  BY ThroughPagesBegins
<1>2. ThroughRows(skipped, mem, kind, 0, 0) = mem
  BY ThroughRowsBegins
<1> QED BY <1>1, <1>2 DEF Through

LEMMA ThroughNext ==
    ASSUME NEW skipped, NEW mem, NEW kind, NEW page \in Nat, NEW row \in Nat
    PROVE  Through(skipped, mem, kind, <<page, row + 1>>) =
               Undisturbed(skipped, Through(skipped, mem, kind, <<page, row>>), <<kind, page, row + 1>>)
<1> DEFINE before == ThroughPages(skipped, mem, kind, page)
<1>1. \A n : Through(skipped, mem, kind, <<page, n>>) = ThroughRows(skipped, before, kind, page, n)
  BY DEF Through
<1> HIDE DEF before
<1>2. ThroughRows(skipped, before, kind, page, row + 1) =
          Undisturbed(skipped, ThroughRows(skipped, before, kind, page, row), <<kind, page, row + 1>>)
  BY ThroughRowsSteps
<1> QED BY <1>1, <1>2

\* The rows that are left of a page change nothing when the quotas of the kind are
\* full, or when they are all left out.
LEMMA ThroughRest ==
    ASSUME NEW skipped, NEW mem, NEW kind \in Kinds, NEW page \in Nat, page < MaxPages,
           NEW row \in Nat, row <= Len(PageAt(kind, page)),
           \/ Complete(Through(skipped, mem, kind, <<page, row>>).known, kind)
           \/ \A i \in row + 1 .. Len(PageAt(kind, page)) : <<kind, page, i>> \in skipped
    PROVE  Through(skipped, mem, kind, <<page + 1, 0>>) = Through(skipped, mem, kind, <<page, row>>)
<1> DEFINE before == ThroughPages(skipped, mem, kind, page)
           size   == Len(PageAt(kind, page))
           now(n) == ThroughRows(skipped, before, kind, page, n)
           S      == {n \in Nat : row + n <= size => now(row + n) = now(row)}
<1>1. size \in Nat
  BY PagesAreLists
<1>2. \A n : Through(skipped, mem, kind, <<page, n>>) = now(n)
  BY DEF Through
<1>3. Through(skipped, mem, kind, <<page + 1, 0>>) = now(size)
  <2>1. ThroughPages(skipped, mem, kind, page + 1) = now(size)
    BY ThroughPagesSteps
  <2>2. ThroughRows(skipped, now(size), kind, page + 1, 0) = now(size)
    <3> HIDE DEF now
    <3> QED BY ThroughRowsBegins
  <2> QED BY <2>1, <2>2 DEF Through
<1>4. \A n \in Nat : now(n + 1) = Undisturbed(skipped, now(n), <<kind, page, n + 1>>)
  <2> HIDE DEF before
  <2> QED BY ThroughRowsSteps
<1>5. Complete(now(row).known, kind) \/ \A i \in row + 1 .. size : <<kind, page, i>> \in skipped
  BY <1>2
<1> HIDE DEF now, size, before
<1>6. 0 \in S
  OBVIOUS
<1>7. ASSUME NEW n \in Nat, n \in S PROVE n + 1 \in S
  <2> SUFFICES ASSUME row + (n + 1) <= size PROVE now(row + (n + 1)) = now(row)
    OBVIOUS
  <2>1. row + n \in Nat /\ row + (n + 1) = (row + n) + 1 /\ row + n <= size
    BY <1>1
  <2>2. now(row + n) = now(row)
    BY <1>7, <2>1
  <2>3. now(row + (n + 1)) = Undisturbed(skipped, now(row), <<kind, page, (row + n) + 1>>)
    BY <1>4, <2>1, <2>2
  <2>4. CASE Complete(now(row).known, kind)
    BY <2>3, <2>4 DEF Undisturbed
  <2>5. CASE \A i \in row + 1 .. size : <<kind, page, i>> \in skipped
    <3>1. (row + n) + 1 \in row + 1 .. size
      BY <1>1, <2>1
    <3>2. <<kind, page, (row + n) + 1>> \in skipped
      BY <2>5, <3>1
    <3> QED BY <2>3, <3>2 DEF Undisturbed
  <2> QED BY <1>5, <2>4, <2>5
<1> HIDE DEF S
<1>8. size - row \in S
  <2>1. size - row \in Nat
    BY <1>1 DEF size
  <2> QED BY <1>6, <1>7, <2>1, SetInduction
<1>9. now(size) = now(row)
  <2>1. row + (size - row) = size /\ size <= size
    BY <1>1
  <2> QED BY <1>8, <2>1 DEF S
<1> QED BY <1>2, <1>3, <1>9

\* Records left out from a cursor on make no difference before it.
Agree(L, M, kind, cursor) ==
    \A page, row \in Nat :
        page < cursor[1] \/ (page = cursor[1] /\ row <= cursor[2]) =>
            (<<kind, page, row>> \in L <=> <<kind, page, row>> \in M)

LEMMA ThroughRowsSame ==
    ASSUME NEW L, NEW M, NEW mem, NEW kind, NEW page, NEW count \in Nat,
           \A i \in 1 .. count : <<kind, page, i>> \in L <=> <<kind, page, i>> \in M
    PROVE  ThroughRows(L, mem, kind, page, count) = ThroughRows(M, mem, kind, page, count)
<1> DEFINE S == {n \in Nat : n <= count =>
                    ThroughRows(L, mem, kind, page, n) = ThroughRows(M, mem, kind, page, n)}
<1>1. 0 \in S
  BY ThroughRowsBegins
<1>2. ASSUME NEW n \in Nat, n \in S PROVE n + 1 \in S
  <2> SUFFICES ASSUME n + 1 <= count
               PROVE  ThroughRows(L, mem, kind, page, n + 1) = ThroughRows(M, mem, kind, page, n + 1)
    OBVIOUS
  <2> DEFINE x == ThroughRows(L, mem, kind, page, n)
  <2>1. /\ x = ThroughRows(M, mem, kind, page, n)
        /\ <<kind, page, n + 1>> \in L <=> <<kind, page, n + 1>> \in M
    BY <1>2
  <2>2. ThroughRows(L, mem, kind, page, n + 1) = Undisturbed(L, x, <<kind, page, n + 1>>)
    BY ThroughRowsSteps
  <2>3. ThroughRows(M, mem, kind, page, n + 1) = Undisturbed(M, x, <<kind, page, n + 1>>)
    BY <2>1, ThroughRowsSteps
  <2> HIDE DEF x
  <2>4. Undisturbed(L, x, <<kind, page, n + 1>>) = Undisturbed(M, x, <<kind, page, n + 1>>)
    BY <2>1 DEF Undisturbed
  <2> QED BY <2>2, <2>3, <2>4
<1> HIDE DEF S
<1>3. count \in S
  BY <1>1, <1>2, SetInduction
<1> QED BY <1>3 DEF S

LEMMA ThroughSame ==
    ASSUME NEW L, NEW M, NEW mem, NEW kind \in Kinds, NEW page \in Nat, page <= MaxPages,
           NEW row \in Nat, Agree(L, M, kind, <<page, row>>)
    PROVE  Through(L, mem, kind, <<page, row>>) = Through(M, mem, kind, <<page, row>>)
<1> DEFINE S == {n \in Nat : n <= page =>
                    ThroughPages(L, mem, kind, n) = ThroughPages(M, mem, kind, n)}
<1>0. MaxPages \in Nat
  BY CurationAssumption
<1>1. 0 \in S
  BY ThroughPagesBegins
<1>2. ASSUME NEW n \in Nat, n \in S PROVE n + 1 \in S
  <2> SUFFICES ASSUME n + 1 <= page
               PROVE  ThroughPages(L, mem, kind, n + 1) = ThroughPages(M, mem, kind, n + 1)
    OBVIOUS
  <2> DEFINE x == ThroughPages(L, mem, kind, n)
             size == Len(PageAt(kind, n))
  <2>1. x = ThroughPages(M, mem, kind, n)
    BY <1>2
  <2>2. ThroughPages(L, mem, kind, n + 1) = ThroughRows(L, x, kind, n, size)
    BY ThroughPagesSteps
  <2>3. ThroughPages(M, mem, kind, n + 1) = ThroughRows(M, x, kind, n, size)
    BY <2>1, ThroughPagesSteps
  <2>4. size \in Nat
    <3>1. n < MaxPages
      BY <1>0
    <3> QED BY <3>1, PagesAreLists
  <2> HIDE DEF x, size
  <2>5. \A i \in 1 .. size : <<kind, n, i>> \in L <=> <<kind, n, i>> \in M
    BY <2>4 DEF Agree
  <2> QED BY <2>2, <2>3, <2>4, <2>5, ThroughRowsSame
<1> HIDE DEF S
<1>3. page \in S
  BY <1>1, <1>2, SetInduction
<1>4. \A i \in 1 .. row : <<kind, page, i>> \in L <=> <<kind, page, i>> \in M
  BY DEF Agree
<1> DEFINE x == ThroughPages(L, mem, kind, page)
<1>5. x = ThroughPages(M, mem, kind, page)
  BY <1>3 DEF S
<1>6. /\ Through(L, mem, kind, <<page, row>>) = ThroughRows(L, x, kind, page, row)
      /\ Through(M, mem, kind, <<page, row>>) = ThroughRows(M, x, kind, page, row)
  BY <1>5 DEF Through
<1> HIDE DEF x
<1> QED BY <1>4, <1>6, ThroughRowsSame

----------------------------------------------------------------------------
(* What reading a record depends on.                                       *)

\* A reading depends on what is held and tracked, not on the cursors.
LEMMA SameRead ==
    ASSUME NEW mem, NEW other, mem.held = other.held, mem.known = other.known,
           NEW kind, NEW record, NEW broken
    PROVE  Read(kind, mem, record, broken) = Read(kind, other, record, broken)
<1>1. WantedPuzzle(mem, record) = WantedPuzzle(other, record)
  BY DEF WantedPuzzle
<1>2. Puzzle(mem, record, broken) = Puzzle(other, record, broken)
  BY <1>1 DEF Puzzle
<1>3. QuietGame(mem, record, broken) = QuietGame(other, record, broken)
  BY DEF QuietGame
<1> QED BY <1>2, <1>3 DEF Read

LEMMA Ends ==
    ASSUME NEW keys
    PROVE  /\ Passed(keys).end = "passed" /\ Passed(keys).item = NoItem
           /\ GivesUp(keys).end = "given_up"
           /\ \A item : Accepts(keys, item).end # "passed"
           /\ \A item : Accepts(keys, item).end = "accepted" => Accepts(keys, item).item = item
  BY DEF Passed, GivesUp, Accepts

\* A spoilt file can only make the curator give a record up.
LEMMA UnbrokenPuzzle ==
    ASSUME NEW mem, NEW p, NEW broken, Puzzle(mem, p, broken).end # "given_up"
    PROVE  /\ Puzzle(mem, p, {}).end = Puzzle(mem, p, broken).end
           /\ Puzzle(mem, p, {}).item = Puzzle(mem, p, broken).item
<1> DEFINE export == ExportKey(p.game)
           study  == AnalysisKey(p.board, "reference")
<1>1. CASE ~WantedPuzzle(mem, p)
  BY <1>1 DEF Puzzle
<1>2. CASE WantedPuzzle(mem, p)
  <2>1. export \notin broken
    BY <1>2, Ends DEF Puzzle
  <2>2. CASE ~p.matches \/ p.board.over \/ ~p.solved
    BY <1>2, <2>1, <2>2 DEF Puzzle
  <2>3. CASE ~(~p.matches \/ p.board.over \/ ~p.solved)
    <3>1. study \notin broken /\ ~Illegal(Analysed(p.board, "reference"))
      BY <1>2, <2>1, <2>3, Ends DEF Puzzle
    <3> QED BY <1>2, <2>1, <2>3, <3>1 DEF Puzzle
  <2> QED BY <2>2, <2>3
<1> QED BY <1>1, <1>2

\* One more board, with and without spoilt files.
LEMMA UnbrokenExamine ==
    ASSUME NEW seen, NEW other, seen.end = other.end, seen.item = other.item,
           NEW board, NEW game, NEW broken, Examine(seen, board, game, broken).end # "given_up"
    PROVE  /\ Examine(other, board, game, {}).end = Examine(seen, board, game, broken).end
           /\ Examine(other, board, game, {}).item = Examine(seen, board, game, broken).item
<1> DEFINE quickly == AnalysisKey(board, "screen")
           slowly  == AnalysisKey(board, "reference")
           item    == Item(MakeRow(board, game, "quiet", FALSE), Analysed(board, "reference"))
           weak    == \/ Rejected(Analysed(board, "reference"))
                      \/ Magnitude(Analysed(board, "reference")[1].cp - Analysed(board, "screen")[1].cp) > 40
<1>1. CASE seen.end # "passed"
  BY <1>1 DEF Examine
<1>2. CASE seen.end = "passed"
  <2>1. quickly \notin broken /\ ~Illegal(Analysed(board, "screen"))
    BY <1>2, Ends DEF Examine
  <2>2. CASE Rejected(Analysed(board, "screen"))
    BY <1>2, <2>1, <2>2, Ends DEF Examine
  <2>3. CASE ~Rejected(Analysed(board, "screen"))
    <3>1. slowly \notin broken /\ ~Illegal(Analysed(board, "reference"))
      BY <1>2, <2>1, <2>3, Ends DEF Examine
    <3>2. CASE weak
      BY <1>2, <2>1, <2>3, <3>1, <3>2, Ends DEF Examine
    <3>3. CASE ~weak
      <4>1. \E a, b : /\ Examine(seen, board, game, broken) = Accepts(a, item)
                      /\ Examine(other, board, game, {}) = Accepts(b, item)
        BY <1>2, <2>1, <2>3, <3>1, <3>3 DEF Examine
      <4>2. \A a, b : Accepts(a, item).end = Accepts(b, item).end
                      /\ (Accepts(a, item).end # "given_up" => Accepts(a, item).item = Accepts(b, item).item)
        BY DEF Accepts, GivesUp
      <4> QED BY <4>1, <4>2
    <3> QED BY <3>2, <3>3
  <2> QED BY <2>2, <2>3
<1> QED BY <1>1, <1>2

LEMMA UnbrokenScreened ==
    ASSUME NEW boards, Len(boards) \in Nat, NEW game, NEW broken,
           Screened(boards, game, broken).end # "given_up"
    PROVE  /\ Screened(boards, game, {}).end = Screened(boards, game, broken).end
           /\ Screened(boards, game, {}).item = Screened(boards, game, broken).item
<1> DEFINE last  == Len(boards)
           seen  == CHOOSE s : Looks(s, boards, game, broken, last)
           other == CHOOSE s : Looks(s, boards, game, {}, last)
           S == {n \in Nat : n <= last /\ seen[n].end # "given_up" =>
                    seen[n].end = other[n].end /\ seen[n].item = other[n].item}
<1>1. Screened(boards, game, broken) = seen[last] /\ Screened(boards, game, {}) = other[last]
  BY DEF Screened, Looks
<1>2. Looks(seen, boards, game, broken, last) /\ Looks(other, boards, game, {}, last)
  BY LooksExists
<1> HIDE DEF seen, other
<1>3. 0 \in S
  BY <1>2 DEF Looks
<1>4. ASSUME NEW n \in Nat, n \in S PROVE n + 1 \in S
  <2> SUFFICES ASSUME n + 1 <= last, seen[n + 1].end # "given_up"
               PROVE  seen[n + 1].end = other[n + 1].end /\ seen[n + 1].item = other[n + 1].item
    OBVIOUS
  <2>1. /\ seen[n + 1] = Examine(seen[n], boards[n + 1], game, broken)
        /\ other[n + 1] = Examine(other[n], boards[n + 1], game, {})
    <3>1. n + 1 \in 0 .. last /\ (n + 1) - 1 = n /\ n + 1 # 0
      OBVIOUS
    <3> QED BY <1>2, <3>1 DEF Looks
  <2>2. seen[n].end # "given_up"
    BY <2>1 DEF Examine
  <2>3. seen[n].end = other[n].end /\ seen[n].item = other[n].item
    BY <1>4, <2>2
  <2> QED BY <2>1, <2>3, UnbrokenExamine
<1> HIDE DEF S
<1>5. last \in S
  BY <1>3, <1>4, SetInduction
<1> QED BY <1>1, <1>5 DEF S

LEMMA UnbrokenRead ==
    ASSUME NEW kind \in Kinds, NEW mem, NEW record, RecordOK(kind, record), NEW broken,
           Read(kind, mem, record, broken).end # "given_up"
    PROVE  /\ Read(kind, mem, record, {}).end = Read(kind, mem, record, broken).end
           /\ Read(kind, mem, record, {}).item = Read(kind, mem, record, broken).item
<1>1. CASE kind = "tactical"
  BY <1>1, UnbrokenPuzzle DEF Read
<1>2. CASE kind = "quiet"
  <2> DEFINE boards == Candidates(mem.known, record.game, record.boards)
  <2>1. Len(boards) \in Nat
    BY <1>2, CandidatesAreEligible DEF RecordOK
  <2> HIDE DEF boards
  <2>2. QuietGame(mem, record, broken).end # "given_up"
    BY <1>2 DEF Read
  <2>3. \A x : QuietGame(mem, record, x) =
           IF record.elo < 1600 \/ record.seconds < 600 THEN Passed(<<>>)
           ELSE IF record.game = NoGame THEN GivesUp(<<>>)
           ELSE IF record.game \in mem.known.games THEN Passed(<<>>)
           ELSE IF ~record.standard THEN GivesUp(<<>>)
           ELSE Screened(boards, record.game, x)
    BY DEF QuietGame, boards
  <2>4. /\ QuietGame(mem, record, {}).end = QuietGame(mem, record, broken).end
        /\ QuietGame(mem, record, {}).item = QuietGame(mem, record, broken).item
    <3>1. CASE QuietGame(mem, record, broken) = Screened(boards, record.game, broken)
               /\ QuietGame(mem, record, {}) = Screened(boards, record.game, {})
      BY <2>1, <2>2, <3>1, UnbrokenScreened
    <3>2. CASE QuietGame(mem, record, broken) = QuietGame(mem, record, {})
      BY <3>2
    <3> QED BY <2>3, <3>1, <3>2
  <2> QED BY <1>2, <2>4 DEF Read
<1> QED BY <1>1, <1>2 DEF Kinds

\* The game of a record has given its item already.
Settled(kind, record, known) ==
    /\ record.game \in known.games
    /\ kind = "quiet" => record.game # NoGame

\* A record whose game gave an item is never read to its end.
LEMMA SettledPasses ==
    ASSUME NEW kind \in Kinds, NEW mem, NEW record, Settled(kind, record, mem.known), NEW broken
    PROVE  Read(kind, mem, record, broken).end = "passed"
<1>1. CASE kind = "tactical"
  <2>1. ~WantedPuzzle(mem, record)
    BY DEF Settled, WantedPuzzle, Taken
  <2> QED BY <1>1, <2>1, Ends DEF Read, Puzzle
<1>2. CASE kind = "quiet"
  BY <1>2, Ends DEF Read, QuietGame, Settled
<1> QED BY <1>1, <1>2 DEF Kinds

\* What a record gives makes it settled.
LEMMA AcceptedSettles ==
    ASSUME NEW kind \in Kinds, NEW mem, NEW record, RecordOK(kind, record), NEW broken,
           Read(kind, mem, record, broken).end = "accepted"
    PROVE  LET item == Read(kind, mem, record, broken).item
           IN  item.position.game = record.game /\ (kind = "quiet" => record.game # NoGame)
<1>1. CASE kind = "tactical"
  <2> DEFINE row  == MakeRow(record.board, record.game, "tactical", "mate" \in record.themes)
             item == Item(row, Analysed(record.board, "reference"))
             read == Puzzle(mem, record, broken)
  <2>1. read.end = "accepted"
    BY <1>1 DEF Read
  <2>2. \E keys : read = Accepts(keys, item)
    BY <2>1, Ends DEF Puzzle
  <2>3. read.item = item
    <3> HIDE DEF read, item
    <3> QED BY <2>1, <2>2, Ends
  <2>4. item.position.game = record.game
    BY DEF Item, MakeRow
  <2> QED BY <1>1, <2>3, <2>4 DEF Read
<1>2. CASE kind = "quiet"
  <2> DEFINE boards == Candidates(mem.known, record.game, record.boards)
             seen   == Screened(boards, record.game, broken)
             read   == QuietGame(mem, record, broken)
  <2>1. read.end = "accepted"
    BY <1>2 DEF Read
  <2>2. read = seen /\ record.game # NoGame
    BY <2>1, Ends DEF QuietGame
  <2>3. Len(boards) \in Nat
    BY <1>2, CandidatesAreEligible DEF RecordOK
  <2> HIDE DEF boards
  <2>4. PICK k \in 1 .. Len(boards) : FromBoard(seen.item, boards[k], record.game)
    BY <2>1, <2>2, <2>3, ScreenedFromBoard
  <2>5. seen.item.position.game = record.game
    <3> DEFINE i == seen.item
    <3>1. i = Item(MakeRow(boards[k], record.game, "quiet", FALSE), Analysed(boards[k], "reference"))
      BY <2>4 DEF FromBoard
    <3> HIDE DEF i
    <3>2. i.position = MakeRow(boards[k], record.game, "quiet", FALSE)
      BY <3>1 DEF Item
    <3>3. i.position.game = record.game
      BY <3>2 DEF MakeRow
    <3> QED BY <3>3 DEF i
  <2> QED BY <1>2, <2>2, <2>5 DEF Read
<1> QED BY <1>1, <1>2 DEF Kinds

----------------------------------------------------------------------------
(* The curation and the pass it is compared with, from state to state.     *)

\* The pass up to a cursor of each kind.
Upto(skipped, reach) ==
    Through(skipped, Through(skipped, Loaded(<<>>, Origin), "tactical", reach["tactical"]),
            "quiet", reach["quiet"])

Cursors == [Kinds -> Nat \X Nat]

\* One record more of the kind it reads.
LEMMA UptoNext ==
    ASSUME NEW skipped, NEW reach \in Cursors, NEW kind \in Kinds,
           kind = "tactical" => reach["quiet"] = <<0, 0>>,
           NEW page \in Nat, NEW row \in Nat, reach[kind] = <<page, row>>
    PROVE  Upto(skipped, [reach EXCEPT ![kind] = <<page, row + 1>>]) =
               Undisturbed(skipped, Upto(skipped, reach), <<kind, page, row + 1>>)
<1> DEFINE next == [reach EXCEPT ![kind] = <<page, row + 1>>]
           first(r) == Through(skipped, Loaded(<<>>, Origin), "tactical", r["tactical"])
<1>1. \A r : Upto(skipped, r) = Through(skipped, first(r), "quiet", r["quiet"])
  BY DEF Upto
<1>2. CASE kind = "tactical"
  <2>1. next["tactical"] = <<page, row + 1>> /\ next["quiet"] = <<0, 0>>
        /\ reach["tactical"] = <<page, row>> /\ reach["quiet"] = <<0, 0>>
    BY <1>2 DEF Cursors, Kinds
  <2>2. first(next) = Undisturbed(skipped, first(reach), <<kind, page, row + 1>>)
    BY <1>2, <2>1, ThroughNext
  <2> HIDE DEF next, first
  <2>3. Upto(skipped, next) = first(next) /\ Upto(skipped, reach) = first(reach)
    BY <1>1, <2>1, ThroughOrigin
  <2> QED BY <2>2, <2>3 DEF next
<1>3. CASE kind = "quiet"
  <2>1. next["quiet"] = <<page, row + 1>> /\ reach["quiet"] = <<page, row>>
        /\ next["tactical"] = reach["tactical"]
    BY <1>3 DEF Cursors, Kinds
  <2>2. first(next) = first(reach)
    BY <2>1
  <2> HIDE DEF next, first
  <2>3. /\ Upto(skipped, next) = Through(skipped, first(reach), "quiet", <<page, row + 1>>)
        /\ Upto(skipped, reach) = Through(skipped, first(reach), "quiet", <<page, row>>)
    BY <1>1, <2>1, <2>2
  <2>4. Upto(skipped, next) = Undisturbed(skipped, Upto(skipped, reach), <<kind, page, row + 1>>)
    BY <1>3, <2>3, ThroughNext
  <2> QED BY <2>4 DEF next
<1> QED BY <1>2, <1>3 DEF Kinds

\* The end of a page of which nothing is taken any more.
LEMMA UptoRest ==
    ASSUME NEW skipped, NEW reach \in Cursors, NEW kind \in Kinds,
           kind = "tactical" => reach["quiet"] = <<0, 0>>,
           NEW page \in Nat, NEW row \in Nat, reach[kind] = <<page, row>>,
           page < MaxPages, row <= Len(PageAt(kind, page)),
           \/ Complete(Upto(skipped, reach).known, kind)
           \/ \A i \in row + 1 .. Len(PageAt(kind, page)) : <<kind, page, i>> \in skipped
    PROVE  Upto(skipped, [reach EXCEPT ![kind] = <<page + 1, 0>>]) = Upto(skipped, reach)
<1> DEFINE next == [reach EXCEPT ![kind] = <<page + 1, 0>>]
           first(r) == Through(skipped, Loaded(<<>>, Origin), "tactical", r["tactical"])
<1>1. \A r : Upto(skipped, r) = Through(skipped, first(r), "quiet", r["quiet"])
  BY DEF Upto
<1>2. CASE kind = "tactical"
  <2>1. next["tactical"] = <<page + 1, 0>> /\ next["quiet"] = <<0, 0>>
        /\ reach["tactical"] = <<page, row>> /\ reach["quiet"] = <<0, 0>>
    BY <1>2 DEF Cursors, Kinds
  <2>2. Upto(skipped, next) = first(next) /\ Upto(skipped, reach) = first(reach)
    <3> HIDE DEF next, first
    <3> QED BY <1>1, <2>1, ThroughOrigin
  <2>3. first(next) = first(reach)
    <3> DEFINE base == Loaded(<<>>, Origin)
    <3>1. /\ first(next) = Through(skipped, base, kind, <<page + 1, 0>>)
          /\ first(reach) = Through(skipped, base, kind, <<page, row>>)
      BY <1>2, <2>1
    <3>2. Upto(skipped, reach) = Through(skipped, base, kind, <<page, row>>)
      BY <2>2, <3>1
    <3> HIDE DEF base, first, next
    <3> QED BY <3>1, <3>2, ThroughRest
  <2> QED BY <2>2, <2>3
<1>3. CASE kind = "quiet"
  <2>1. next["quiet"] = <<page + 1, 0>> /\ reach["quiet"] = <<page, row>>
        /\ next["tactical"] = reach["tactical"]
    BY <1>3 DEF Cursors, Kinds
  <2>2. first(next) = first(reach)
    BY <2>1
  <2> HIDE DEF next, first
  <2>3. /\ Upto(skipped, next) = Through(skipped, first(reach), kind, <<page + 1, 0>>)
        /\ Upto(skipped, reach) = Through(skipped, first(reach), kind, <<page, row>>)
    BY <1>1, <1>3, <2>1, <2>2
  <2>4. Upto(skipped, next) = Upto(skipped, reach)
    BY <2>3, ThroughRest
  <2> QED BY <2>4 DEF next
<1> QED BY <1>2, <1>3 DEF Kinds

\* Records given up behind its cursors are all that matters to it.
LEMMA UptoSame ==
    ASSUME NEW L, NEW M, NEW reach \in Cursors,
           \A kind \in Kinds : reach[kind][1] <= MaxPages /\ Agree(L, M, kind, reach[kind])
    PROVE  Upto(L, reach) = Upto(M, reach)
<1>1. ASSUME NEW kind \in Kinds, NEW mem
      PROVE  Through(L, mem, kind, reach[kind]) = Through(M, mem, kind, reach[kind])
  <2> DEFINE page == reach[kind][1]
             row  == reach[kind][2]
  <2>1. page \in Nat /\ row \in Nat /\ reach[kind] = <<page, row>>
    BY DEF Cursors
  <2>2. page <= MaxPages /\ Agree(L, M, kind, reach[kind])
    OBVIOUS
  <2> HIDE DEF page, row
  <2> QED BY <2>1, <2>2, ThroughSame
<1>2. "tactical" \in Kinds /\ "quiet" \in Kinds
  BY DEF Kinds
<1> QED BY <1>1, <1>2 DEF Upto

\* Its cursors are where the files say, and no cursor stands in a page whose
\* download is not in the cache.
CursorOK ==
    /\ pc # "off" => memory.cursors = progress
    /\ \A kind \in Kinds :
          /\ progress[kind][1] <= MaxPages
          /\ progress[kind][2] # 0 => /\ progress[kind][1] < MaxPages
                                      /\ progress[kind][2] <= Len(PageAt(kind, progress[kind][1]))
                                      /\ PageKey(kind, progress[kind][1]) \in cached
    /\ pc = "page" => /\ at.page = progress[at.kind][1]
                      /\ at.page = resume[1] => progress[at.kind] = resume
                      /\ at.page # resume[1] => progress[at.kind][2] = 0
    /\ pc \in {"page", "row", "accept", "mark"} =>
          /\ resume[1] <= at.page
          /\ at.kind = "tactical" => progress["quiet"] = <<0, 0>>
    /\ pc \in {"row", "accept", "mark"} => /\ progress[at.kind] = <<at.page, at.row>>
                                           /\ PageKey(at.kind, at.page) \in cached
    /\ pc \in {"accept", "mark"} => at.row < Len(PageAt(at.kind, at.page))

\* A record is given up before the cursor passes it.
LostOK ==
    \A kind \in Kinds, page, row \in Nat :
        <<kind, page, row>> \in lost =>
            \/ page < progress[kind][1]
            \/ page = progress[kind][1] /\ row <= progress[kind][2]

\* One record further, whose item is on the disk.
AheadOf(kind, cursor) ==
    LET page == progress[kind][1]
        row  == progress[kind][2]
    IN  /\ cursor = <<page, row + 1>>
        /\ page < MaxPages /\ row < Len(PageAt(kind, page))
        /\ PageKey(kind, page) \in cached
        /\ Settled(kind, PageAt(kind, page)[row + 1], Tracked(selected))

Near(kind, cursor) == cursor = progress[kind] \/ AheadOf(kind, cursor)

\* The pass up to there holds what the disk holds; it has not begun with the games
\* while puzzles are read.
Holds(reach) ==
    /\ reach \in Cursors
    /\ Upto(lost, reach).held = selected /\ Upto(lost, reach).known = Tracked(selected)
    /\ ~Complete(Tracked(selected), "tactical") => reach["quiet"] = <<0, 0>>
    /\ pc \in {"page", "row", "accept", "mark"} /\ at.kind = "tactical" => reach["quiet"] = <<0, 0>>

\* The cursor of a kind, and what the other kind may have ahead.
NearFor(kinds, reach) == \A kind \in kinds : Near(kind, reach[kind])

PassOK == \E reach : Holds(reach) /\ NearFor(Kinds, reach)

\* While a record is being given up or accepted, the pass stands before it.
BeforeOK ==
    pc = "accept" \/ (pc = "mark" /\ givenUp) =>
        \E reach : /\ Holds(reach) /\ reach[at.kind] = <<at.page, at.row>>
                   /\ NearFor(Kinds \ {at.kind}, reach)

\* When it has been read, behind it.
BehindOK ==
    pc = "mark" /\ ~givenUp =>
        \E reach : /\ Holds(reach) /\ reach[at.kind] = <<at.page, at.row + 1>>
                   /\ NearFor(Kinds \ {at.kind}, reach)

\* What is about to be accepted is what an undisturbed reading gives.
FoundOK ==
    pc = "accept" => /\ givenUp = FALSE
                     /\ ~Complete(memory.known, at.kind)
                     /\ Read(at.kind, memory, RecordHere, {}).end = "accepted"
                     /\ Read(at.kind, memory, RecordHere, {}).item = found

ResumeOK == CursorOK /\ LostOK /\ PassOK /\ BeforeOK /\ BehindOK /\ FoundOK

LEMMA ResumeBegins == Init => ResumeOK
<1> SUFFICES ASSUME Init PROVE ResumeOK
  OBVIOUS
<1>1. /\ selected = <<>> /\ progress = Origin /\ pc = "off" /\ lost = {}
  BY DEF Init, InitCuration
<1>2. MaxPages \in Nat
  BY CurationAssumption
<1>3. Origin \in Cursors /\ \A kind \in Kinds : Origin[kind] = <<0, 0>>
  BY DEF Origin, Cursors
<1>4. CursorOK
  BY <1>1, <1>2, <1>3 DEF CursorOK
<1>5. LostOK
  BY <1>1 DEF LostOK
<1>6. Holds(Origin)
  <2>1. Origin["tactical"] = <<0, 0>> /\ Origin["quiet"] = <<0, 0>>
    BY <1>3 DEF Kinds
  <2>2. Upto(lost, Origin) = Loaded(<<>>, Origin)
    BY <2>1, ThroughOrigin DEF Upto
  <2>3. Loaded(<<>>, Origin).held = <<>> /\ Loaded(<<>>, Origin).known = Tracked(<<>>)
    BY DEF Loaded
  <2> QED BY <1>1, <1>3, <2>1, <2>2, <2>3 DEF Holds
<1>7. PassOK
  <2>1. NearFor(Kinds, Origin)
    BY <1>1 DEF NearFor, Near
  <2> QED BY <1>6, <2>1 DEF PassOK
<1>8. BeforeOK /\ BehindOK /\ FoundOK
  BY <1>1 DEF BeforeOK, BehindOK, FoundOK
<1> QED BY <1>4, <1>5, <1>7, <1>8 DEF ResumeOK

\* What a cursor looks like, and one that is near it.
LEMMA CursorsAre ==
    ASSUME CuratorOK, CursorOK, NEW kind \in Kinds
    PROVE  /\ progress[kind] = <<progress[kind][1], progress[kind][2]>>
           /\ progress[kind][1] \in Nat /\ progress[kind][2] \in Nat
           /\ progress[kind][1] <= MaxPages /\ MaxPages \in Nat
           /\ \A cursor : Near(kind, cursor) => /\ cursor[1] = progress[kind][1]
                                                /\ cursor[2] # 0 \/ cursor = progress[kind]
<1>1. progress[kind] \in Nat \X Nat /\ MaxPages \in Nat
  BY CurationAssumption DEF CuratorOK, PlaceOK
<1> QED BY <1>1 DEF CursorOK, Near, AheadOf

\* Two names for the record being read.
LEMMA HereIs ==
    ASSUME CuratorOK, pc \in {"row", "accept", "mark"}
    PROVE  /\ PageHere = PageAt(at.kind, at.page)
           /\ RecordHere = PageAt(at.kind, at.page)[at.row + 1]
           /\ Len(PageHere) \in Nat
<1>1. at.kind \in Kinds /\ at.page \in Nat /\ at.page < MaxPages
  BY DEF CuratorOK, PlaceOK
<1>2. PageHere = PageAt(at.kind, at.page)
  BY DEF PageHere, PageAt
<1>3. Len(PageAt(at.kind, at.page)) \in Nat
  BY <1>1, PagesAreLists
<1> QED BY <1>2, <1>3 DEF RecordHere

\* What is selected and cached only grows, so a cursor stays near.
LEMMA NearKept ==
    ASSUME NEW kind \in Kinds, NEW cursor, Near(kind, cursor), progress'[kind] = progress[kind],
           cached \subseteq cached', Tracked(selected).games \subseteq Tracked(selected').games
    PROVE  Near(kind, cursor)'
BY DEF Near, AheadOf, Settled

LEMMA NearForKept ==
    ASSUME NEW kinds \in SUBSET Kinds, NEW reach, NearFor(kinds, reach),
           \A kind \in kinds : progress'[kind] = progress[kind],
           cached \subseteq cached', Tracked(selected).games \subseteq Tracked(selected').games
    PROVE  NearFor(kinds, reach)'
<1> SUFFICES ASSUME NEW kind \in kinds PROVE Near(kind, reach[kind])'
  BY DEF NearFor
<1> DEFINE cursor == reach[kind]
<1>1. Near(kind, cursor) /\ kind \in Kinds /\ progress'[kind] = progress[kind]
  BY DEF NearFor
<1> HIDE DEF cursor
<1>2. Near(kind, cursor)'
  BY <1>1, NearKept
<1> QED BY <1>2 DEF cursor

\* A step that selects and gives up nothing leaves the pass as it was.
LEMMA HoldsKept ==
    ASSUME NEW reach, Holds(reach), UNCHANGED <<selected, lost>>,
           pc' \in {"page", "row", "accept", "mark"} /\ at'.kind = "tactical" => reach["quiet"] = <<0, 0>>
    PROVE  Holds(reach)'
<1>1. Upto(lost, reach)' = Upto(lost, reach) /\ Tracked(selected)' = Tracked(selected)
  <2>1. lost' = lost /\ selected' = selected
    OBVIOUS
  <2> QED BY <2>1
<1>2. Complete(Tracked(selected), "tactical")' = Complete(Tracked(selected), "tactical")
  OBVIOUS
<1> QED BY <1>1, <1>2 DEF Holds

\* A cursor of the pass that is moved.
LEMMA MovedReach ==
    ASSUME NEW reach \in Cursors, NEW kind \in Kinds, NEW page \in Nat, NEW row \in Nat
    PROVE  LET next == [reach EXCEPT ![kind] = <<page, row>>]
           IN  /\ next \in Cursors /\ next[kind] = <<page, row>>
               /\ \A other \in Kinds \ {kind} : next[other] = reach[other]
               /\ kind = "tactical" => next["quiet"] = reach["quiet"]
BY DEF Cursors, Kinds

\* Between the records, nothing is known but the cursors.
LEMMA PauseKeepsResume ==
    ASSUME CuratorOK, ResumeOK, UNCHANGED <<selected, progress, lost>>, cached \subseteq cached',
           pc' \notin {"page", "row", "accept", "mark"},
           pc' # "off" => memory'.cursors = progress
    PROVE  ResumeOK'
<1>1. CursorOK /\ LostOK /\ PassOK
  BY DEF ResumeOK
<1>2. CursorOK'
  BY <1>1 DEF CursorOK
<1>3. LostOK'
  BY <1>1 DEF LostOK
<1>4. PassOK'
  <2>1. PICK reach : Holds(reach) /\ NearFor(Kinds, reach)
    BY <1>1 DEF PassOK
  <2>2. Holds(reach)'
    BY <2>1, HoldsKept
  <2>3. Tracked(selected).games \subseteq Tracked(selected').games
    OBVIOUS
  <2>4. NearFor(Kinds, reach)'
    BY <2>1, <2>3, NearForKept
  <2> QED BY <2>2, <2>4 DEF PassOK
<1>5. (BeforeOK /\ BehindOK /\ FoundOK)'
  BY DEF BeforeOK, BehindOK, FoundOK
<1> QED BY <1>2, <1>3, <1>4, <1>5 DEF ResumeOK

\* What the steps between the records have in common: no record is being given up or
\* accepted, and the pass stays where it was.
LEMMA StepsKeepPass ==
    ASSUME CuratorOK, ResumeOK, UNCHANGED <<selected, progress, lost>>, cached \subseteq cached',
           pc \in {"kind", "page"}, ~Full, pc' \in {"page", "row"}, at'.kind = at.kind
    PROVE  /\ LostOK' /\ PassOK' /\ BeforeOK' /\ BehindOK' /\ FoundOK'
           /\ at.kind = "tactical" => progress["quiet"] = <<0, 0>>
<1>1. CursorOK /\ LostOK /\ PassOK
  BY DEF ResumeOK
<1>2. LostOK'
  BY <1>1 DEF LostOK
<1>3. PICK reach : Holds(reach) /\ NearFor(Kinds, reach)
  BY <1>1 DEF PassOK
<1>4. at.kind = "tactical" => reach["quiet"] = <<0, 0>>
  <2>1. memory.known = Tracked(selected)
    BY DEF CuratorOK, HeldOK
  <2> QED BY <1>3, <2>1 DEF Full, Holds
<1>5. PassOK'
  <2>1. Holds(reach)'
    BY <1>3, <1>4, HoldsKept
  <2>2. Tracked(selected).games \subseteq Tracked(selected').games
    OBVIOUS
  <2>3. NearFor(Kinds, reach)'
    BY <1>3, <2>2, NearForKept
  <2> QED BY <2>1, <2>3 DEF PassOK
<1>6. at.kind = "tactical" => progress["quiet"] = <<0, 0>>
  <2> SUFFICES ASSUME at.kind = "tactical" PROVE progress["quiet"] = <<0, 0>>
    OBVIOUS
  <2>1. "quiet" \in Kinds
    BY DEF Kinds
  <2>2. Near("quiet", <<0, 0>>)
    BY <1>3, <1>4, <2>1 DEF NearFor
  <2> QED BY <1>1, <2>1, <2>2, CursorsAre
<1> QED BY <1>2, <1>5, <1>6 DEF BeforeOK, BehindOK, FoundOK

LEMMA BeginKindKeepsResume ==
    ASSUME CuratorOK, ResumeOK, BeginKind
    PROVE  ResumeOK'
<1>1. /\ pc = "kind" /\ ~Full /\ pc' = "page" /\ Fetched(<<CountKey(at.kind)>>)
      /\ resume' = memory.cursors[at.kind] /\ at' = [at EXCEPT !.page = memory.cursors[at.kind][1]]
      /\ UNCHANGED <<selected, progress, memory, lost>>
  BY DEF BeginKind
<1>2. /\ CursorOK /\ at.kind \in Kinds
      /\ at = [kind |-> at.kind, page |-> at.page, row |-> at.row, file |-> at.file]
  BY DEF CuratorOK, PlaceOK, ResumeOK
<1>3. memory.cursors = progress
  BY <1>1, <1>2 DEF CursorOK
<1>4. at'.kind = at.kind /\ at'.page = progress[at.kind][1] /\ resume' = progress[at.kind]
  BY <1>1, <1>2, <1>3
<1>5. cached \subseteq cached'
  BY <1>1 DEF Fetched
<1>6. /\ LostOK' /\ PassOK' /\ BeforeOK' /\ BehindOK' /\ FoundOK'
      /\ at.kind = "tactical" => progress["quiet"] = <<0, 0>>
  BY <1>1, <1>4, <1>5, StepsKeepPass
<1>7. CursorOK'
  <2>1. progress[at.kind][1] \in Nat
    BY <1>2, CursorsAre
  <2> QED BY <1>1, <1>2, <1>3, <1>4, <1>5, <1>6, <2>1 DEF CursorOK
<1> QED BY <1>6, <1>7 DEF ResumeOK

LEMMA BeginPageKeepsResume ==
    ASSUME CuratorOK, ResumeOK, BeginPage
    PROVE  ResumeOK'
<1>1. /\ pc = "page" /\ ~Full /\ at.page < MaxPages /\ pc' = "row"
      /\ Fetched(<<PageKey(at.kind, at.page)>>)
      /\ PageKey(at.kind, at.page) \notin spoilt
      /\ at' = [at EXCEPT !.row = IF at.page = resume[1] THEN resume[2] ELSE 0]
      /\ UNCHANGED <<selected, progress, resume, memory, lost>>
  BY DEF BeginPage
<1>2. /\ CursorOK /\ at.kind \in Kinds
      /\ at = [kind |-> at.kind, page |-> at.page, row |-> at.row, file |-> at.file]
  BY DEF CuratorOK, PlaceOK, ResumeOK
<1>3. at'.kind = at.kind /\ at'.page = at.page
      /\ at'.row = IF at.page = resume[1] THEN resume[2] ELSE 0
  BY <1>1, <1>2
<1>4. cached \subseteq cached' /\ PageKey(at.kind, at.page) \in cached'
  <2>1. \A x : ToSet(<<x>>) = {x}
    BY DEF ToSet
  <2> QED BY <1>1, <2>1 DEF Fetched
<1>5. /\ LostOK' /\ PassOK' /\ BeforeOK' /\ BehindOK' /\ FoundOK'
      /\ at.kind = "tactical" => progress["quiet"] = <<0, 0>>
  BY <1>1, <1>3, <1>4, StepsKeepPass
<1>6. progress[at.kind] = <<at.page, at'.row>>
  <2>1. progress[at.kind] = <<progress[at.kind][1], progress[at.kind][2]>>
    BY <1>2, CursorsAre
  <2>2. /\ at.page = progress[at.kind][1]
        /\ at.page = resume[1] => progress[at.kind] = resume
        /\ at.page # resume[1] => progress[at.kind][2] = 0
    BY <1>1, <1>2 DEF CursorOK
  <2> QED BY <1>3, <2>1, <2>2
<1>7. CursorOK'
  <2>1. memory'.cursors = progress' /\ resume'[1] <= at'.page
    BY <1>1, <1>2, <1>3 DEF CursorOK
  <2>2. \A kind \in Kinds :
          /\ progress'[kind][1] <= MaxPages
          /\ progress'[kind][2] # 0 => /\ progress'[kind][1] < MaxPages
                                      /\ progress'[kind][2] <= Len(PageAt(kind, progress'[kind][1]))
                                      /\ PageKey(kind, progress'[kind][1]) \in cached'
    BY <1>1, <1>2, <1>4 DEF CursorOK
  <2> QED BY <1>1, <1>3, <1>4, <1>5, <1>6, <2>1, <2>2 DEF CursorOK
<1> QED BY <1>5, <1>7 DEF ResumeOK

\* Where the process reads, the pass stands before the record, or one behind a record
\* that the process is going to pass by.
LEMMA BeforeRecord ==
    ASSUME CuratorOK, ResumeOK, pc = "row", at.row < Len(PageHere)
    PROVE  \E reach : /\ Holds(reach) /\ NearFor(Kinds, reach)
                      /\ \/ reach[at.kind] = <<at.page, at.row>>
                         \/ /\ reach[at.kind] = <<at.page, at.row + 1>>
                            /\ Settled(at.kind, RecordHere, memory.known)
<1>1. PICK reach : Holds(reach) /\ NearFor(Kinds, reach)
  BY DEF ResumeOK, PassOK
<1>2. /\ at.kind \in Kinds /\ at.page \in Nat /\ at.row \in Nat
      /\ progress[at.kind] = <<at.page, at.row>>
  BY DEF CuratorOK, PlaceOK, ResumeOK, CursorOK
<1>3. memory.known = Tracked(selected)
  BY DEF CuratorOK, HeldOK
<1>4. RecordHere = PageAt(at.kind, at.page)[at.row + 1]
  BY HereIs
<1>5. Near(at.kind, reach[at.kind])
  BY <1>1, <1>2 DEF NearFor
<1>6. \/ reach[at.kind] = <<at.page, at.row>>
      \/ /\ reach[at.kind] = <<at.page, at.row + 1>>
         /\ Settled(at.kind, RecordHere, memory.known)
  BY <1>2, <1>3, <1>4, <1>5 DEF Near, AheadOf
<1> QED BY <1>1, <1>6

\* The pass goes on to behind a record: what it holds then, and the cursors that it
\* has not moved.
GoesOn(skipped, reach, kind, page, row, next) ==
    /\ next \in Cursors /\ next[kind] = <<page, row + 1>>
    /\ \A other \in Kinds \ {kind} : next[other] = reach[other]
    /\ kind = "tactical" => next["quiet"] = <<0, 0>>
    /\ Upto(skipped, next) = Undisturbed(skipped, Upto(skipped, reach), <<kind, page, row + 1>>)

LEMMA PassOn ==
    ASSUME NEW skipped, NEW reach \in Cursors, NEW kind \in Kinds,
           kind = "tactical" => reach["quiet"] = <<0, 0>>,
           NEW page \in Nat, NEW row \in Nat, reach[kind] = <<page, row>>
    PROVE  \E next : GoesOn(skipped, reach, kind, page, row, next)
<1> DEFINE next == [reach EXCEPT ![kind] = <<page, row + 1>>]
<1>1. row + 1 \in Nat
  OBVIOUS
<1>2. /\ next \in Cursors /\ next[kind] = <<page, row + 1>>
      /\ \A other \in Kinds \ {kind} : next[other] = reach[other]
      /\ kind = "tactical" => next["quiet"] = reach["quiet"]
  BY <1>1, MovedReach
<1>3. Upto(skipped, next) = Undisturbed(skipped, Upto(skipped, reach), <<kind, page, row + 1>>)
  BY UptoNext
<1> HIDE DEF next
<1>4. GoesOn(skipped, reach, kind, page, row, next)
  BY <1>2, <1>3 DEF GoesOn
<1> QED BY <1>4

\* What the pass makes of the record is what the process makes of it.
LEMMA PassReads ==
    ASSUME NEW mem, mem.held = memory.held, mem.known = memory.known, NEW skipped, CuratorOK,
           pc \in {"row", "accept"}
    PROVE  LET read  == Read(at.kind, memory, RecordHere, {})
               place == <<at.kind, at.page, at.row + 1>>
           IN  Undisturbed(skipped, mem, place) =
                   IF place \in skipped \/ Complete(memory.known, at.kind) \/ read.end # "accepted"
                   THEN mem ELSE Kept(mem, read.item)
<1> DEFINE place == <<at.kind, at.page, at.row + 1>>
<1>1. RecordHere = PageAt(at.kind, at.page)[at.row + 1]
  BY HereIs
<1>2. Read(at.kind, mem, RecordHere, {}) = Read(at.kind, memory, RecordHere, {})
  BY SameRead
<1>3. place[1] = at.kind /\ place[2] = at.page /\ place[3] = at.row + 1
  OBVIOUS
<1> HIDE DEF place
<1>4. Undisturbed(skipped, mem, place) =
          IF place \in skipped \/ Complete(mem.known, at.kind)
                \/ Read(at.kind, mem, RecordHere, {}).end # "accepted"
          THEN mem ELSE Kept(mem, Read(at.kind, mem, RecordHere, {}).item)
  BY <1>1, <1>3 DEF Undisturbed, Gained
<1>5. Undisturbed(skipped, mem, place) =
          IF place \in skipped \/ Complete(memory.known, at.kind)
                \/ Read(at.kind, memory, RecordHere, {}).end # "accepted"
          THEN mem ELSE Kept(mem, Read(at.kind, memory, RecordHere, {}).item)
  BY <1>2, <1>4
<1> QED BY <1>5 DEF place

\* The steps that read a record: nothing but the place in it, and the cache, changes.
LEMMA ReadingKeepsPass ==
    ASSUME CuratorOK, ResumeOK, UNCHANGED <<selected, progress, lost, at, resume, memory>>,
           cached \subseteq cached', pc = "row", at.row < Len(PageHere), pc' \in {"accept", "mark"}
    PROVE  CursorOK' /\ LostOK' /\ PassOK'
<1>1. CursorOK /\ LostOK /\ PassOK
  BY DEF ResumeOK
<1>2. LostOK'
  BY <1>1 DEF LostOK
<1>3. CursorOK'
  <2>1. PageHere = PageAt(at.kind, at.page)
    BY HereIs
  <2> QED BY <1>1, <2>1 DEF CursorOK
<1>4. PICK reach : Holds(reach) /\ NearFor(Kinds, reach)
  BY <1>1 DEF PassOK
<1>5. Holds(reach)'
  <2>1. at.kind = "tactical" => reach["quiet"] = <<0, 0>>
    BY <1>4 DEF Holds
  <2> QED BY <1>4, <2>1, HoldsKept
<1>6. NearFor(Kinds, reach)'
  <2>1. Tracked(selected).games \subseteq Tracked(selected').games
    OBVIOUS
  <2> QED BY <1>4, <2>1, NearForKept
<1> QED BY <1>2, <1>3, <1>5, <1>6 DEF PassOK

LEMMA OthersKept ==
    ASSUME UNCHANGED <<selected, progress>>, cached \subseteq cached', at' = at,
           NEW reach, NearFor(Kinds \ {at.kind}, reach)
    PROVE  NearFor(Kinds \ {at.kind}, reach)'
<1> DEFINE others == Kinds \ {at.kind}
<1>1. Tracked(selected).games \subseteq Tracked(selected').games
  OBVIOUS
<1>2. others \in SUBSET Kinds /\ others' = others
  OBVIOUS
<1>3. NearFor(others, reach) /\ \A kind \in others : progress'[kind] = progress[kind]
  OBVIOUS
<1>4. \A kind \in others : Near(kind, reach[kind])'
  <2> SUFFICES ASSUME NEW kind \in others PROVE Near(kind, reach[kind])'
    OBVIOUS
  <2> DEFINE cursor == reach[kind]
  <2>1. Near(kind, cursor) /\ kind \in Kinds
    BY <1>3 DEF NearFor
  <2> HIDE DEF cursor
  <2>2. Near(kind, cursor)'
    BY <1>1, <2>1, NearKept
  <2> QED BY <2>2 DEF cursor
<1>5. at'.kind = at.kind
  OBVIOUS
<1> QED BY <1>4, <1>5 DEF NearFor

LEMMA ExportUnavailableKeepsResume ==
    ASSUME CuratorOK, ResumeOK, ExportUnavailable
    PROVE  ResumeOK'
<1>1. /\ pc = "row" /\ at.row < Len(PageHere) /\ at.kind = "tactical"
      /\ WantedPuzzle(memory, RecordHere)
      /\ givenUp' = TRUE /\ pc' = "mark"
      /\ UNCHANGED <<selected, progress, cached, at, resume, memory, lost>>
  BY DEF ExportUnavailable, disk
<1>2. CursorOK' /\ LostOK' /\ PassOK'
  BY <1>1, ReadingKeepsPass
<1>3. ~Settled(at.kind, RecordHere, memory.known)
  BY <1>1 DEF Settled, WantedPuzzle, Taken
<1>4. PICK reach : Holds(reach) /\ NearFor(Kinds, reach) /\ reach[at.kind] = <<at.page, at.row>>
  BY <1>1, <1>3, BeforeRecord
<1>5. BeforeOK'
  <2>1. reach["quiet"] = <<0, 0>>
    BY <1>1, <1>4 DEF Holds
  <2>2. Holds(reach)'
    BY <1>1, <1>4, <2>1, HoldsKept
  <2>3. NearFor(Kinds \ {at.kind}, reach)
    BY <1>4 DEF NearFor
  <2>4. NearFor(Kinds \ {at.kind}, reach)'
    BY <1>1, <2>3, OthersKept
  <2>5. reach[at'.kind] = <<at'.page, at'.row>>
    BY <1>1, <1>4
  <2> QED BY <2>2, <2>4, <2>5 DEF BeforeOK
<1>6. BehindOK' /\ FoundOK'
  BY <1>1 DEF BehindOK, FoundOK
<1> QED BY <1>2, <1>5, <1>6 DEF ResumeOK

\* A record that is already settled is passed by; any other one is read with the pass
\* standing before it.
LEMMA ReadRecordKeepsResume ==
    ASSUME CuratorOK, ResumeOK, ReadRecord
    PROVE  ResumeOK'
<1>0. PICK reaching \in SUBSET CutOff :
         /\ pc = "row" /\ at.row < Len(PageHere) /\ ~Full
         /\ found' = ReadHere(reaching).item /\ givenUp' = (ReadHere(reaching).end = "given_up")
         /\ pc' = IF ReadHere(reaching).end = "accepted" THEN "accept" ELSE "mark"
         /\ Fetched(ReadHere(reaching).keys)
         /\ UNCHANGED <<selected, progress, at, resume, memory, lost>>
  BY DEF ReadRecord, Take
<1> DEFINE read == Read(at.kind, memory, RecordHere, spoilt \ reaching)
           pure == Read(at.kind, memory, RecordHere, {})
<1>1. /\ pc = "row" /\ at.row < Len(PageHere) /\ ~Complete(memory.known, at.kind)
      /\ found' = read.item /\ givenUp' = (read.end = "given_up")
      /\ pc' = IF read.end = "accepted" THEN "accept" ELSE "mark"
      /\ Fetched(read.keys)
      /\ UNCHANGED <<selected, progress, at, resume, memory, lost>>
  BY <1>0 DEF ReadHere, Full
<1>2. cached \subseteq cached'
  BY <1>1 DEF Fetched
<1>3. /\ at.kind \in Kinds /\ at.page \in Nat /\ at.row \in Nat
      /\ memory.held = selected /\ memory.known = Tracked(selected)
  BY <1>1 DEF CuratorOK, PlaceOK, HeldOK
<1>4. read.end # "given_up" => pure.end = read.end /\ pure.item = read.item
  BY <1>1, <1>3, RecordHereOK, UnbrokenRead
<1>5. Settled(at.kind, RecordHere, memory.known) => read.end = "passed"
  BY <1>3, SettledPasses
<1>6. RecordHere' = RecordHere
  BY <1>1 DEF RecordHere, PageHere
<1> HIDE DEF read, pure
<1>7. CursorOK' /\ LostOK' /\ PassOK'
  BY <1>1, <1>2, ReadingKeepsPass
<1>8. PICK reach : /\ Holds(reach) /\ NearFor(Kinds, reach)
                   /\ \/ reach[at.kind] = <<at.page, at.row>>
                      \/ /\ reach[at.kind] = <<at.page, at.row + 1>>
                         /\ Settled(at.kind, RecordHere, memory.known)
  BY <1>1, BeforeRecord
<1>9. ASSUME NEW next, Holds(next), NearFor(Kinds \ {at.kind}, next)
      PROVE  Holds(next)' /\ NearFor(Kinds \ {at.kind}, next)'
  <2>1. at.kind = "tactical" => next["quiet"] = <<0, 0>>
    BY <1>1, <1>9 DEF Holds
  <2>2. Holds(next)'
    BY <1>1, <1>9, <2>1, HoldsKept
  <2> QED BY <1>1, <1>2, <1>9, <2>2, OthersKept
<1>10. Holds(reach)' /\ NearFor(Kinds \ {at.kind}, reach)'
  <2>1. NearFor(Kinds \ {at.kind}, reach)
    BY <1>8 DEF NearFor
  <2> QED BY <1>8, <1>9, <2>1
<1>11. at'.kind = at.kind /\ at'.page = at.page /\ at'.row = at.row
  BY <1>1
<1>12. CASE read.end = "accepted"
  <2>1. pc' = "accept" /\ givenUp' = FALSE /\ found' = pure.item /\ pure.end = "accepted"
    BY <1>1, <1>4, <1>12
  <2>2. reach[at.kind] = <<at.page, at.row>>
    BY <1>5, <1>8, <1>12
  <2>3. BeforeOK'
    BY <1>10, <1>11, <2>2 DEF BeforeOK
  <2>4. FoundOK'
    <3>1. Complete(memory.known, at.kind)' = Complete(memory.known, at.kind)
      BY <1>1
    <3>2. Read(at.kind, memory, RecordHere, {})' = pure
      BY <1>1, <1>6 DEF pure
    <3> QED BY <1>1, <2>1, <3>1, <3>2 DEF FoundOK
  <2> QED BY <1>7, <2>1, <2>3, <2>4 DEF ResumeOK, BehindOK
<1>13. CASE read.end = "given_up"
  <2>1. pc' = "mark" /\ givenUp' = TRUE
    BY <1>1, <1>13
  <2>2. reach[at.kind] = <<at.page, at.row>>
    BY <1>5, <1>8, <1>13
  <2>3. BeforeOK'
    BY <1>10, <1>11, <2>2 DEF BeforeOK
  <2> QED BY <1>7, <2>1, <2>3 DEF ResumeOK, BehindOK, FoundOK
<1>14. CASE read.end \notin {"accepted", "given_up"}
  <2>1. pc' = "mark" /\ givenUp' = FALSE /\ pure.end # "accepted"
    BY <1>1, <1>4, <1>14
  <2>2. BehindOK'
    <3>1. CASE reach[at.kind] = <<at.page, at.row + 1>>
      BY <1>10, <1>11, <3>1 DEF BehindOK
    <3>2. CASE reach[at.kind] = <<at.page, at.row>>
      <4>1. reach \in Cursors /\ (at.kind = "tactical" => reach["quiet"] = <<0, 0>>)
        BY <1>1, <1>8 DEF Holds
      <4>2. PICK next : GoesOn(lost, reach, at.kind, at.page, at.row, next)
        BY <1>3, <3>2, <4>1, PassOn
      <4>3. Upto(lost, next) = Upto(lost, reach)
        <5> DEFINE mem == Upto(lost, reach)
        <5>1. mem.held = memory.held /\ mem.known = memory.known
          BY <1>3, <1>8 DEF Holds
        <5> HIDE DEF mem
        <5>2. Undisturbed(lost, mem, <<at.kind, at.page, at.row + 1>>) = mem
          BY <1>1, <2>1, <5>1, PassReads DEF pure
        <5> QED BY <4>2, <5>2 DEF mem, GoesOn
      <4>4. Holds(next)
        <5>1. at.kind = "quiet" => Complete(Tracked(selected), "tactical")
          BY <1>1, <1>3 DEF CuratorOK, FullOK
        <5> QED BY <1>3, <1>8, <4>2, <4>3, <5>1 DEF Holds, Kinds, GoesOn
      <4>5. NearFor(Kinds \ {at.kind}, next)
        BY <1>8, <4>2 DEF NearFor, GoesOn
      <4>6. Holds(next)' /\ NearFor(Kinds \ {at.kind}, next)'
        BY <1>9, <4>4, <4>5
      <4> QED BY <1>11, <4>2, <4>6 DEF BehindOK, GoesOn
    <3> QED BY <1>8, <3>1, <3>2
  <2> QED BY <1>7, <2>1, <2>2 DEF ResumeOK, BeforeOK, FoundOK
<1> QED BY <1>12, <1>13, <1>14

\* The record is on the disk: the pass goes on over it.
LEMMA AcceptKeepsResume ==
    ASSUME CuratorOK, CuratorOK', ResumeOK, Accept
    PROVE  ResumeOK'
<1> DEFINE pure  == Read(at.kind, memory, RecordHere, {})
           place == <<at.kind, at.page, at.row + 1>>
<1>1. /\ pc = "accept" /\ pc' = "mark" /\ selected' = Append(selected, found)
      /\ memory' = Kept(memory, found)
      /\ UNCHANGED <<progress, cached, at, resume, givenUp, lost>>
  BY DEF Accept
<1>2. /\ at.kind \in Kinds /\ at.page \in Nat /\ at.row \in Nat /\ at.page < MaxPages
      /\ memory.held = selected /\ memory.known = Tracked(selected)
      /\ selected \in Seq({selected[i] : i \in DOMAIN selected})
  BY <1>1 DEF CuratorOK, PlaceOK, HeldOK, Selection
<1>3. /\ CursorOK /\ LostOK
      /\ progress[at.kind] = <<at.page, at.row>> /\ PageKey(at.kind, at.page) \in cached
      /\ at.row < Len(PageAt(at.kind, at.page))
  BY <1>1 DEF ResumeOK, CursorOK
<1>4. /\ givenUp = FALSE /\ ~Complete(memory.known, at.kind)
      /\ pure.end = "accepted" /\ pure.item = found
  BY <1>1 DEF ResumeOK, FoundOK
<1>5. PICK reach : /\ Holds(reach) /\ reach[at.kind] = <<at.page, at.row>>
                   /\ NearFor(Kinds \ {at.kind}, reach)
  BY <1>1 DEF ResumeOK, BeforeOK
<1>6. reach \in Cursors /\ (at.kind = "tactical" => reach["quiet"] = <<0, 0>>)
  BY <1>1, <1>5 DEF Holds
<1>7. PICK next : GoesOn(lost, reach, at.kind, at.page, at.row, next)
  BY <1>2, <1>5, <1>6, PassOn
<1>8. place \notin lost
  <2> SUFFICES ASSUME place \in lost PROVE FALSE
    OBVIOUS
  <2>1. at.row + 1 \in Nat
    BY <1>2
  <2>2. \/ at.page < progress[at.kind][1]
        \/ at.page = progress[at.kind][1] /\ at.row + 1 <= progress[at.kind][2]
    BY <1>2, <1>3, <2>1 DEF LostOK
  <2> QED BY <1>2, <1>3, <2>2
<1>9. Tracked(selected') = Track(Tracked(selected), found.position)
  BY <1>1, <1>2, TrackedGrows
<1>10. Upto(lost, next).held = selected' /\ Upto(lost, next).known = Tracked(selected')
  <2> DEFINE mem == Upto(lost, reach)
  <2>1. mem.held = memory.held /\ mem.known = memory.known
    BY <1>2, <1>5 DEF Holds
  <2> HIDE DEF mem
  <2>2. Undisturbed(lost, mem, place) = Kept(mem, found)
    BY <1>1, <1>4, <1>8, <2>1, PassReads
  <2>3. Upto(lost, next) = Kept(mem, found)
    BY <1>7, <2>2 DEF GoesOn, mem
  <2>4. /\ Kept(mem, found).held = Append(memory.held, found)
        /\ Kept(mem, found).known = Track(memory.known, found.position)
    BY <2>1 DEF Kept
  <2> QED BY <1>1, <1>2, <1>9, <2>3, <2>4
<1>11. found.position.game = RecordHere.game /\ (at.kind = "quiet" => RecordHere.game # NoGame)
  <2>1. RecordOK(at.kind, RecordHere)
    BY <1>1, <1>3, HereIs, RecordHereOK
  <2> QED BY <1>2, <1>4, <2>1, AcceptedSettles
<1>12. /\ Tracked(selected).games \subseteq Tracked(selected').games
       /\ RecordHere.game \in Tracked(selected').games
  <2> DEFINE known == Tracked(selected)
  <2>1. Track(known, found.position).games = known.games \cup {found.position.game}
    BY DEF Track
  <2> HIDE DEF known
  <2> QED BY <1>9, <1>11, <2>1 DEF known
<1>13. CursorOK'
  <2>1. memory'.cursors = memory.cursors
    BY <1>1 DEF Kept
  <2> QED BY <1>1, <1>3, <2>1 DEF CursorOK
<1>14. LostOK'
  BY <1>1, <1>3 DEF LostOK
<1>15. Holds(next)'
  <2>1. at.kind = "quiet" => Complete(Tracked(selected'), "tactical")
    <3>1. pc' # "off" /\ at' = at
      BY <1>1
    <3>2. memory'.known = Tracked(selected')
      BY <3>1 DEF CuratorOK, HeldOK
    <3> QED BY <3>1, <3>2 DEF CuratorOK, FullOK, Complete
  <2>2. Upto(lost, next)' = Upto(lost, next)
    <3>1. lost' = lost
      BY <1>1
    <3> QED BY <3>1
  <2>3. next \in Cursors /\ (at.kind = "tactical" => next["quiet"] = <<0, 0>>)
    BY <1>7 DEF GoesOn
  <2>4. (at.kind = "tactical" \/ at.kind = "quiet") /\ at' = at
    BY <1>1, <1>2 DEF Kinds
  <2> QED BY <1>10, <2>1, <2>2, <2>3, <2>4 DEF Holds
<1>16. Near(at.kind, next[at.kind])'
  <2> DEFINE kind == at.kind
             page == at.page
             row  == at.row
  <2>1. /\ progress'[kind] = <<page, row>> /\ page < MaxPages /\ row < Len(PageAt(kind, page))
        /\ PageKey(kind, page) \in cached'
    BY <1>1, <1>2, <1>3
  <2>2. Settled(kind, PageAt(kind, page)[row + 1], Tracked(selected'))
    <3>1. RecordHere = PageAt(kind, page)[row + 1]
      BY <1>1, HereIs
    <3> QED BY <1>11, <1>12, <3>1 DEF Settled
  <2>3. next[kind] = <<page, row + 1>>
    BY <1>7 DEF GoesOn
  <2>4. at'.kind = kind
    BY <1>1
  <2> HIDE DEF kind, page, row
  <2> QED BY <2>1, <2>2, <2>3, <2>4 DEF Near, AheadOf
<1>17. NearFor(Kinds \ {at.kind}, next)'
  <2> SUFFICES ASSUME NEW other \in Kinds \ {at.kind} PROVE Near(other, next[other])'
    BY <1>1 DEF NearFor
  <2> DEFINE cursor == next[other]
  <2>1. cursor = reach[other]
    BY <1>7 DEF GoesOn
  <2>2. Near(other, cursor) /\ progress'[other] = progress[other]
    BY <1>1, <1>5, <2>1 DEF NearFor
  <2> HIDE DEF cursor
  <2>3. Near(other, cursor)'
    BY <1>1, <1>12, <2>2, NearKept
  <2> QED BY <2>3 DEF cursor
<1>18. PassOK'
  <2>1. NearFor(Kinds, next)'
    BY <1>1, <1>16, <1>17 DEF NearFor
  <2> QED BY <1>15, <2>1 DEF PassOK
<1>19. BehindOK'
  <2>1. next[at'.kind] = <<at'.page, at'.row + 1>>
    BY <1>1, <1>7 DEF GoesOn
  <2> QED BY <1>15, <1>17, <2>1 DEF BehindOK
<1>20. (BeforeOK /\ FoundOK)'
  BY <1>1, <1>4 DEF BeforeOK, FoundOK
<1> QED BY <1>13, <1>14, <1>18, <1>19, <1>20 DEF ResumeOK

\* Where a checkpoint leaves the cursors.
LEMMA Checkpointed ==
    ASSUME CuratorOK, CursorOK, pc # "off", NEW page \in Nat, NEW row \in Nat, Checkpoint(page, row)
    PROVE  /\ progress' = [progress EXCEPT ![at.kind] = <<page, row>>]
           /\ progress'[at.kind] = <<page, row>>
           /\ \A other \in Kinds \ {at.kind} : progress'[other] = progress[other]
           /\ memory'.cursors = progress'
           /\ at.kind \in Kinds
<1>1. /\ memory = [held |-> memory.held, known |-> memory.known, cursors |-> memory.cursors]
      /\ memory.cursors = progress /\ progress \in [Kinds -> Nat \X Nat] /\ at.kind \in Kinds
  BY DEF CuratorOK, PlaceOK, CursorOK
<1> DEFINE moved == [progress EXCEPT ![at.kind] = <<page, row>>]
<1>2. memory' = [memory EXCEPT !.cursors = moved] /\ progress' = memory'.cursors
  BY <1>1 DEF Checkpoint
<1>3. moved[at.kind] = <<page, row>> /\ \A other \in Kinds \ {at.kind} : moved[other] = progress[other]
  BY <1>1
<1> HIDE DEF moved
<1>4. memory'.cursors = moved
  BY <1>1, <1>2
<1> QED BY <1>1, <1>2, <1>3, <1>4 DEF moved

\* A checkpoint that catches up with the pass.
LEMMA CaughtUp ==
    ASSUME CuratorOK, at.kind \in Kinds, UNCHANGED <<selected, cached>>, at'.kind = at.kind,
           pc \in {"page", "row", "mark"}, pc' \in {"page", "row"},
           \A other \in Kinds \ {at.kind} : progress'[other] = progress[other],
           NEW reach, NearFor(Kinds \ {at.kind}, reach),
           NEW next \in Cursors, next[at.kind] = progress'[at.kind],
           \A other \in Kinds \ {at.kind} : next[other] = reach[other],
           at.kind = "tactical" => next["quiet"] = <<0, 0>>,
           Upto(lost', next).held = selected, Upto(lost', next).known = Tracked(selected)
    PROVE  PassOK'
<1>1. Holds(next)'
  <2>1. at.kind = "quiet" => Complete(Tracked(selected), "tactical")
    BY DEF CuratorOK, HeldOK, FullOK
  <2>2. Upto(lost, next)' = Upto(lost', next) /\ Tracked(selected)' = Tracked(selected)
    OBVIOUS
  <2>3. Complete(Tracked(selected), "tactical")' = Complete(Tracked(selected), "tactical")
    OBVIOUS
  <2> QED BY <2>1, <2>2, <2>3 DEF Holds, Kinds
<1>2. ASSUME NEW kind \in Kinds PROVE Near(kind, next[kind])'
  <2>1. CASE kind = at.kind
    BY <2>1 DEF Near
  <2>2. CASE kind # at.kind
    <3> DEFINE cursor == next[kind]
    <3>1. Near(kind, cursor) /\ progress'[kind] = progress[kind]
      BY <2>2 DEF NearFor
    <3>2. Tracked(selected).games \subseteq Tracked(selected').games
      OBVIOUS
    <3> HIDE DEF cursor
    <3>3. Near(kind, cursor)'
      BY <3>1, <3>2, NearKept
    <3> QED BY <3>3 DEF cursor
  <2> QED BY <2>1, <2>2
<1>3. NearFor(Kinds, next)'
  BY <1>2 DEF NearFor
<1> QED BY <1>1, <1>3 DEF PassOK

\* Records given up where the pass has not been make no difference to it.
LEMMA GivenUpAhead ==
    ASSUME CuratorOK, CursorOK, NEW reach, Holds(reach), NearFor(Kinds \ {at.kind}, reach),
           reach[at.kind][1] <= MaxPages, at.kind \in Kinds,
           NEW more, \A place \in more : \A kind \in Kinds, page, row \in Nat :
                        place = <<kind, page, row>> =>
                            /\ kind = at.kind
                            /\ ~(\/ page < reach[kind][1]
                                 \/ page = reach[kind][1] /\ row <= reach[kind][2])
    PROVE  Upto(lost \cup more, reach) = Upto(lost, reach)
<1>1. ASSUME NEW kind \in Kinds PROVE reach[kind][1] <= MaxPages
  <2>1. CASE kind = at.kind
    BY <2>1
  <2>2. CASE kind # at.kind
    <3>1. Near(kind, reach[kind])
      BY <2>2 DEF NearFor
    <3> QED BY <3>1, CursorsAre
  <2> QED BY <2>1, <2>2
<1>2. ASSUME NEW kind \in Kinds PROVE Agree(lost \cup more, lost, kind, reach[kind])
  <2> SUFFICES ASSUME NEW page \in Nat, NEW row \in Nat,
                      \/ page < reach[kind][1]
                      \/ page = reach[kind][1] /\ row <= reach[kind][2]
               PROVE  <<kind, page, row>> \notin more
    BY DEF Agree
  <2> QED OBVIOUS
<1>3. reach \in Cursors
  BY DEF Holds
<1> QED BY <1>1, <1>2, <1>3, UptoSame

LEMMA LostBehind ==
    ASSUME LostOK, at.kind \in Kinds, NEW page \in Nat, NEW row \in Nat,
           NEW later \in Nat, NEW place \in Nat,
           progress[at.kind] = <<page, row>>, progress'[at.kind] = <<later, place>>,
           later > page \/ (later = page /\ place >= row),
           \A other \in Kinds \ {at.kind} : progress'[other] = progress[other],
           NEW more, lost' = lost \cup more,
           \A kind \in Kinds, p, r \in Nat :
               <<kind, p, r>> \in more => kind = at.kind /\ (p < later \/ (p = later /\ r <= place))
    PROVE  LostOK'
<1> SUFFICES ASSUME NEW kind \in Kinds, NEW p \in Nat, NEW r \in Nat, <<kind, p, r>> \in lost'
             PROVE  \/ p < progress'[kind][1]
                    \/ p = progress'[kind][1] /\ r <= progress'[kind][2]
  BY DEF LostOK
<1>1. CASE <<kind, p, r>> \in lost
  <2>1. \/ p < progress[kind][1]
        \/ p = progress[kind][1] /\ r <= progress[kind][2]
    BY <1>1 DEF LostOK
  <2>2. CASE kind = at.kind
    BY <2>1, <2>2
  <2>3. CASE kind # at.kind
    BY <2>1, <2>3
  <2> QED BY <2>2, <2>3
<1>2. CASE <<kind, p, r>> \in more
  BY <1>2
<1> QED BY <1>1, <1>2

\* The cursor catches up with the pass; a record given up is left out of it.
LEMMA MarkRecordKeepsResume ==
    ASSUME CuratorOK, ResumeOK, MarkRecord
    PROVE  ResumeOK'
<1> DEFINE place == <<at.kind, at.page, at.row + 1>>
           more  == IF givenUp THEN {place} ELSE {}
<1>1. /\ pc = "mark" /\ Checkpoint(at.page, at.row + 1)
      /\ lost' = lost \cup more
      /\ at' = [at EXCEPT !.row = @ + 1] /\ givenUp' = FALSE /\ pc' = "row"
      /\ UNCHANGED <<selected, cached, resume>>
  BY DEF MarkRecord
<1>2. /\ at.kind \in Kinds /\ at.page \in Nat /\ at.row \in Nat /\ at.page < MaxPages
      /\ at = [kind |-> at.kind, page |-> at.page, row |-> at.row, file |-> at.file]
      /\ MaxPages \in Nat
  BY <1>1, CurationAssumption DEF CuratorOK, PlaceOK
<1>3. at'.kind = at.kind /\ at'.page = at.page /\ at'.row = at.row + 1 /\ at.row + 1 \in Nat
  BY <1>1, <1>2
<1>4. /\ CursorOK /\ LostOK
      /\ progress[at.kind] = <<at.page, at.row>> /\ PageKey(at.kind, at.page) \in cached
      /\ at.row < Len(PageAt(at.kind, at.page)) /\ Len(PageAt(at.kind, at.page)) \in Nat
      /\ resume[1] <= at.page /\ (at.kind = "tactical" => progress["quiet"] = <<0, 0>>)
  BY <1>1, <1>2, PagesAreLists DEF ResumeOK, CursorOK
<1>5. /\ progress'[at.kind] = <<at.page, at.row + 1>>
      /\ \A other \in Kinds \ {at.kind} : progress'[other] = progress[other]
      /\ memory'.cursors = progress'
  BY <1>1, <1>2, <1>3, <1>4, Checkpointed
<1>6. CursorOK'
  <2>1. ASSUME NEW kind \in Kinds
        PROVE  /\ progress'[kind][1] <= MaxPages
               /\ progress'[kind][2] # 0 => /\ progress'[kind][1] < MaxPages
                                           /\ progress'[kind][2] <= Len(PageAt(kind, progress'[kind][1]))
                                           /\ PageKey(kind, progress'[kind][1]) \in cached'
    <3>1. CASE kind = at.kind
      <4>1. at.row + 1 <= Len(PageAt(at.kind, at.page))
        BY <1>2, <1>4
      <4> QED BY <1>1, <1>2, <1>4, <1>5, <3>1, <4>1
    <3>2. CASE kind # at.kind
      BY <1>1, <1>4, <1>5, <3>2 DEF CursorOK
    <3> QED BY <3>1, <3>2
  <2>2. at.kind = "tactical" => progress'["quiet"] = <<0, 0>>
    BY <1>4, <1>5 DEF Kinds
  <2> QED BY <1>1, <1>2, <1>3, <1>4, <1>5, <2>1, <2>2 DEF CursorOK
<1>7. LostOK'
  <2> DEFINE page == at.page
             row  == at.row
             next == row + 1
  <2>1. \A k \in Kinds, p, r \in Nat :
            <<k, p, r>> \in more => k = at.kind /\ (p < page \/ (p = page /\ r <= next))
    <3>1. \A k \in Kinds, p, r \in Nat : <<k, p, r>> \in more => k = at.kind /\ p = page /\ r = next
      OBVIOUS
    <3> QED BY <1>2, <3>1
  <2>2. /\ page \in Nat /\ row \in Nat /\ next \in Nat /\ next >= row
        /\ progress[at.kind] = <<page, row>> /\ progress'[at.kind] = <<page, next>>
        /\ lost' = lost \cup more
    BY <1>1, <1>2, <1>4, <1>5
  <2> HIDE DEF page, row, next, more
  <2> QED BY <1>2, <1>4, <1>5, <2>1, <2>2, LostBehind
<1>8. PassOK'
  <2>1. CASE givenUp
    <3>1. PICK reach : /\ Holds(reach) /\ reach[at.kind] = <<at.page, at.row>>
                       /\ NearFor(Kinds \ {at.kind}, reach)
      BY <1>1, <2>1 DEF ResumeOK, BeforeOK
    <3>2. Upto(lost', reach) = Upto(lost, reach)
      <4>1. \A k \in Kinds, p, r \in Nat :
                place = <<k, p, r>> => k = at.kind /\ p = at.page /\ r = at.row + 1
        OBVIOUS
      <4>2. lost' = lost \cup {place}
        BY <1>1, <2>1
      <4>3. reach[at.kind][1] <= MaxPages
        BY <1>2, <3>1
      <4>4. \A x \in {place} : \A kind \in Kinds, page, row \in Nat :
                x = <<kind, page, row>> =>
                    /\ kind = at.kind
                    /\ ~(\/ page < reach[kind][1]
                         \/ page = reach[kind][1] /\ row <= reach[kind][2])
        BY <1>2, <3>1, <4>1
      <4> HIDE DEF place
      <4> QED BY <1>2, <1>4, <3>1, <4>2, <4>3, <4>4, GivenUpAhead
    <3>3. reach \in Cursors /\ (at.kind = "tactical" => reach["quiet"] = <<0, 0>>)
      BY <1>1, <3>1 DEF Holds
    <3>4. PICK next : GoesOn(lost', reach, at.kind, at.page, at.row, next)
      BY <1>2, <3>1, <3>3, PassOn
    <3>5. Upto(lost', next) = Upto(lost, reach)
      <4>1. place \in lost'
        BY <1>1, <2>1
      <4>2. \A mem : Undisturbed(lost', mem, place) = mem
        BY <4>1 DEF Undisturbed
      <4> QED BY <3>2, <3>4, <4>2 DEF GoesOn
    <3>6. Upto(lost', next).held = selected /\ Upto(lost', next).known = Tracked(selected)
      BY <3>1, <3>5 DEF Holds
    <3>7. /\ next \in Cursors /\ next[at.kind] = progress'[at.kind]
          /\ \A other \in Kinds \ {at.kind} : next[other] = reach[other]
          /\ at.kind = "tactical" => next["quiet"] = <<0, 0>>
      BY <1>5, <3>4 DEF GoesOn
    <3> HIDE DEF more
    <3> QED BY <1>1, <1>2, <1>3, <1>5, <3>1, <3>6, <3>7, CaughtUp
  <2>2. CASE ~givenUp
    <3>1. PICK reach : /\ Holds(reach) /\ reach[at.kind] = <<at.page, at.row + 1>>
                       /\ NearFor(Kinds \ {at.kind}, reach)
      BY <1>1, <2>2 DEF ResumeOK, BehindOK
    <3>2. lost' = lost
      BY <1>1, <2>2
    <3>3. /\ reach \in Cursors /\ reach[at.kind] = progress'[at.kind]
          /\ at.kind = "tactical" => reach["quiet"] = <<0, 0>>
          /\ Upto(lost', reach).held = selected /\ Upto(lost', reach).known = Tracked(selected)
      BY <1>1, <1>5, <3>1, <3>2 DEF Holds
    <3> QED BY <1>1, <1>2, <1>3, <1>5, <3>1, <3>3, CaughtUp
  <2> QED BY <2>1, <2>2
<1>9. (BeforeOK /\ BehindOK /\ FoundOK)'
  BY <1>1 DEF BeforeOK, BehindOK, FoundOK
<1> QED BY <1>6, <1>7, <1>8, <1>9 DEF ResumeOK

\* The place in the files after a page is left.
LEMMA LeavesPage ==
    ASSUME CuratorOK, ResumeOK, pc \in {"page", "row"}, at.page < MaxPages,
           pc' = "page", at' = [at EXCEPT !.page = @ + 1], UNCHANGED <<cached, resume>>,
           Checkpoint(at.page + 1, 0)
    PROVE  /\ CursorOK'
           /\ progress'[at.kind] = <<at.page + 1, 0>>
           /\ \A other \in Kinds \ {at.kind} : progress'[other] = progress[other]
           /\ progress[at.kind] = <<at.page, progress[at.kind][2]>> /\ progress[at.kind][2] \in Nat
           /\ at'.kind = at.kind
<1>1. /\ at.kind \in Kinds /\ at.page \in Nat /\ MaxPages \in Nat /\ at.page + 1 \in Nat /\ 0 \in Nat
      /\ at = [kind |-> at.kind, page |-> at.page, row |-> at.row, file |-> at.file]
      /\ resume \in Nat \X Nat
  BY CurationAssumption DEF CuratorOK, PlaceOK
<1>2. at'.kind = at.kind /\ at'.page = at.page + 1
  BY <1>1
<1>3. /\ CursorOK /\ at.page = progress[at.kind][1] /\ resume[1] <= at.page
      /\ at.kind = "tactical" => progress["quiet"] = <<0, 0>>
  <2>1. CursorOK
    BY DEF ResumeOK
  <2> QED BY <2>1 DEF CursorOK
<1>4. /\ progress'[at.kind] = <<at.page + 1, 0>>
      /\ \A other \in Kinds \ {at.kind} : progress'[other] = progress[other]
      /\ memory'.cursors = progress'
  BY <1>1, <1>3, Checkpointed
<1>5. progress[at.kind] = <<at.page, progress[at.kind][2]>> /\ progress[at.kind][2] \in Nat
  BY <1>1, <1>3, CursorsAre
<1>6. CursorOK'
  <2>1. ASSUME NEW kind \in Kinds
        PROVE  /\ progress'[kind][1] <= MaxPages
               /\ progress'[kind][2] # 0 => /\ progress'[kind][1] < MaxPages
                                           /\ progress'[kind][2] <= Len(PageAt(kind, progress'[kind][1]))
                                           /\ PageKey(kind, progress'[kind][1]) \in cached'
    <3>1. CASE kind = at.kind
      BY <1>1, <1>4, <3>1
    <3>2. CASE kind # at.kind
      BY <1>3, <1>4, <3>2 DEF CursorOK
    <3> QED BY <3>1, <3>2
  <2>2. at.kind = "tactical" => progress'["quiet"] = <<0, 0>>
    BY <1>3, <1>4 DEF Kinds
  <2>3. /\ at'.page = progress'[at'.kind][1] /\ progress'[at'.kind][2] = 0
        /\ at'.page # resume'[1] /\ resume'[1] <= at'.page
    BY <1>1, <1>2, <1>3, <1>4
  <2> QED BY <1>2, <1>4, <2>1, <2>2, <2>3 DEF CursorOK
<1> QED BY <1>2, <1>4, <1>5, <1>6

\* A page is left when the quotas are full or its last row is behind.
LEMMA EndPageKeepsResume ==
    ASSUME CuratorOK, ResumeOK, EndPage
    PROVE  ResumeOK'
<1>1. /\ pc = "row" /\ (at.row >= Len(PageHere) \/ Complete(memory.known, at.kind))
      /\ Checkpoint(at.page + 1, 0) /\ at' = [at EXCEPT !.page = @ + 1] /\ pc' = "page"
      /\ UNCHANGED <<selected, cached, resume, lost>>
  BY DEF EndPage, Full
<1>2. /\ at.kind \in Kinds /\ at.page \in Nat /\ at.row \in Nat /\ at.page < MaxPages
      /\ memory.known = Tracked(selected) /\ MaxPages \in Nat
  BY <1>1, CurationAssumption DEF CuratorOK, PlaceOK, HeldOK
<1>3. /\ CursorOK' /\ progress'[at.kind] = <<at.page + 1, 0>>
      /\ \A other \in Kinds \ {at.kind} : progress'[other] = progress[other]
      /\ at'.kind = at.kind
  BY <1>1, <1>2, LeavesPage
<1>4. /\ CursorOK /\ LostOK /\ progress[at.kind] = <<at.page, at.row>>
      /\ Len(PageAt(at.kind, at.page)) \in Nat /\ at.row <= Len(PageAt(at.kind, at.page))
  <2>1. CursorOK /\ LostOK /\ progress[at.kind] = <<at.page, at.row>>
    BY <1>1 DEF ResumeOK, CursorOK
  <2>2. Len(PageAt(at.kind, at.page)) \in Nat
    BY <1>2, PagesAreLists
  <2>3. at.row # 0 => at.row <= Len(PageAt(at.kind, at.page))
    BY <1>2, <2>1 DEF CursorOK
  <2> QED BY <1>2, <2>1, <2>2, <2>3
<1>5. LostOK'
  <2> DEFINE page == at.page
             row  == at.row
             next == page + 1
             zero == 0
             none == {}
  <2>1. /\ page \in Nat /\ row \in Nat /\ next \in Nat /\ zero \in Nat /\ next > page
        /\ progress[at.kind] = <<page, row>> /\ progress'[at.kind] = <<next, zero>>
        /\ lost' = lost \cup none
    BY <1>1, <1>2, <1>3, <1>4
  <2>2. \A k \in Kinds, p, r \in Nat :
            <<k, p, r>> \in none => k = at.kind /\ (p < next \/ (p = next /\ r <= zero))
    OBVIOUS
  <2> HIDE DEF page, row, next, zero, none
  <2> QED BY <1>2, <1>3, <1>4, <2>1, <2>2, LostBehind
<1>6. PassOK'
  <2>1. PICK reach : Holds(reach) /\ NearFor(Kinds, reach)
    BY DEF ResumeOK, PassOK
  <2>2. reach \in Cursors /\ (at.kind = "tactical" => reach["quiet"] = <<0, 0>>)
        /\ Upto(lost, reach).held = selected /\ Upto(lost, reach).known = Tracked(selected)
    BY <1>1, <2>1 DEF Holds
  <2> DEFINE kind == at.kind
             page == at.page
             size == Len(PageAt(kind, page))
             next == [reach EXCEPT ![kind] = <<page + 1, 0>>]
  <2>3. \E row \in Nat : /\ reach[kind] = <<page, row>> /\ row <= size
                         /\ Complete(memory.known, kind) \/ row = size
    <3>1. Near(kind, reach[kind])
      BY <1>2, <2>1 DEF NearFor
    <3>2. CASE reach[kind] = progress[kind]
      <4>1. at.row >= size => at.row = size
        BY <1>2, <1>4
      <4>2. Len(PageHere) = size
        BY <1>1, HereIs
      <4> QED BY <1>1, <1>2, <1>4, <3>2, <4>1, <4>2
    <3>3. CASE AheadOf(kind, reach[kind])
      <4>1. reach[kind] = <<page, at.row + 1>> /\ at.row < size
        BY <1>4, <3>3 DEF AheadOf
      <4>2. Len(PageHere) = size
        BY <1>1, HereIs
      <4>3. Complete(memory.known, kind)
        BY <1>1, <1>2, <1>4, <4>1, <4>2
      <4>4. at.row + 1 \in Nat /\ at.row + 1 <= size
        BY <1>2, <1>4, <4>1
      <4> QED BY <4>1, <4>3, <4>4
    <3> QED BY <3>1, <3>2, <3>3 DEF Near
  <2>4. PICK row \in Nat : /\ reach[kind] = <<page, row>> /\ row <= size
                           /\ Complete(memory.known, kind) \/ row = size
    BY <2>3
  <2>5. page + 1 \in Nat
    BY <1>2
  <2>6. /\ next \in Cursors /\ next[kind] = <<page + 1, 0>>
        /\ \A other \in Kinds \ {kind} : next[other] = reach[other]
        /\ kind = "tactical" => next["quiet"] = reach["quiet"]
    <3> HIDE DEF kind, page, next
    <3>1. kind \in Kinds
      BY <1>2 DEF kind
    <3> QED BY <2>2, <2>5, <3>1, MovedReach DEF next
  <2>7. Upto(lost, next) = Upto(lost, reach)
    <3>1. \/ Complete(Upto(lost, reach).known, kind)
          \/ \A i \in row + 1 .. size : <<kind, page, i>> \in lost
      BY <1>2, <1>4, <2>2, <2>4
    <3>2. /\ kind \in Kinds /\ page \in Nat /\ page < MaxPages
          /\ kind = "tactical" => reach["quiet"] = <<0, 0>>
      BY <1>2, <2>2
    <3> HIDE DEF kind, page
    <3> QED BY <2>2, <2>4, <3>1, <3>2, UptoRest
  <2>8. NearFor(Kinds \ {at.kind}, reach)
    BY <2>1 DEF NearFor
  <2> HIDE DEF next
  <2> QED BY <1>1, <1>2, <1>3, <2>2, <2>6, <2>7, <2>8, CaughtUp
<1>7. (BeforeOK /\ BehindOK /\ FoundOK)'
  BY <1>1 DEF BeforeOK, BehindOK, FoundOK
<1> QED BY <1>3, <1>5, <1>6, <1>7 DEF ResumeOK

\* A page that cannot be had is not in the cache, so none of its rows has been read.
LEMMA PageUnavailableKeepsResume ==
    ASSUME CuratorOK, ResumeOK, PageUnavailable
    PROVE  ResumeOK'
<1> DEFINE kind == at.kind
           page == at.page
           size == Len(PageAt(kind, page))
           more == {<<kind, page, row>> : row \in DOMAIN PageHere}
<1>1. /\ pc = "page" /\ at.page < MaxPages /\ ~Full /\ PageKey(kind, page) \notin cached
      /\ Checkpoint(at.page + 1, 0) /\ at' = [at EXCEPT !.page = @ + 1] /\ pc' = "page"
      /\ lost' = lost \cup more
      /\ UNCHANGED <<selected, cached, resume>>
  BY DEF PageUnavailable
<1>2. /\ kind \in Kinds /\ page \in Nat /\ page + 1 \in Nat /\ MaxPages \in Nat
      /\ memory.known = Tracked(selected)
  BY <1>1, CurationAssumption DEF CuratorOK, PlaceOK, HeldOK
<1>3. /\ CursorOK' /\ progress'[kind] = <<page + 1, 0>>
      /\ \A other \in Kinds \ {kind} : progress'[other] = progress[other]
      /\ at'.kind = kind
      /\ progress[kind] = <<page, progress[kind][2]>>
  BY <1>1, LeavesPage
<1>4. /\ CursorOK /\ LostOK
      /\ progress[kind][2] # 0 => PageKey(kind, progress[kind][1]) \in cached
  <2>1. CursorOK /\ LostOK
    BY DEF ResumeOK
  <2> QED BY <1>2, <2>1 DEF CursorOK
<1>5. progress[kind] = <<page, 0>> /\ progress[kind][1] = page
  BY <1>1, <1>3, <1>4
<1>6. DOMAIN PageHere = 1 .. size /\ size \in Nat
  <2>1. PageHere = PageAt(kind, page)
    BY DEF PageHere, PageAt
  <2>2. IsList(PageAt(kind, page)) /\ Len(PageAt(kind, page)) \in Nat
    BY <1>1, <1>2, PagesAreLists
  <2> QED BY <2>1, <2>2 DEF IsList
<1>7. \A k \in Kinds, p, r \in Nat : <<k, p, r>> \in more => k = kind /\ p = page /\ r # 0
  BY <1>6
<1>8. \A i \in 1 .. size : <<kind, page, i>> \in more
  BY <1>6
<1> HIDE DEF more
<1>9. LostOK'
  <2> DEFINE next == page + 1
             zero == 0
  <2>1. /\ next \in Nat /\ zero \in Nat /\ next > page
        /\ progress[at.kind] = <<page, zero>> /\ progress'[at.kind] = <<next, zero>>
    BY <1>2, <1>3, <1>5
  <2>2. \A k \in Kinds, p, r \in Nat :
            <<k, p, r>> \in more => k = at.kind /\ (p < next \/ (p = next /\ r <= zero))
    BY <1>2, <1>7
  <2>3. \A other \in Kinds \ {at.kind} : progress'[other] = progress[other]
    BY <1>3
  <2>4. at.kind \in Kinds /\ page \in Nat
    BY <1>2
  <2> HIDE DEF page, next, zero
  <2> QED BY <1>1, <1>4, <2>1, <2>2, <2>3, <2>4, LostBehind
<1>10. PassOK'
  <2>1. PICK reach : Holds(reach) /\ NearFor(Kinds, reach)
    BY DEF ResumeOK, PassOK
  <2>2. reach \in Cursors /\ (kind = "tactical" => reach["quiet"] = <<0, 0>>)
        /\ Upto(lost, reach).held = selected /\ Upto(lost, reach).known = Tracked(selected)
    BY <1>1, <2>1 DEF Holds
  <2>3. reach[kind] = <<page, 0>>
    <3>1. Near(kind, reach[kind])
      BY <1>2, <2>1 DEF NearFor
    <3>2. ~AheadOf(kind, reach[kind])
      BY <1>1, <1>5 DEF AheadOf
    <3> QED BY <1>5, <3>1, <3>2 DEF Near
  <2>4. NearFor(Kinds \ {kind}, reach)
    BY <2>1 DEF NearFor
  <2>5. Upto(lost', reach) = Upto(lost, reach)
    <3>1. \A x \in more : \A k \in Kinds, p, r \in Nat :
              x = <<k, p, r>> =>
                  /\ k = at.kind
                  /\ ~(\/ p < reach[k][1] \/ (p = reach[k][1] /\ r <= reach[k][2]))
      <4> SUFFICES ASSUME NEW k \in Kinds, NEW p \in Nat, NEW r \in Nat, <<k, p, r>> \in more
                   PROVE  /\ k = at.kind
                          /\ ~(\/ p < reach[k][1] \/ (p = reach[k][1] /\ r <= reach[k][2]))
        OBVIOUS
      <4>1. k = kind /\ p = page /\ r # 0
        BY <1>7
      <4> QED BY <1>2, <2>3, <4>1
    <3>2. reach[at.kind][1] <= MaxPages /\ at.kind \in Kinds
      BY <1>1, <1>2, <2>3
    <3>3. Upto(lost \cup more, reach) = Upto(lost, reach)
      BY <1>4, <2>1, <2>4, <3>1, <3>2, GivenUpAhead
    <3> QED BY <1>1, <3>3
  <2> DEFINE next == [reach EXCEPT ![kind] = <<page + 1, 0>>]
  <2>6. /\ next \in Cursors /\ next[kind] = <<page + 1, 0>>
        /\ \A other \in Kinds \ {kind} : next[other] = reach[other]
        /\ kind = "tactical" => next["quiet"] = reach["quiet"]
    <3> HIDE DEF kind, page, next
    <3> QED BY <1>2, <2>2, MovedReach DEF next
  <2>7. Upto(lost', next) = Upto(lost', reach)
    <3> DEFINE zero == 0
               skipped == lost'
    <3>1. \A i \in zero + 1 .. size : <<kind, page, i>> \in skipped
      BY <1>1, <1>8
    <3>2. /\ page < MaxPages /\ zero \in Nat /\ zero <= size /\ reach[kind] = <<page, zero>>
      BY <1>1, <1>6, <2>3
    <3> HIDE DEF zero, kind, page, skipped
    <3>3. Upto(skipped, [reach EXCEPT ![kind] = <<page + 1, 0>>]) = Upto(skipped, reach)
      BY <1>2, <2>2, <3>1, <3>2, UptoRest
    <3> QED BY <3>3 DEF skipped
  <2>8. UNCHANGED <<selected, cached>> /\ at'.kind = at.kind /\ at.kind \in Kinds
    BY <1>1, <1>2, <1>3
  <2> HIDE DEF next
  <2> QED BY <1>1, <1>2, <1>3, <2>2, <2>4, <2>5, <2>6, <2>7, <2>8, CaughtUp
<1>11. (BeforeOK /\ BehindOK /\ FoundOK)'
  BY <1>1 DEF BeforeOK, BehindOK, FoundOK
<1> QED BY <1>3, <1>9, <1>10, <1>11 DEF ResumeOK

----------------------------------------------------------------------------

LEMMA ResumeKept ==
    ASSUME CuratorOK, CuratorOK', ResumeOK, [Next]_vars
    PROVE  ResumeOK'
<1>1. ASSUME UNCHANGED <<selected, progress, lost>>, cached \subseteq cached', Halt
      PROVE  ResumeOK'
  BY <1>1, PauseKeepsResume DEF Halt
<1>2. pc # "off" => memory.cursors = progress
  BY DEF ResumeOK, CursorOK
<1>3. CASE CurationNext
  <2>1. ASSUME NEW d \in Dirs, Launch(d) PROVE ResumeOK'
    <3>1. memory'.cursors = progress /\ pc' = "kind" /\ UNCHANGED <<selected, progress, lost, cached>>
      BY <2>1 DEF Launch, Loaded, disk
    <3> QED BY <3>1, PauseKeepsResume
  <2>2. CASE EndKind
    <3>1. /\ pc \in {"kind", "page"} /\ pc' \in {"kind", "save"}
          /\ UNCHANGED <<selected, progress, lost, cached, memory>>
      BY <2>2 DEF EndKind, disk
    <3> QED BY <1>2, <3>1, PauseKeepsResume
  <2>3. CASE BeginSave \/ OpenFile
    <3>1. /\ pc \in {"save", "open"} /\ pc' \in {"open", "fill"}
          /\ UNCHANGED <<selected, progress, lost, memory>>
          /\ cached \subseteq cached'
      BY <2>3 DEF BeginSave, OpenFile, Fetched, disk, process
    <3> QED BY <1>2, <3>1, PauseKeepsResume
  <2>4. CASE FillFile
    <3>1. pc = "fill" /\ UNCHANGED <<selected, progress, lost, cached>>
      BY <2>4 DEF FillFile, disk
    <3>2. CASE Halt
      BY <1>1, <3>1, <3>2
    <3>3. CASE ~Halt
      <4>1. pc' = "open" /\ UNCHANGED memory
        BY <2>4, <3>3 DEF FillFile
      <4> QED BY <1>2, <3>1, <4>1, PauseKeepsResume
    <3> QED BY <3>2, <3>3
  <2>5. CASE Exit \/ Crash
    <3>1. Halt /\ UNCHANGED <<selected, progress, lost, cached>>
      BY <2>5 DEF Exit, Crash, disk
    <3> QED BY <1>1, <3>1
  <2>6. CASE CrashInCache
    <3>1. Halt /\ UNCHANGED <<selected, progress, lost>> /\ cached \subseteq cached'
      BY <2>6 DEF CrashInCache, CutShort, FetchedUpTo, Fetched
    <3> QED BY <1>1, <3>1
  <2>7. CASE BeginKind \/ BeginPage \/ PageUnavailable \/ EndPage
    BY <2>7, BeginKindKeepsResume, BeginPageKeepsResume, PageUnavailableKeepsResume, EndPageKeepsResume
  <2>8. CASE ReadRecord \/ ExportUnavailable \/ Accept \/ MarkRecord
    BY <2>8, ReadRecordKeepsResume, ExportUnavailableKeepsResume, AcceptKeepsResume, MarkRecordKeepsResume
  <2> QED BY <1>3, <2>1, <2>2, <2>3, <2>4, <2>5, <2>6, <2>7, <2>8 DEF CurationNext
<1>4. ASSUME UNCHANGED <<selected, progress, cached, lost, pc, at, resume, memory, found, givenUp>>
      PROVE  ResumeOK'
  <2>1. RecordHere' = RecordHere
    BY <1>4 DEF RecordHere, PageHere
  <2> QED
    BY <1>4, <2>1 DEF ResumeOK, CursorOK, LostOK, PassOK, BeforeOK, BehindOK, FoundOK, Holds,
       NearFor, Near, AheadOf
<1>5. ASSUME NEW i \in Importers,
             (\E d \in Dirs : Load(i, d)) \/ Lock(i) \/ Insert(i) \/ InsertFails(i) \/ FindPresent(i) \/ Refuse(i)
      PROVE  ResumeOK'
  <2>1. UNCHANGED <<selected, progress, cached, lost, pc, at, resume, memory, found, givenUp>>
    BY <1>5 DEF Load, Lock, Insert, InsertFails, FindPresent, Refuse, Report, curationVars, disk, process
  <2> QED BY <1>4, <2>1
<1>6. CASE UNCHANGED vars
  BY <1>4, <1>6 DEF vars, curationVars, disk, process
<1> QED BY <1>3, <1>5, <1>6 DEF Next

\* However often a curation is interrupted and resumed, with any pages, records and
\* failures, its selection is that of a single pass over the records read so far.
THEOREM ResumingIsTransparent == Spec => []ResumeIsTransparent
<1>1. CuratorOK /\ ResumeOK => ResumeIsTransparent
  <2> SUFFICES ASSUME CuratorOK, ResumeOK
               PROVE  \E puzzles \in ReadSoFar("tactical"), games \in ReadSoFar("quiet") :
                          selected = Uninterrupted(puzzles, games).held
    BY DEF ResumeIsTransparent
  <2>1. PICK reach : Holds(reach) /\ NearFor(Kinds, reach)
    BY DEF ResumeOK, PassOK
  <2>2. ASSUME NEW kind \in Kinds PROVE reach[kind] \in ReadSoFar(kind)
    <3>1. progress[kind] = <<progress[kind][1], progress[kind][2]>>
      BY CursorsAre DEF ResumeOK
    <3>2. Near(kind, reach[kind])
      BY <2>1 DEF NearFor
    <3> QED BY <3>1, <3>2 DEF Near, AheadOf, ReadSoFar
  <2>3. selected = Uninterrupted(reach["tactical"], reach["quiet"]).held
    BY <2>1 DEF Holds, Upto, Uninterrupted
  <2> QED BY <2>2, <2>3 DEF Kinds
<1>2. Init => CuratorOK /\ ResumeOK
  BY CuratorBegins, ResumeBegins
<1>3. CuratorOK /\ ResumeOK /\ [Next]_vars => CuratorOK' /\ ResumeOK'
  BY CuratorKept, ResumeKept
<1> QED BY <1>1, <1>2, <1>3, PTL DEF Spec
=============================================================================
