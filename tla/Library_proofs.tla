--------------------------- MODULE Library_proofs ---------------------------
(***************************************************************************)
(* Theorems about the library: its backup (LibraryBackup), the scan of its *)
(* directory (LibraryScan) and the cache of its live pages (LivePages).    *)
(*                                                                         *)
(* Backup.  The export reads each table after the ones its rows refer to,  *)
(* and what disappears meanwhile was read before.  So a file that no row   *)
(* was added behind refers only to rows it holds, and the transaction that *)
(* restores it meets no row without its publication.                       *)
(*                                                                         *)
(* Scan.  A book that is neither moved under a scan, doubled nor replaced  *)
(* is where every scan under way found it, and what is at its row's path   *)
(* is itself or nothing.  So a scan that stores it finds its row, at its   *)
(* path or as the one row whose file is missing, and adds no second one.   *)
(*                                                                         *)
(* Live pages.  What a request puts into the cache is never older than     *)
(* what was valid when it asked; one that tries again dropped the entry it *)
(* had, and whatever took its place since is at least as young.            *)
(***************************************************************************)
EXTENDS LibraryBackup, LibraryScan, LivePages,
        FiniteSetTheorems, SequenceTheorems, TLAPS

(* Rows that belong to one of these publications. *)
Shelved(rows, pubs) == \A x \in rows : \E p \in pubs : p.id = x.publication

(* Marks of chapters among these. *)
MarksFound(ids, units) == \A m \in ids : \E u \in units : u.id = m

(* The foreign keys of the database. *)
KeysHold ==
    /\ Shelved(readingUnits, publications)
    /\ Shelved(progressEvents, publications)
    /\ \A m \in readRows : \E u \in readingUnits : u.id = m.unit

(* What the export has read still covers what is in the tables. *)
ReadCovers(f) ==
    /\ export.next \in {"units", "marks", "events"} => publications \subseteq f.publications
    /\ export.next \in {"marks", "events"} =>
          readingUnits \subseteq f.units /\ Shelved(f.units, f.publications)
    /\ export.next = "events" => MarksFound(f.marks, f.units)

(* A file that refers to nothing outside it. *)
Closed(f) ==
    /\ Shelved(f.units, f.publications)
    /\ Shelved(f.events, f.publications)
    /\ MarksFound(f.marks, f.units)

BackupIndInv ==
    /\ BackupTypeOK
    /\ KeysHold
    /\ ~export.file.late => ReadCovers(export.file)
    /\ ~backup.late => Closed(backup)
-----------------------------------------------------------------------------
USE BackupAssumption

LEMMA BackupInitIndInv == BackupInit => BackupIndInv
<1> SUFFICES ASSUME BackupInit PROVE BackupIndInv
  OBVIOUS
<1>1. EmptyFile \in File
  BY DEF EmptyFile, File
<1>2. BackupTypeOK
  BY <1>1 DEF BackupInit, BackupTypeOK
<1>3. KeysHold
  BY DEF BackupInit, KeysHold, Shelved
<1>4. Closed(backup) /\ ReadCovers(export.file)
  BY DEF BackupInit, EmptyFile, Closed, Shelved, MarksFound, ReadCovers
<1>5. QED
  BY <1>2, <1>3, <1>4 DEF BackupIndInv

(* What the restore adds covers, by identifier, what was there and what the *)
(* file holds.                                                             *)
LEMMA NewInCovers ==
    ASSUME NEW old, NEW new, NEW x \in old \cup new
    PROVE  \E y \in old \cup NewIn(new, old) : y.id = x.id
BY DEF NewIn

(* Additions during an export only ever set its flag. *)
LEMMA AddedType ==
    ASSUME BackupTypeOK, NEW parts, AddedWhen(parts)
    PROVE  /\ export' \in [next : {"none", "publications", "units", "marks", "events"},
                           reader : Readers, file : File]
           /\ export'.next = export.next
           /\ export'.file.late = (export.file.late \/ export.next \in parts)
           /\ export'.file.publications = export.file.publications
           /\ export'.file.units = export.file.units
           /\ export'.file.marks = export.file.marks
BY DEF BackupTypeOK, AddedWhen, File
-----------------------------------------------------------------------------
(* Every step keeps the types. *)
LEMMA TypeStep == BackupTypeOK /\ [BackupNext]_backupVars => BackupTypeOK'
<1> SUFFICES ASSUME BackupTypeOK, [BackupNext]_backupVars PROVE BackupTypeOK'
  OBVIOUS
<1> USE DEF PublicationRow, UnitEntry, EventEntry, RowId
<1>1. ASSUME NEW o \in Origins, NEW a \in Addresses, AddPublication(o, a)
      PROVE  BackupTypeOK'
  <2>1. made' \in [publications : 0 .. MaxRows, units : 0 .. MaxRows,
                   events : 0 .. MaxRows, exports : 0 .. MaxExports]
    <3>1. /\ made.publications + 1 <= MaxRows /\ made.units + 1 <= MaxRows
          /\ made' = [made EXCEPT !.publications = @ + 1, !.units = @ + 1]
      BY <1>1 DEF AddPublication, BackupTypeOK
    <3>2. made \in [publications : 0 .. MaxRows, units : 0 .. MaxRows,
                   events : 0 .. MaxRows, exports : 0 .. MaxExports]
      BY DEF BackupTypeOK
    <3>3. made.publications + 1 \in 0 .. MaxRows /\ made.units + 1 \in 0 .. MaxRows
      BY <3>1, <3>2
    <3>4. QED
      BY <3>1, <3>2, <3>3
  <2>2. publications' \subseteq PublicationRow /\ readingUnits' \subseteq UnitEntry
    BY <1>1 DEF AddPublication, BackupTypeOK, NewUnit
  <2>3. QED
    BY <1>1, <2>1, <2>2, AddedType DEF AddPublication, BackupTypeOK
<1>2. ASSUME NEW p \in publications, NEW a \in Addresses, AddUnit(p, a)
      PROVE  BackupTypeOK'
  <2>1. made' \in [publications : 0 .. MaxRows, units : 0 .. MaxRows,
                   events : 0 .. MaxRows, exports : 0 .. MaxExports]
    BY <1>2 DEF AddUnit, BackupTypeOK
  <2>2. readingUnits' \subseteq UnitEntry
    BY <1>2 DEF AddUnit, BackupTypeOK, NewUnit
  <2>3. QED
    BY <1>2, <2>1, <2>2, AddedType DEF AddUnit, BackupTypeOK
<1>3. ASSUME NEW p \in publications, RemovePublication(p)
      PROVE  BackupTypeOK'
  BY <1>3 DEF RemovePublication, BackupTypeOK
<1>4. ASSUME NEW u \in readingUnits, DropUnit(u)
      PROVE  BackupTypeOK'
  BY <1>4 DEF DropUnit, BackupTypeOK
<1>5. ASSUME NEW u \in readingUnits, NEW r \in Readers, ReadUnit(r, u)
      PROVE  BackupTypeOK'
  <2>1. made' \in [publications : 0 .. MaxRows, units : 0 .. MaxRows,
                   events : 0 .. MaxRows, exports : 0 .. MaxExports]
    BY <1>5 DEF ReadUnit, BackupTypeOK
  <2>2. progressEvents' \subseteq EventEntry /\ readRows' \subseteq [reader : Readers, unit : RowId]
    BY <1>5 DEF ReadUnit, BackupTypeOK
  <2>3. QED
    BY <1>5, <2>1, <2>2 DEF ReadUnit, BackupTypeOK
<1>6. CASE Lose
  BY <1>6 DEF Lose, BackupTypeOK, EmptyFile, File
<1>7. CASE ExportStep
  <2>1. ReadTable(export.next, export.file) \in File
    BY <1>7 DEF ExportStep, ReadTable, BackupTypeOK, File
  <2>2. EmptyFile \in File
    BY DEF EmptyFile, File
  <2>3. export' \in [next : {"none", "publications", "units", "marks", "events"},
                     reader : Readers, file : File] /\ backup' \in File
    BY <1>7, <2>1, <2>2 DEF ExportStep, Following, BackupTypeOK
  <2>4. QED
    BY <1>7, <2>3 DEF ExportStep, BackupTypeOK, tables
<1>8. ASSUME NEW r \in Readers, BeginExport(r)
      PROVE  BackupTypeOK'
  <2>1. EmptyFile \in File
    BY DEF EmptyFile, File
  <2>2. QED
    BY <1>8, <2>1 DEF BeginExport, BackupTypeOK, tables
<1>9. ASSUME NEW r \in Readers, Restore(r)
      PROVE  BackupTypeOK'
  <2>1. restores' \in [times : 0 .. MaxRestores, reader : Readers]
    BY <1>9 DEF Restore, BackupTypeOK
  <2>2. CASE Clashes(backup) \/ Orphaned(backup)
    BY <1>9, <2>1, <2>2 DEF Restore, BackupTypeOK, tables
  <2>3. CASE ~(Clashes(backup) \/ Orphaned(backup))
    <3>1. publications' \subseteq PublicationRow /\ readingUnits' \subseteq UnitEntry
      BY <1>9, <2>3 DEF Restore, BackupTypeOK, NewIn, File
    <3>2. readRows' \subseteq [reader : Readers, unit : RowId]
      BY <1>9, <2>3 DEF Restore, Imported, BackupTypeOK, File
    <3>3. progressEvents' \subseteq EventEntry
      BY <1>9, <2>3 DEF Restore, Imported, BackupTypeOK, File, NewIn
    <3>4. QED
      BY <1>9, <2>1, <2>3, <3>1, <3>2, <3>3, AddedType DEF Restore, BackupTypeOK
  <2>4. QED
    BY <2>2, <2>3
<1>10. CASE UNCHANGED backupVars
  BY <1>10 DEF backupVars, tables, BackupTypeOK
<1>11. QED
  BY <1>1, <1>2, <1>3, <1>4, <1>5, <1>6, <1>7, <1>8, <1>9, <1>10 DEF BackupNext
-----------------------------------------------------------------------------
(* Removals leave no row behind that refers to what is gone, and a restore  *)
(* brings nothing without what it refers to.                               *)
LEMMA KeysStep == BackupTypeOK /\ KeysHold /\ [BackupNext]_backupVars => KeysHold'
<1> SUFFICES ASSUME BackupTypeOK, KeysHold, [BackupNext]_backupVars PROVE KeysHold'
  OBVIOUS
<1> USE DEF KeysHold, Shelved
<1>1. ASSUME NEW o \in Origins, NEW a \in Addresses, AddPublication(o, a)
      PROVE  KeysHold'
  <2>1. /\ publications' = publications \cup {[id |-> made.publications + 1, origin |-> o]}
        /\ readingUnits' = readingUnits \cup {NewUnit(made.publications + 1, a)}
        /\ UNCHANGED <<readRows, progressEvents>>
    BY <1>1 DEF AddPublication
  <2>2. Shelved(readingUnits', publications')
    <3>1. NewUnit(made.publications + 1, a).publication = made.publications + 1
      BY DEF NewUnit
    <3>2. [id |-> made.publications + 1, origin |-> o] \in publications'
      BY <2>1
    <3>3. [id |-> made.publications + 1, origin |-> o].id = made.publications + 1
      OBVIOUS
    <3>4. \A u \in readingUnits : \E p \in publications' : p.id = u.publication
      BY <2>1
    <3>5. QED
      BY <2>1, <3>1, <3>2, <3>3, <3>4
  <2>3. Shelved(progressEvents', publications')
    BY <2>1
  <2>4. \A m \in readRows' : \E u \in readingUnits' : u.id = m.unit
    BY <2>1
  <2>5. QED
    BY <2>2, <2>3, <2>4
<1>2. ASSUME NEW p \in publications, NEW a \in Addresses, AddUnit(p, a)
      PROVE  KeysHold'
  BY <1>2 DEF AddUnit, NewUnit
<1>3. ASSUME NEW p \in publications, RemovePublication(p)
      PROVE  KeysHold'
  BY <1>3 DEF RemovePublication, UnitsOf
<1>4. ASSUME NEW u \in readingUnits, DropUnit(u)
      PROVE  KeysHold'
  BY <1>4 DEF DropUnit
<1>5. ASSUME NEW u \in readingUnits, NEW r \in Readers, ReadUnit(r, u)
      PROVE  KeysHold'
  BY <1>5 DEF ReadUnit
<1>6. CASE Lose
  BY <1>6 DEF Lose
<1>7. CASE ExportStep
  BY <1>7 DEF ExportStep, tables
<1>8. ASSUME NEW r \in Readers, BeginExport(r)
      PROVE  KeysHold'
  BY <1>8 DEF BeginExport, tables
<1>9. ASSUME NEW r \in Readers, Restore(r)
      PROVE  KeysHold'
  <2>1. CASE Clashes(backup) \/ Orphaned(backup)
    BY <1>9, <2>1 DEF Restore, tables
  <2>2. CASE ~(Clashes(backup) \/ Orphaned(backup))
    <3>1. /\ publications' = publications \cup NewIn(backup.publications, publications)
          /\ readingUnits' = readingUnits \cup NewIn(backup.units, readingUnits)
          /\ Imported(backup, r)
      BY <1>9, <2>2 DEF Restore
    <3>2. \A p \in publications \cup backup.publications : \E q \in publications' : q.id = p.id
      BY <3>1, NewInCovers
    <3>3. \A u \in readingUnits \cup backup.units : \E v \in readingUnits' : v.id = u.id
      BY <3>1, NewInCovers
    <3>4. Shelved(readingUnits', publications')
      <4>1. \A u \in NewIn(backup.units, readingUnits) :
               \E p \in publications \cup backup.publications : p.id = u.publication
        BY <2>2 DEF Orphaned
      <4>2. QED
        BY <3>1, <3>2, <4>1
    <3>5. Shelved(progressEvents', publications')
      <4>1. SUFFICES ASSUME NEW e \in progressEvents'
                     PROVE  \E p \in publications' : p.id = e.publication
        OBVIOUS
      <4>2. CASE e \in progressEvents
        BY <3>1, <4>2
      <4>3. CASE e \notin progressEvents
        <5>1. PICK f \in backup.events :
                 /\ e = [f EXCEPT !.reader = r]
                 /\ \E p \in publications \cup backup.publications : p.id = f.publication
          BY <3>1, <4>3 DEF Imported, NewIn
        <5>2. e.publication = f.publication
          BY <5>1 DEF BackupTypeOK, File, EventEntry
        <5>3. QED
          BY <3>2, <5>1, <5>2
      <4>4. QED
        BY <4>2, <4>3
    <3>6. \A m \in readRows' : \E u \in readingUnits' : u.id = m.unit
      <4>1. SUFFICES ASSUME NEW m \in readRows'
                     PROVE  \E u \in readingUnits' : u.id = m.unit
        OBVIOUS
      <4>2. \E u \in readingUnits \cup backup.units : u.id = m.unit
        BY <3>1 DEF Imported
      <4>3. QED
        BY <3>3, <4>2
    <3>7. QED
      BY <3>4, <3>5, <3>6
  <2>3. QED
    BY <2>1, <2>2
<1>10. CASE UNCHANGED backupVars
  BY <1>10 DEF backupVars, tables
<1>11. QED
  BY <1>1, <1>2, <1>3, <1>4, <1>5, <1>6, <1>7, <1>8, <1>9, <1>10 DEF BackupNext

(* Nothing that is read later refers to more than what was read before.     *)
LEMMA ExportCovers ==
    BackupIndInv /\ [BackupNext]_backupVars =>
        /\ (~export.file.late => ReadCovers(export.file))'
        /\ (~backup.late => Closed(backup))'
<1> SUFFICES ASSUME BackupIndInv, [BackupNext]_backupVars
             PROVE  /\ (~export.file.late => ReadCovers(export.file))'
                    /\ (~backup.late => Closed(backup))'
  OBVIOUS
<1>a. BackupTypeOK /\ KeysHold /\ (~export.file.late => ReadCovers(export.file))
      /\ (~backup.late => Closed(backup))
  BY DEF BackupIndInv
<1>b. ASSUME backup' = backup PROVE (~backup.late => Closed(backup))'
  BY <1>a, <1>b DEF Closed, Shelved, MarksFound
<1>c. ASSUME export' = export, publications' \subseteq publications,
             readingUnits' \subseteq readingUnits
      PROVE  (~export.file.late => ReadCovers(export.file))'
  BY <1>a, <1>c DEF ReadCovers, Shelved, MarksFound
<1>1. ASSUME NEW o \in Origins, NEW a \in Addresses, AddPublication(o, a)
      PROVE  (~export.file.late => ReadCovers(export.file))'
  <2>1. AddedWhen({"units", "marks", "events"})
    BY <1>1 DEF AddPublication
  <2>2. QED
    BY <1>a, <2>1, AddedType, ZenonT(90) DEF ReadCovers
<1>2. ASSUME NEW p \in publications, NEW a \in Addresses, AddUnit(p, a)
      PROVE  (~export.file.late => ReadCovers(export.file))'
  <2>1. AddedWhen({"marks", "events"}) /\ publications' = publications
    BY <1>2 DEF AddUnit
  <2>2. QED
    BY <1>a, <2>1, AddedType DEF ReadCovers
<1>3. CASE ExportStep
  <2>1. /\ publications' = publications /\ readingUnits' = readingUnits
        /\ export.next \in {"publications", "units", "marks", "events"}
    BY <1>3, <1>a DEF ExportStep, tables, BackupTypeOK
  <2>2. CASE export.next = "events"
    <3>1. export'.next = "none" /\ backup' = ReadTable("events", export.file)
      BY <1>3, <1>a, <2>2 DEF ExportStep, BackupTypeOK
    <3>2. /\ backup'.publications = export.file.publications
          /\ backup'.units = export.file.units
          /\ backup'.marks = export.file.marks
          /\ backup'.late = export.file.late
          /\ backup'.events \subseteq progressEvents
      BY <3>1, <1>a DEF ReadTable, BackupTypeOK, File
    <3>3. ASSUME ~backup'.late PROVE Closed(backup')
      BY <1>a, <2>2, <3>2, <3>3 DEF ReadCovers, Closed, KeysHold, Shelved
    <3>4. QED
      BY <3>1, <3>3 DEF ReadCovers
  <2>3. CASE export.next # "events"
    <3>1. /\ export'.next = Following(export.next) /\ backup' = backup
          /\ export'.file = ReadTable(export.next, export.file)
      BY <1>3, <1>a, <2>3 DEF ExportStep, BackupTypeOK
    <3>2. ASSUME ~export'.file.late PROVE ReadCovers(export.file)'
      <4>1. CASE export.next = "publications"
        BY <1>a, <2>1, <3>1, <4>1 DEF Following, ReadTable, ReadCovers, BackupTypeOK, File
      <4>2. CASE export.next = "units"
        <5>1. /\ export'.next = "marks"
              /\ export'.file.publications = export.file.publications
              /\ export'.file.units = readingUnits
              /\ export'.file.late = export.file.late
          BY <1>a, <3>1, <4>2 DEF Following, ReadTable, BackupTypeOK, File
        <5>2. publications \subseteq export.file.publications
          BY <1>a, <3>2, <4>2, <5>1 DEF ReadCovers
        <5>3. QED
          BY <1>a, <2>1, <5>1, <5>2 DEF ReadCovers, KeysHold, Shelved
      <4>3. CASE export.next = "marks"
        <5>1. /\ export'.next = "events"
              /\ export'.file.publications = export.file.publications
              /\ export'.file.units = export.file.units
              /\ export'.file.late = export.file.late
              /\ \A i \in export'.file.marks : \E m \in readRows : m.unit = i
          BY <1>a, <3>1, <4>3 DEF Following, ReadTable, BackupTypeOK, File
        <5>2. ReadCovers(export.file)
          BY <1>a, <3>2, <5>1
        <5>3. MarksFound(export'.file.marks, export'.file.units)
          BY <1>a, <4>3, <5>1, <5>2 DEF ReadCovers, KeysHold, MarksFound
        <5>4. QED
          BY <2>1, <4>3, <5>1, <5>2, <5>3 DEF ReadCovers
      <4>4. QED
        BY <2>1, <2>3, <4>1, <4>2, <4>3
    <3>3. QED
      BY <1>b, <3>1, <3>2
  <2>4. QED
    BY <2>2, <2>3
<1>4. ASSUME NEW r \in Readers, Restore(r)
      PROVE  (~export.file.late => ReadCovers(export.file))'
  <2>1. CASE Clashes(backup) \/ Orphaned(backup)
    BY <1>4, <1>c, <2>1 DEF Restore, tables
  <2>2. CASE ~(Clashes(backup) \/ Orphaned(backup))
    <3>1. AddedWhen({"units", "marks", "events"})
      BY <1>4, <2>2 DEF Restore
    <3>2. QED
      BY <1>a, <3>1, AddedType, ZenonT(90) DEF ReadCovers
  <2>3. QED
    BY <2>1, <2>2
<1>5. ASSUME NEW p \in publications, RemovePublication(p)
      PROVE  (~export.file.late => ReadCovers(export.file))'
  BY <1>5, <1>c DEF RemovePublication
<1>6. ASSUME NEW u \in readingUnits, DropUnit(u)
      PROVE  (~export.file.late => ReadCovers(export.file))'
  BY <1>6, <1>c DEF DropUnit
<1>7. ASSUME NEW u \in readingUnits, NEW r \in Readers, ReadUnit(r, u)
      PROVE  (~export.file.late => ReadCovers(export.file))'
  BY <1>7, <1>c DEF ReadUnit
<1>8. CASE Lose
  BY <1>8, <1>a, <1>b DEF Lose, ReadCovers, BackupTypeOK
<1>9. ASSUME NEW r \in Readers, BeginExport(r)
      PROVE  (~export.file.late => ReadCovers(export.file))'
  BY <1>9 DEF BeginExport, ReadCovers
<1>10. CASE UNCHANGED backupVars
  BY <1>10, <1>b, <1>c DEF backupVars, tables
<1>11. QED
  <2>1. ExportStep \/ backup' = backup
    BY DEF BackupNext, backupVars, AddPublication, AddUnit, RemovePublication, DropUnit,
           ReadUnit, Lose, BeginExport, Restore
  <2>2. QED
    BY <1>b, <1>1, <1>2, <1>3, <1>4, <1>5, <1>6, <1>7, <1>8, <1>9, <1>10, <2>1 DEF BackupNext
-----------------------------------------------------------------------------
(* The inductive invariant of exports and restores. *)
THEOREM BackupSpecIndInv == BackupSpec => []BackupIndInv
<1>1. BackupIndInv /\ [BackupNext]_backupVars => BackupIndInv'
  <2> SUFFICES ASSUME BackupIndInv, [BackupNext]_backupVars PROVE BackupIndInv'
    OBVIOUS
  <2>1. BackupTypeOK'
    BY TypeStep DEF BackupIndInv
  <2>2. KeysHold'
    BY KeysStep DEF BackupIndInv
  <2>3. QED
    BY <2>1, <2>2, ExportCovers DEF BackupIndInv
<1>2. QED
  BY <1>1, BackupInitIndInv, PTL DEF BackupSpec

(* Every reachable state of the library, its export and its file has the    *)
(* declared types.                                                          *)
THEOREM BackupTypeCorrect == BackupSpec => []BackupTypeOK
<1>1. BackupIndInv => BackupTypeOK
  BY DEF BackupIndInv
<1>2. QED
  BY <1>1, BackupSpecIndInv, PTL

(* A restore brings back the whole file, whatever was removed during the    *)
(* export or since, when no row was added behind the export and no row of   *)
(* the instance holds the same publication or chapter under another         *)
(* identifier (import_backup).                                              *)
THEOREM RestoresBringBack == BackupSpec => RestoreBringsBack
<1>1. ASSUME BackupIndInv, BackupIndInv', [BackupNext]_backupVars,
             restores' # restores, ~backup.late, ~Clashes(backup)
      PROVE  /\ \A u \in backup.units : \E v \in readingUnits' : u.id = v.id
             /\ \A m \in backup.marks : [reader |-> restores'.reader, unit |-> m] \in readRows'
             /\ \A e \in backup.events :
                   (\E u \in backup.units : u.id = e.unit) =>
                      \E f \in progressEvents' : f.id = e.id
             /\ \A u \in readingUnits' : \E p \in publications' : p.id = u.publication
  <2>1. PICK r \in Readers : Restore(r)
    BY <1>1 DEF BackupNext, backupVars, AddPublication, AddUnit, RemovePublication, DropUnit,
                ReadUnit, Lose, ExportStep, BeginExport
  <2>2. Closed(backup)
    BY <1>1 DEF BackupIndInv
  <2>3. ~Orphaned(backup)
    BY <2>2 DEF Closed, Shelved, Orphaned, NewIn
  <2>4. /\ readingUnits' = readingUnits \cup NewIn(backup.units, readingUnits)
        /\ Imported(backup, r)
        /\ restores'.reader = r
    BY <1>1, <2>1, <2>3 DEF Restore
  <2>5. \A u \in backup.units : \E v \in readingUnits' : u.id = v.id
    BY <2>4, NewInCovers
  <2>6. \A m \in backup.marks : [reader |-> restores'.reader, unit |-> m] \in readRows'
    BY <2>2, <2>4 DEF Closed, MarksFound, Imported
  <2>7. ASSUME NEW e \in backup.events, \E u \in backup.units : u.id = e.unit
        PROVE  \E f \in progressEvents' : f.id = e.id
    <3>1. CASE \E f \in progressEvents : f.id = e.id
      BY <2>4, <3>1 DEF Imported
    <3>2. CASE ~\E f \in progressEvents : f.id = e.id
      <4>1. e \in NewIn(backup.events, progressEvents)
        BY <3>2 DEF NewIn
      <4>2. \E p \in publications \cup backup.publications : p.id = e.publication
        BY <2>2 DEF Closed, Shelved
      <4>3. [e EXCEPT !.reader = r] \in progressEvents'
        BY <2>4, <2>7, <4>1, <4>2 DEF Imported
      <4>4. [e EXCEPT !.reader = r].id = e.id
        BY <1>1 DEF BackupIndInv, BackupTypeOK, File, EventEntry
      <4>5. QED
        BY <4>3, <4>4
    <3>3. QED
      BY <3>1, <3>2
  <2>8. \A u \in readingUnits' : \E p \in publications' : p.id = u.publication
    BY <1>1 DEF BackupIndInv, KeysHold, Shelved
  <2>9. QED
    BY <2>5, <2>6, <2>7, <2>8
<1>2. QED
  BY <1>1, BackupSpecIndInv, PTL DEF BackupSpec, RestoreBringsBack
-----------------------------------------------------------------------------
(* What holds of the books that were neither moved under a scan, nor        *)
(* doubled, nor replaced at a row's path.                                   *)
Clear(t) == t \notin muddled

(* Such a book is at one path,                                              *)
ShelvedOnce ==
    \A t \in Titles : Clear(t) =>
        \A p, q \in Paths : shelf[p] = t /\ shelf[q] = t => p = q

(* every scan under way has found it where it is,                           *)
ScansSeeShelf ==
    \A s \in Scans, t \in Titles : scan[s].at # "rest" /\ Clear(t) =>
        \A p \in Paths : scan[s].found[p] = t <=> shelf[p] = t

(* and no other book is at its row's path, now or as a scan found it.       *)
RowsAtOwnBook ==
    /\ \A r \in stored : Clear(r.title) => shelf[r.path] \in {r.title, NoBook}
    /\ \A s \in Scans : scan[s].at # "rest" =>
          \A r \in stored \cup scan[s].listed : Clear(r.title) =>
              scan[s].found[r.path] \in {r.title, NoBook}

SameRow(q, r) ==
    q.id = r.id \/ q.path = r.path \/ (q.title = r.title /\ Clear(q.title))

(* id and file_path are unique, and a row keeps its book.                   *)
RowsAreKeyed ==
    /\ \A q, r \in stored : q.id = r.id \/ q.path = r.path => q = r
    /\ \A r \in stored : r.id <= lastRow
    /\ \A s \in Scans : scan[s].at = "rest" => scan[s].listed = {}
    /\ \A s \in Scans : \A q \in scan[s].listed :
          /\ q.id <= lastRow
          /\ \A r \in stored : q.id = r.id => q.title = r.title
          /\ \A r \in scan[s].listed : SameRow(q, r) => q = r

(* A row that appeared since the scan listed them is where its book is, and *)
(* one it listed elsewhere than it found the book is not counted as seen.   *)
NewRowsAtBook ==
    \A s \in Scans, r \in stored :
        scan[s].at = "match" /\ Clear(r.title) =>
            (\E q \in scan[s].listed : q.id = r.id) \/ shelf[r.path] = r.title

MovedNotSeen ==
    \A s \in Scans : scan[s].at = "match" =>
        \A p \in scan[s].todo :
            /\ scan[s].found[p] # NoBook
            /\ \A q \in scan[s].listed :
                  scan[s].found[p] = q.title /\ Clear(q.title) /\ q.path # p
                  => q.path \notin scan[s].seen

ScanIndInv ==
    /\ ScanTypeOK /\ ShelvedOnce /\ ScansSeeShelf /\ RowsAtOwnBook /\ RowsAreKeyed
    /\ NewRowsAtBook /\ MovedNotSeen /\ OneRowPerBook
-----------------------------------------------------------------------------
LEMMA ScanInitIndInv == ScanInit => ScanIndInv
<1> SUFFICES ASSUME ScanInit PROVE ScanIndInv
  OBVIOUS
<1>1. Resting \in ScanState
  BY DEF Resting, ScanState, Book
<1>2. ScanTypeOK
  <2> HIDE DEF ScanState, Resting
  <2>1. QED
    BY <1>1, ScanAssumption DEF ScanInit, ScanTypeOK, Book
<1>3. ShelvedOnce
  BY ScanAssumption DEF ScanInit, ShelvedOnce
<1>4. \A s \in Scans : scan[s].at = "rest" /\ scan[s].listed = {}
  BY DEF ScanInit, Resting
<1>5. stored = {}
  BY DEF ScanInit
<1>6. QED
  BY <1>2, <1>3, <1>4, <1>5
  DEF ScanIndInv, ScansSeeShelf, RowsAtOwnBook, RowsAreKeyed, NewRowsAtBook, MovedNotSeen,
      OneRowPerBook

LEMMA ScanTypes ==
    ASSUME ScanTypeOK, NEW s \in Scans
    PROVE  /\ scan[s] \in ScanState /\ scan[s].found \in [Paths -> Book]
           /\ scan[s].at \in {"rest", "list", "match", "flag"}
           /\ scan[s].listed \subseteq Row /\ scan[s].todo \subseteq Paths
           /\ scan[s].seen \subseteq Paths
BY DEF ScanTypeOK, ScanState

LEMMA RowFields ==
    ASSUME NEW r \in Row
    PROVE  r.id \in Nat /\ r.path \in Paths /\ r.title \in Titles
BY DEF Row

(* Each scan goes on with what it found and listed, or ends.                *)
ScansGoOn ==
    \A s \in Scans : scan'[s].at # "rest" =>
        /\ scan[s].at # "rest" /\ scan'[s].found = scan[s].found
        /\ scan'[s].listed \subseteq scan[s].listed
        /\ scan'[s].at = "match" => scan[s].at = "match" /\ scan'[s].listed = scan[s].listed

(* Each row was there, at the same path or now at its book's, or is new and *)
(* at its book's.                                                           *)
RowsFollow ==
    \A r \in stored' :
        \/ \E q \in stored :
              /\ q.id = r.id /\ q.title = r.title
              /\ q.path = r.path \/ (Clear(r.title) => shelf[r.path] = r.title)
        \/ r.id > lastRow /\ (Clear(r.title) => shelf[r.path] = r.title)

RowsKeepKeys ==
    /\ \A q, r \in stored : q.id = r.id \/ q.path = r.path => q = r
    /\ \A r \in stored : r.id <= lastRow

LEMMA RowsFollowKeeps ==
    ASSUME ScanIndInv, ScanTypeOK', UNCHANGED <<shelf, muddled>>, lastRow <= lastRow',
           ScansGoOn, \A s \in Scans : scan'[s].at = "rest" => scan'[s].listed = {},
           RowsFollow, RowsKeepKeys'
    PROVE  /\ ShelvedOnce' /\ ScansSeeShelf' /\ RowsAtOwnBook' /\ RowsAreKeyed'
           /\ NewRowsAtBook'
<1> USE DEF ScanIndInv
<1>1. \A t : Clear(t)' <=> Clear(t)
  BY DEF Clear
<1>2. ShelvedOnce' /\ ScansSeeShelf'
  BY <1>1 DEF ShelvedOnce, ScansSeeShelf, ScansGoOn
<1>3. stored' \subseteq Row /\ stored \subseteq Row /\ lastRow \in Nat /\ lastRow' \in Nat
  BY DEF ScanTypeOK
<1>4. RowsAtOwnBook'
  <2>1. ASSUME NEW r \in stored', Clear(r.title)
        PROVE  shelf[r.path] \in {r.title, NoBook}
    BY <2>1, <1>3, RowFields DEF RowsFollow, RowsAtOwnBook
  <2>2. ASSUME NEW s \in Scans, scan'[s].at # "rest", NEW r \in stored' \cup scan'[s].listed,
               Clear(r.title)
        PROVE  scan'[s].found[r.path] \in {r.title, NoBook}
    <3>1. /\ scan[s].at # "rest" /\ scan'[s].found = scan[s].found
          /\ scan'[s].listed \subseteq scan[s].listed
      BY <2>2 DEF ScansGoOn
    <3>2. CASE r \in scan'[s].listed
      BY <2>2, <3>1, <3>2 DEF RowsAtOwnBook
    <3>3. CASE r \in stored'
      <4>1. CASE shelf[r.path] = r.title
        BY <4>1, <3>1, <3>3, <1>3, <2>2, RowFields DEF ScansSeeShelf
      <4>2. CASE \E q \in stored : q.title = r.title /\ q.path = r.path
        BY <4>2, <3>1, <2>2 DEF RowsAtOwnBook
      <4>3. QED
        BY <4>1, <4>2, <3>3, <2>2 DEF RowsFollow
    <3>4. QED
      BY <3>2, <3>3
  <2>3. QED
    BY <1>1, <2>1, <2>2 DEF RowsAtOwnBook
<1>5. RowsAreKeyed'
  <2>1. ASSUME NEW s \in Scans, NEW q \in scan'[s].listed
        PROVE  /\ q.id <= lastRow'
               /\ \A r \in stored' : q.id = r.id => q.title = r.title
               /\ \A r \in scan'[s].listed : SameRow(q, r) => q = r
    <3>1. scan'[s].listed \subseteq scan[s].listed
      BY DEF ScansGoOn
    <3>2. q \in scan[s].listed /\ q \in Row
      BY <3>1, ScanTypes
    <3>3. q.id <= lastRow /\ q.id \in Nat
      BY <3>2, RowFields DEF RowsAreKeyed
    <3>4. ASSUME NEW r \in stored', q.id = r.id PROVE q.title = r.title
      <4>1. ~(r.id > lastRow)
        BY <3>3, <3>4, <1>3
      <4>2. PICK k \in stored : k.id = r.id /\ k.title = r.title
        BY <4>1, <3>4 DEF RowsFollow
      <4>3. QED
        BY <4>2, <3>2, <3>4 DEF RowsAreKeyed
    <3>5. QED
      BY <3>1, <3>2, <3>3, <3>4, <1>3 DEF RowsAreKeyed
  <2>2. \A q, r : SameRow(q, r)' <=> SameRow(q, r)
    BY <1>1 DEF SameRow
  <2>3. QED
    BY <2>1, <2>2 DEF RowsAreKeyed, RowsKeepKeys
<1>6. NewRowsAtBook'
  <2>1. ASSUME NEW s \in Scans, NEW r \in stored', scan'[s].at = "match", Clear(r.title)
        PROVE  (\E q \in scan'[s].listed : q.id = r.id) \/ shelf[r.path] = r.title
    <3>1. scan[s].at = "match" /\ scan'[s].listed = scan[s].listed
      BY <2>1 DEF ScansGoOn
    <3>2. QED
      BY <2>1, <3>1 DEF RowsFollow, NewRowsAtBook
  <2>2. QED
    BY <1>1, <2>1 DEF NewRowsAtBook
<1>7. QED
  BY <1>2, <1>4, <1>5, <1>6

LEMMA RestingIsTyped == /\ Resting \in ScanState /\ Resting.at = "rest" /\ Resting.listed = {}
BY DEF Resting, ScanState, Book

(* Rows only go, and a scan may end.                                        *)
LEMMA EndsKeeps ==
    ASSUME ScanIndInv, UNCHANGED <<shelf, muddled, lastRow, moves>>,
           hitches' \in 0 .. MaxHitches, stored' \subseteq stored,
           scan' = scan \/ \E s \in Scans : Set(s, Resting)
    PROVE  ScanIndInv'
<1> USE DEF ScanIndInv
<1>1. /\ scan' \in [Scans -> ScanState]
      /\ \A s \in Scans : scan'[s] = scan[s] \/ scan'[s] = Resting
  <2> HIDE DEF ScanState
  <2>1. QED
    BY RestingIsTyped DEF Set, ScanTypeOK
<1>2. ScanTypeOK'
  BY <1>1 DEF ScanTypeOK
<1>3. /\ \A s \in Scans : scan'[s].at = "rest" => scan'[s].listed = {}
      /\ \A s \in Scans : scan'[s].at # "rest" => scan'[s] = scan[s]
  BY <1>1, RestingIsTyped DEF RowsAreKeyed
<1>4. ScansGoOn
  BY <1>3 DEF ScansGoOn
<1>5. RowsFollow /\ RowsKeepKeys'
  BY DEF RowsFollow, RowsKeepKeys, RowsAreKeyed
<1>6. lastRow <= lastRow'
  BY DEF ScanTypeOK
<1>7. MovedNotSeen'
  BY <1>3 DEF MovedNotSeen, Clear
<1>8. OneRowPerBook'
  BY DEF OneRowPerBook
<1>9. QED
  BY <1>2, <1>3, <1>4, <1>5, <1>6, <1>7, <1>8, RowsFollowKeeps

LEMMA ChangeKeeps ==
    ASSUME ScanIndInv, NEW new \in [Paths -> Book], Change(new)
    PROVE  ScanIndInv'
<1> USE DEF ScanIndInv
<1>1. /\ shelf' = new /\ UNCHANGED <<stored, scan, lastRow, hitches>>
      /\ moves' = moves + 1 /\ moves < MaxMoves
      /\ muddled \subseteq muddled' /\ muddled' \subseteq Titles
      /\ \A t \in Titles \ muddled' :
            /\ (\E s \in Scans : scan[s].at # "rest") => \A p \in Paths : (shelf[p] = t) = (new[p] = t)
            /\ ~(Cardinality({p \in Paths : new[p] = t}) > 1)
            /\ \A r \in stored : r.title = t => new[r.path] \in {t, NoBook}
  BY DEF Change, ScanTypeOK
<1>2. ScanTypeOK'
  BY <1>1, ScanAssumption DEF ScanTypeOK
<1>3. \A t : Clear(t)' => Clear(t)
  BY <1>1 DEF Clear
<1>4. ShelvedOnce'
  <2> SUFFICES ASSUME NEW t \in Titles, Clear(t)', NEW p \in Paths, NEW q \in Paths,
                      new[p] = t, new[q] = t, p # q
               PROVE  FALSE
    BY <1>1 DEF ShelvedOnce
  <2> DEFINE T == {x \in Paths : new[x] = t}
  <2>1. IsFiniteSet(T)
    BY ScanAssumption, FS_Subset
  <2>2. {p, q} \subseteq T
    OBVIOUS
  <2>3. Cardinality({p, q}) = 2 /\ Cardinality({p, q}) <= Cardinality(T)
    <3> HIDE DEF T
    <3>1. Cardinality({p, q}) <= Cardinality(T)
      BY <2>1, <2>2, FS_Subset
    <3>2. IsFiniteSet({p}) /\ Cardinality({p}) = 1
      BY FS_Singleton
    <3>3. {p, q} = {p} \cup {q} /\ q \notin {p}
      OBVIOUS
    <3>4. Cardinality({p} \cup {q}) = Cardinality({p}) + 1
      BY <3>2, <3>3, FS_AddElement
    <3>5. QED
      BY <3>1, <3>2, <3>3, <3>4
  <2>4. Cardinality(T) \in Nat
    BY <2>1, FS_CardinalityType
  <2>5. ~(Cardinality(T) > 1)
    BY <1>1 DEF Clear
  <2>6. QED
    BY <2>3, <2>4, <2>5
<1>5. ScansSeeShelf'
  <2> SUFFICES ASSUME NEW s \in Scans, NEW t \in Titles, scan[s].at # "rest", Clear(t)',
                      NEW p \in Paths
               PROVE  scan[s].found[p] = t <=> new[p] = t
    BY <1>1 DEF ScansSeeShelf
  <2>1. (shelf[p] = t) = (new[p] = t)
    BY <1>1 DEF Clear
  <2>2. QED
    BY <2>1, <1>3 DEF ScansSeeShelf
<1>6. stored \subseteq Row
  BY DEF ScanTypeOK
<1>7. RowsAtOwnBook'
  BY <1>1, <1>3, <1>6, RowFields DEF RowsAtOwnBook, Clear
<1>8. RowsAreKeyed'
  BY <1>1, <1>3 DEF RowsAreKeyed, SameRow
<1>9. NewRowsAtBook'
  <2> SUFFICES ASSUME NEW s \in Scans, NEW r \in stored, scan[s].at = "match", Clear(r.title)'
               PROVE  (\E q \in scan[s].listed : q.id = r.id) \/ new[r.path] = r.title
    BY <1>1 DEF NewRowsAtBook
  <2>1. (shelf[r.path] = r.title) = (new[r.path] = r.title)
    BY <1>1, <1>6, RowFields DEF Clear
  <2>2. QED
    BY <2>1, <1>3 DEF NewRowsAtBook
<1>10. MovedNotSeen'
  BY <1>1, <1>3 DEF MovedNotSeen
<1>11. OneRowPerBook'
  BY <1>1 DEF OneRowPerBook
<1>12. QED
  BY <1>2, <1>4, <1>5, <1>7, <1>8, <1>9, <1>10, <1>11

LEMMA DiscoverKeeps ==
    ASSUME ScanIndInv, NEW s \in Scans, Discover(s)
    PROVE  ScanIndInv'
<1> USE DEF ScanIndInv
<1> DEFINE new == [Resting EXCEPT !.at = "list", !.found = shelf]
<1>1. /\ UNCHANGED <<shelf, stored, muddled, lastRow, moves, hitches>>
      /\ scan' = [scan EXCEPT ![s] = new]
  BY DEF Discover, Set
<1>2. /\ new \in ScanState /\ new.at = "list" /\ new.found = shelf /\ new.listed = {}
  <2>1. shelf \in [Paths -> Book]
    BY DEF ScanTypeOK
  <2>2. QED
    BY <2>1 DEF Resting, ScanState
<1> HIDE DEF new
<1>3. /\ scan' \in [Scans -> ScanState] /\ scan'[s] = new
      /\ \A w \in Scans : w # s => scan'[w] = scan[w]
  BY <1>1, <1>2 DEF ScanTypeOK
<1>4. ScanTypeOK'
  BY <1>1, <1>3 DEF ScanTypeOK
<1>5. ShelvedOnce' /\ OneRowPerBook'
  BY <1>1 DEF ShelvedOnce, OneRowPerBook, Clear
<1>6. ScansSeeShelf'
  BY <1>1, <1>2, <1>3 DEF ScansSeeShelf, Clear
<1>7. RowsAtOwnBook'
  BY <1>1, <1>2, <1>3 DEF RowsAtOwnBook, Clear
<1>8. RowsAreKeyed'
  BY <1>1, <1>2, <1>3 DEF RowsAreKeyed, SameRow, Clear
<1>9. NewRowsAtBook' /\ MovedNotSeen'
  BY <1>1, <1>2, <1>3 DEF NewRowsAtBook, MovedNotSeen, Clear
<1>10. QED
  BY <1>4, <1>5, <1>6, <1>7, <1>8, <1>9

LEMMA ListLocalKeeps ==
    ASSUME ScanIndInv, NEW s \in Scans, ListLocal(s)
    PROVE  ScanIndInv'
<1> USE DEF ScanIndInv
<1> DEFINE new == [scan[s] EXCEPT !.at = "match", !.listed = stored, !.todo = Discovered(s),
                                  !.seen = Discovered(s)]
<1>1. /\ UNCHANGED <<shelf, stored, muddled, lastRow, moves, hitches>>
      /\ scan' = [scan EXCEPT ![s] = new] /\ scan[s].at = "list"
  BY DEF ListLocal, Set
<1>2. /\ new \in ScanState /\ new.at = "match" /\ new.found = scan[s].found /\ new.listed = stored
      /\ new.todo = Discovered(s) /\ new.seen = Discovered(s)
  <2>1. stored \subseteq Row /\ Discovered(s) \subseteq Paths /\ scan[s] \in ScanState
    BY DEF ScanTypeOK, Discovered
  <2> HIDE DEF Discovered, Row
  <2>2. QED
    BY <2>1 DEF ScanState
<1> HIDE DEF new
<1>3. /\ scan' \in [Scans -> ScanState] /\ scan'[s] = new
      /\ \A w \in Scans : w # s => scan'[w] = scan[w]
  BY <1>1, <1>2 DEF ScanTypeOK
<1>4. ScanTypeOK'
  BY <1>1, <1>3 DEF ScanTypeOK
<1>5. ShelvedOnce' /\ OneRowPerBook'
  BY <1>1 DEF ShelvedOnce, OneRowPerBook, Clear
<1>6. ScansSeeShelf'
  BY <1>1, <1>2, <1>3 DEF ScansSeeShelf, Clear
<1>7. RowsAtOwnBook'
  BY <1>1, <1>2, <1>3 DEF RowsAtOwnBook, Clear
<1>8. RowsAreKeyed'
  <2>1. ASSUME NEW q \in stored, NEW r \in stored, SameRow(q, r)
        PROVE  q = r
    BY <2>1 DEF RowsAreKeyed, OneRowPerBook, SameRow, Clear
  <2>2. \A q, r : SameRow(q, r)' <=> SameRow(q, r)
    BY <1>1 DEF SameRow, Clear
  <2>3. QED
    BY <1>1, <1>2, <1>3, <2>1, <2>2 DEF RowsAreKeyed
<1>9. NewRowsAtBook'
  BY <1>1, <1>2, <1>3 DEF NewRowsAtBook, Clear
<1>10. MovedNotSeen'
  <2>1. ASSUME NEW p \in Discovered(s), NEW q \in stored, scan[s].found[p] = q.title,
               Clear(q.title), q.path # p, q.path \in Discovered(s)
        PROVE  FALSE
    <3>1. q \in Row /\ p \in Paths
      BY DEF ScanTypeOK, Discovered
    <3>2. scan[s].found[q.path] = q.title
      BY <2>1, <1>1 DEF RowsAtOwnBook, Discovered
    <3>3. shelf[q.path] = q.title /\ shelf[p] = q.title
      BY <2>1, <3>1, <3>2, <1>1, RowFields DEF ScansSeeShelf
    <3>4. QED
      BY <2>1, <3>1, <3>3, RowFields DEF ShelvedOnce
  <2>2. QED
    BY <1>1, <1>2, <1>3, <2>1 DEF MovedNotSeen, Clear, Discovered
<1>11. QED
  BY <1>4, <1>5, <1>6, <1>7, <1>8, <1>9, <1>10

(* What a scan lists for a path: its book elsewhere, and not seen there.    *)
LEMMA ListedIsCandidate ==
    ASSUME ScanIndInv, NEW s \in Scans, scan[s].at = "match", NEW p \in scan[s].todo,
           NEW q \in scan[s].listed, scan[s].found[p] = q.title, Clear(q.title),
           ByPath(s, p) = {}
    PROVE  Candidates(s, p) = {q}
<1> USE DEF ScanIndInv
<1>1. q.path # p
  BY DEF ByPath
<1>2. q \in Candidates(s, p)
  BY <1>1 DEF MovedNotSeen, Candidates
<1>3. ASSUME NEW r \in Candidates(s, p) PROVE r = q
  BY <1>3 DEF Candidates, RowsAreKeyed, SameRow
<1>4. QED
  BY <1>2, <1>3

(* A path done; the path a book was repointed from counts as seen.          *)
LEMMA MatchedKeeps ==
    ASSUME ScanIndInv, NEW s \in Scans, scan[s].at = "match", NEW p \in scan[s].todo,
           NEW seen \in SUBSET Paths, Matched(s, p, seen), muddled' = muddled,
           \A x \in seen : \E r \in Candidates(s, p) : r.path = x
    PROVE  /\ scan' \in [Scans -> ScanState] /\ ScansGoOn /\ MovedNotSeen'
           /\ \A w \in Scans : scan'[w].at = "rest" => scan'[w].listed = {}
<1> USE DEF ScanIndInv
<1> DEFINE new == [scan[s] EXCEPT !.todo = scan[s].todo \ {p}, !.seen = scan[s].seen \cup seen]
<1>1. scan[s] \in ScanState /\ scan[s].todo \subseteq Paths /\ scan[s].seen \subseteq Paths
  BY ScanTypes
<1>2. scan' = [scan EXCEPT ![s] = new]
  BY DEF Matched, Set
<1>3. /\ new \in ScanState /\ new.at = "match" /\ new.found = scan[s].found
      /\ new.listed = scan[s].listed /\ new.todo = scan[s].todo \ {p}
      /\ new.seen = scan[s].seen \cup seen
  <2>1. scan[s].todo \ {p} \in SUBSET Paths /\ scan[s].seen \cup seen \in SUBSET Paths
    BY <1>1
  <2>2. QED
    BY <1>1, <2>1 DEF ScanState
<1> HIDE DEF new
<1>4. /\ scan' \in [Scans -> ScanState] /\ scan'[s] = new
      /\ \A w \in Scans : w # s => scan'[w] = scan[w]
  BY <1>2, <1>3 DEF ScanTypeOK
<1>5. ScansGoOn
  BY <1>3, <1>4 DEF ScansGoOn
<1>6. \A w \in Scans : scan'[w].at = "rest" => scan'[w].listed = {}
  BY <1>3, <1>4 DEF RowsAreKeyed
<1>7. ASSUME NEW x \in scan[s].todo \ {p}, NEW q \in scan[s].listed,
             scan[s].found[x] = q.title, Clear(q.title), q.path # x,
             q.path \in scan[s].seen \cup seen
      PROVE  FALSE
  <2>1. q.path \in seen
    BY <1>7 DEF MovedNotSeen
  <2>2. PICK r \in Candidates(s, p) : r.path = q.path
    BY <2>1
  <2>3. r = q /\ scan[s].found[p] = q.title
    BY <2>2 DEF Candidates, RowsAreKeyed, SameRow
  <2>4. q \in Row /\ x \in Paths /\ p \in Paths
    BY <1>1, ScanTypes
  <2>5. shelf[x] = q.title /\ shelf[p] = q.title
    BY <2>3, <2>4, <1>7, RowFields DEF ScansSeeShelf
  <2>6. QED
    BY <2>4, <2>5, <1>7, RowFields DEF ShelvedOnce
<1>8. MovedNotSeen'
  BY <1>3, <1>4, <1>7 DEF MovedNotSeen, Clear
<1>9. QED
  BY <1>4, <1>5, <1>6, <1>8

LEMMA KnownKeeps ==
    ASSUME ScanIndInv, NEW s \in Scans, scan[s].at = "match", NEW p \in scan[s].todo,
           NEW r \in scan[s].listed, Known(s, p, r),
           UNCHANGED <<shelf, muddled, moves, hitches>>
    PROVE  ScanIndInv'
<1> USE DEF ScanIndInv
<1>1. lastRow' = lastRow
  BY DEF Known
<1>2. CASE ~Kept(r.id)
  BY <1>1, <1>2, EndsKeeps DEF Known, ScanTypeOK
<1>3. CASE Kept(r.id)
  <2>1. /\ stored' = {IF row.id = r.id THEN Healed(r, row) ELSE row : row \in stored}
        /\ Matched(s, p, {})
    BY <1>3 DEF Known
  <2>2. \A row \in stored : /\ Healed(r, row) \in Row /\ Healed(r, row).id = row.id
                            /\ Healed(r, row).path = row.path /\ Healed(r, row).title = row.title
    BY DEF Healed, ScanTypeOK, Row
  <2>3. /\ stored' \subseteq Row
        /\ \A x \in stored' : \E row \in stored :
              /\ x.id = row.id /\ x.path = row.path /\ x.title = row.title
              /\ x = (IF row.id = r.id THEN Healed(r, row) ELSE row)
    <3> HIDE DEF Row
    <3>1. stored \subseteq Row
      BY DEF ScanTypeOK
    <3>2. QED
      BY <2>1, <2>2, <3>1
  <2>4. RowsFollow
    BY <2>3 DEF RowsFollow
  <2>5. RowsKeepKeys'
    <3>1. \A x, y \in stored' : x.id = y.id \/ x.path = y.path => x = y
      BY <2>3 DEF RowsAreKeyed
    <3>2. \A x \in stored' : x.id <= lastRow'
      BY <2>3, <1>1 DEF RowsAreKeyed
    <3>3. QED
      BY <3>1, <3>2 DEF RowsKeepKeys
  <2>6. OneRowPerBook'
    BY <2>3 DEF OneRowPerBook
  <2>7. /\ scan' \in [Scans -> ScanState] /\ ScansGoOn /\ MovedNotSeen'
        /\ \A w \in Scans : scan'[w].at = "rest" => scan'[w].listed = {}
    BY <2>1, MatchedKeeps
  <2>8. ScanTypeOK' /\ lastRow <= lastRow'
    BY <2>3, <2>7, <1>1 DEF ScanTypeOK
  <2>9. QED
    BY <2>4, <2>5, <2>6, <2>7, <2>8, RowsFollowKeeps
<1>4. QED
  BY <1>2, <1>3

LEMMA RepointKeeps ==
    ASSUME ScanIndInv, NEW s \in Scans, scan[s].at = "match", NEW p \in scan[s].todo,
           NEW r \in scan[s].listed, Repoint(s, p, r),
           UNCHANGED <<shelf, muddled, moves, hitches>>
    PROVE  ScanIndInv'
<1> USE DEF ScanIndInv
<1> DEFINE free == \A row \in stored : row.path = p => row.id = r.id
<1>1. lastRow' = lastRow
  BY DEF Repoint
<1>2. CASE ~(Kept(r.id) /\ free)
  BY <1>1, <1>2, EndsKeeps DEF Repoint, ScanTypeOK
<1>3. CASE Kept(r.id) /\ free
  <2>1. /\ stored' = {IF row.id = r.id THEN [row EXCEPT !.path = p, !.missing = FALSE]
                      ELSE row : row \in stored}
        /\ Matched(s, p, {r.path})
    BY <1>3 DEF Repoint
  <2>2. /\ p \in Paths /\ r \in Row /\ stored \subseteq Row
        /\ r.title = scan[s].found[p] /\ r \in Candidates(s, p)
    BY ScanTypes DEF ScanTypeOK, Repoint, Candidates
  <2>3. \A row \in stored :
           LET new == [row EXCEPT !.path = p, !.missing = FALSE]
           IN  new \in Row /\ new.id = row.id /\ new.path = p /\ new.title = row.title
    BY <2>2 DEF Row
  <2>4. /\ stored' \subseteq Row
        /\ \A x \in stored' : \E row \in stored :
              /\ x.id = row.id /\ x.title = row.title
              /\ row.id = r.id => x.path = p /\ x = [row EXCEPT !.path = p, !.missing = FALSE]
              /\ row.id # r.id => x = row
    <3> HIDE DEF Row
    <3>1. QED
      BY <2>1, <2>2, <2>3
  <2>5. \A row \in stored : row.id = r.id => row.title = r.title
    BY DEF RowsAreKeyed
  <2>6. RowsFollow
    <3> SUFFICES ASSUME NEW x \in stored'
                 PROVE  \E q \in stored :
                           /\ q.id = x.id /\ q.title = x.title
                           /\ q.path = x.path \/ (Clear(x.title) => shelf[x.path] = x.title)
      BY DEF RowsFollow
    <3>1. PICK row \in stored :
              /\ x.id = row.id /\ x.title = row.title
              /\ row.id = r.id => x.path = p
              /\ row.id # r.id => x = row
      BY <2>4
    <3>2. CASE row.id = r.id
      <4>1. x.path = p /\ x.title = scan[s].found[p] /\ x.title \in Titles
        BY <3>1, <3>2, <2>2, <2>5, RowFields
      <4>2. Clear(x.title) => shelf[x.path] = x.title
        BY <4>1, <2>2 DEF ScansSeeShelf
      <4>3. QED
        BY <3>1, <4>2
    <3>3. CASE row.id # r.id
      BY <3>1, <3>3
    <3>4. QED
      BY <3>2, <3>3
  <2>7. RowsKeepKeys'
    <3>1. ASSUME NEW x \in stored', NEW y \in stored', x.id = y.id \/ x.path = y.path
          PROVE  x = y
      <4>1. PICK a \in stored :
                /\ x.id = a.id
                /\ a.id = r.id => x.path = p /\ x = [a EXCEPT !.path = p, !.missing = FALSE]
                /\ a.id # r.id => x = a
        BY <2>4
      <4>2. PICK b \in stored :
                /\ y.id = b.id
                /\ b.id = r.id => y.path = p /\ y = [b EXCEPT !.path = p, !.missing = FALSE]
                /\ b.id # r.id => y = b
        BY <2>4
      <4>3. a.id = b.id
        BY <3>1, <4>1, <4>2, <1>3 DEF RowsAreKeyed
      <4>4. a = b
        BY <4>3 DEF RowsAreKeyed
      <4>5. QED
        BY <4>1, <4>2, <4>4
    <3>2. \A x \in stored' : x.id <= lastRow'
      BY <2>4, <1>1 DEF RowsAreKeyed
    <3>3. QED
      BY <3>1, <3>2 DEF RowsKeepKeys
  <2>8. OneRowPerBook'
    <3> SUFFICES ASSUME NEW x \in stored', NEW y \in stored', x.title = y.title, Clear(x.title)'
                 PROVE  x = y
      BY DEF OneRowPerBook, Clear
    <3>1. PICK a \in stored : x.id = a.id /\ x.title = a.title
      BY <2>4
    <3>2. PICK b \in stored : y.id = b.id /\ y.title = b.title
      BY <2>4
    <3>3. a = b
      BY <3>1, <3>2 DEF OneRowPerBook, Clear
    <3>4. QED
      BY <3>1, <3>2, <3>3, <2>7 DEF RowsKeepKeys
  <2>9. /\ scan' \in [Scans -> ScanState] /\ ScansGoOn /\ MovedNotSeen'
        /\ \A w \in Scans : scan'[w].at = "rest" => scan'[w].listed = {}
    <3>1. r.path \in Paths /\ {r.path} \in SUBSET Paths
      BY <2>2, RowFields
    <3>2. QED
      BY <2>1, <2>2, <3>1, MatchedKeeps
  <2>10. ScanTypeOK' /\ lastRow <= lastRow'
    <3>1. stored' \subseteq Row /\ scan' \in [Scans -> ScanState]
      BY <2>4, <2>9
    <3> HIDE DEF ScanState, Row
    <3>2. QED
      BY <3>1, <1>1 DEF ScanTypeOK
  <2>11. QED
    BY <2>6, <2>7, <2>8, <2>9, <2>10, RowsFollowKeeps
<1>4. QED
  BY <1>2, <1>3

LEMMA InsertRowKeeps ==
    ASSUME ScanIndInv, NEW s \in Scans, scan[s].at = "match", NEW p \in scan[s].todo,
           Insert(s, p), UNCHANGED <<shelf, muddled, moves, hitches>>
    PROVE  ScanIndInv'
<1> USE DEF ScanIndInv
<1>1. p \in Paths /\ stored \subseteq Row /\ lastRow \in Nat
  BY ScanTypes DEF ScanTypeOK
<1>2. /\ scan' \in [Scans -> ScanState] /\ ScansGoOn /\ MovedNotSeen'
      /\ \A w \in Scans : scan'[w].at = "rest" => scan'[w].listed = {}
  BY MatchedKeeps DEF Insert
<1>3. CASE \E row \in stored : row.path = p
  <2>1. stored' = stored /\ lastRow' = lastRow
    BY <1>3 DEF Insert
  <2>2. RowsFollow /\ RowsKeepKeys' /\ OneRowPerBook'
    BY <2>1 DEF RowsFollow, RowsKeepKeys, RowsAreKeyed, OneRowPerBook
  <2>3. ScanTypeOK' /\ lastRow <= lastRow'
    BY <2>1, <1>2 DEF ScanTypeOK
  <2>4. QED
    BY <1>2, <2>2, <2>3, RowsFollowKeeps
<1>4. CASE \A row \in stored : row.path # p
  <2> DEFINE t == scan[s].found[p]
             new == [id |-> lastRow + 1, path |-> p, title |-> t, missing |-> FALSE]
  <2>1. stored' = stored \cup {new} /\ lastRow' = lastRow + 1
    BY <1>4 DEF Insert
  <2>2. t \in Titles
    <3>1. t \in Book /\ t # NoBook
      BY <1>1, ScanTypes DEF MovedNotSeen
    <3>2. QED
      BY <3>1 DEF Book
  <2>3. new \in Row /\ new.id = lastRow + 1 /\ new.path = p /\ new.title = t
    BY <1>1, <2>2 DEF Row
  <2> HIDE DEF new
  <2>4. Clear(t) => shelf[p] = t
    BY <1>1, <2>2 DEF ScansSeeShelf
  <2>5. RowsFollow
    BY <1>1, <2>1, <2>3, <2>4 DEF RowsFollow
  <2>6. RowsKeepKeys'
    BY <1>1, <1>4, <2>1, <2>3, RowFields DEF RowsKeepKeys, RowsAreKeyed
  <2>7. ASSUME NEW r \in stored, r.title = t, Clear(t)
        PROVE  FALSE
    <3>1. CASE \E q \in scan[s].listed : q.id = r.id
      <4>1. PICK q \in scan[s].listed : q.id = r.id
        BY <3>1
      <4>2. q.title = t
        BY <4>1, <2>7 DEF RowsAreKeyed
      <4>3. Candidates(s, p) = {q}
        BY <4>2, <2>7, ListedIsCandidate DEF Insert
      <4>4. Cardinality({q}) = 1
        BY FS_Singleton
      <4>5. QED
        BY <4>3, <4>4 DEF Insert
    <3>2. CASE shelf[r.path] = t
      <4>1. r.path \in Paths
        BY <1>1, RowFields
      <4>2. r.path = p
        BY <4>1, <3>2, <1>1, <2>2, <2>4, <2>7 DEF ShelvedOnce
      <4>3. QED
        BY <4>2, <1>4
    <3>3. QED
      BY <3>1, <3>2, <2>7 DEF NewRowsAtBook
  <2>8. OneRowPerBook'
    BY <2>1, <2>3, <2>7 DEF OneRowPerBook, Clear
  <2>9. ScanTypeOK' /\ lastRow <= lastRow'
    BY <1>1, <1>2, <2>1, <2>3 DEF ScanTypeOK
  <2>10. QED
    BY <1>2, <2>5, <2>6, <2>8, <2>9, RowsFollowKeeps
<1>5. QED
  BY <1>3, <1>4

LEMMA FlagKeeps ==
    ASSUME ScanIndInv, NEW s \in Scans, FlagVanished(s)
    PROVE  ScanIndInv'
<1> USE DEF ScanIndInv
<1>1. UNCHANGED <<shelf, muddled, lastRow, moves, hitches>>
  BY DEF FlagVanished
<1>2. CASE Vanished(s) = {} /\ Set(s, Resting) /\ UNCHANGED stored
  BY <1>1, <1>2, EndsKeeps DEF ScanTypeOK
<1>3. CASE \E r \in Vanished(s) :
              /\ stored' = {IF row.id = r.id THEN [row EXCEPT !.missing = TRUE] ELSE row :
                              row \in stored}
              /\ Set(s, [scan[s] EXCEPT !.at = "flag", !.listed = scan[s].listed \ {r}])
  <2>1. PICK r \in Vanished(s) :
              /\ stored' = {IF row.id = r.id THEN [row EXCEPT !.missing = TRUE] ELSE row :
                              row \in stored}
              /\ Set(s, [scan[s] EXCEPT !.at = "flag", !.listed = scan[s].listed \ {r}])
    BY <1>3
  <2>2. \A row \in stored :
           LET new == [row EXCEPT !.missing = TRUE]
           IN  new \in Row /\ new.id = row.id /\ new.path = row.path /\ new.title = row.title
    BY DEF ScanTypeOK, Row
  <2>3. /\ stored' \subseteq Row
        /\ \A x \in stored' : \E row \in stored :
              /\ x.id = row.id /\ x.path = row.path /\ x.title = row.title
              /\ x = (IF row.id = r.id THEN [row EXCEPT !.missing = TRUE] ELSE row)
    <3> HIDE DEF Row
    <3>1. stored \subseteq Row
      BY DEF ScanTypeOK
    <3>2. QED
      BY <2>1, <2>2, <3>1
  <2>4. RowsFollow
    BY <2>3 DEF RowsFollow
  <2>5. RowsKeepKeys'
    <3>1. ASSUME NEW x \in stored', NEW y \in stored', x.id = y.id \/ x.path = y.path
          PROVE  x = y
      <4>1. PICK a \in stored :
                /\ x.id = a.id /\ x.path = a.path
                /\ x = (IF a.id = r.id THEN [a EXCEPT !.missing = TRUE] ELSE a)
        BY <2>3
      <4>2. PICK b \in stored :
                /\ y.id = b.id /\ y.path = b.path
                /\ y = (IF b.id = r.id THEN [b EXCEPT !.missing = TRUE] ELSE b)
        BY <2>3
      <4>3. a = b
        BY <3>1, <4>1, <4>2 DEF RowsAreKeyed
      <4>4. QED
        BY <4>1, <4>2, <4>3
    <3>2. \A x \in stored' : x.id <= lastRow'
      BY <2>3, <1>1 DEF RowsAreKeyed
    <3>3. QED
      BY <3>1, <3>2 DEF RowsKeepKeys
  <2>6. OneRowPerBook'
    <3> SUFFICES ASSUME NEW x \in stored', NEW y \in stored', x.title = y.title, Clear(x.title)
                 PROVE  x = y
      BY <1>1 DEF OneRowPerBook, Clear
    <3>1. PICK a \in stored : x.id = a.id /\ x.title = a.title
      BY <2>3
    <3>2. PICK b \in stored : y.id = b.id /\ y.title = b.title
      BY <2>3
    <3>3. a = b
      BY <3>1, <3>2 DEF OneRowPerBook, Clear
    <3>4. QED
      BY <3>1, <3>2, <3>3, <2>5 DEF RowsKeepKeys
  <2> DEFINE new == [scan[s] EXCEPT !.at = "flag", !.listed = scan[s].listed \ {r}]
  <2>7. scan' = [scan EXCEPT ![s] = new] /\ scan[s].at # "rest"
    BY <2>1 DEF Set, FlagVanished
  <2>8. /\ new \in ScanState /\ new.at = "flag" /\ new.found = scan[s].found
        /\ new.listed \subseteq scan[s].listed
    <3>1. scan[s] \in ScanState /\ scan[s].listed \ {r} \in SUBSET Row
      BY ScanTypes
    <3>2. QED
      BY <3>1 DEF ScanState
  <2> HIDE DEF new
  <2>9. /\ scan' \in [Scans -> ScanState] /\ scan'[s] = new
        /\ \A w \in Scans : w # s => scan'[w] = scan[w]
    BY <2>7, <2>8 DEF ScanTypeOK
  <2>10. ScansGoOn
    BY <2>7, <2>8, <2>9 DEF ScansGoOn
  <2>11. MovedNotSeen'
    BY <1>1, <2>8, <2>9 DEF MovedNotSeen, Clear
  <2>12. \A w \in Scans : scan'[w].at = "rest" => scan'[w].listed = {}
    BY <2>8, <2>9 DEF RowsAreKeyed
  <2>13. ScanTypeOK' /\ lastRow <= lastRow'
    BY <2>3, <2>9, <1>1 DEF ScanTypeOK
  <2>14. QED
    BY <1>1, <2>4, <2>5, <2>6, <2>10, <2>11, <2>12, <2>13, RowsFollowKeeps
<1>4. QED
  BY <1>2, <1>3 DEF FlagVanished

LEMMA ScanNextIndInv == ScanIndInv /\ [ScanNext]_scanVars => ScanIndInv'
<1> SUFFICES ASSUME ScanIndInv, [ScanNext]_scanVars PROVE ScanIndInv'
  OBVIOUS
<1>1. ASSUME NEW s \in Scans, ScanStep(s) PROVE ScanIndInv'
  <2>1. CASE MatchFound(s)
    <3>1. PICK p \in scan[s].todo :
             Insert(s, p) \/ \E r \in scan[s].listed : Known(s, p, r) \/ Repoint(s, p, r)
      BY <2>1 DEF MatchFound
    <3>2. scan[s].at = "match" /\ UNCHANGED <<shelf, muddled, moves, hitches>>
      BY <2>1 DEF MatchFound
    <3>3. QED
      BY <3>1, <3>2, InsertRowKeeps, KnownKeeps, RepointKeeps
  <2>2. QED
    BY <1>1, <2>1, DiscoverKeeps, ListLocalKeeps, FlagKeeps DEF ScanStep
<1>2. ASSUME NEW s \in Scans, ScanFails(s) PROVE ScanIndInv'
  <2>1. hitches' \in 0 .. MaxHitches
    BY <1>2, ScanAssumption DEF ScanFails, Hitch, ScanIndInv, ScanTypeOK
  <2>2. QED
    BY <1>2, <2>1, EndsKeeps DEF ScanFails
<1>3. ASSUME NEW r \in stored, DeletePublication(r) PROVE ScanIndInv'
  <2>1. hitches' \in 0 .. MaxHitches
    BY <1>3, ScanAssumption DEF DeletePublication, Hitch, ScanIndInv, ScanTypeOK
  <2>2. QED
    BY <1>3, <2>1, EndsKeeps DEF DeletePublication
<1>4. ASSUME NEW p \in Paths,
             Take(p) \/ (\E t \in Titles : Put(p, t)) \/ (\E q \in Paths : Rename(p, q))
      PROVE  ScanIndInv'
  <2>1. PICK new \in [Paths -> Book] : Change(new)
    <3>1. shelf \in [Paths -> Book] /\ NoBook \in Book /\ Titles \subseteq Book
      BY DEF ScanIndInv, ScanTypeOK, Book
    <3>2. CASE Take(p)
      <4>1. [shelf EXCEPT ![p] = NoBook] \in [Paths -> Book]
        BY <3>1
      <4>2. QED
        BY <3>2, <4>1 DEF Take
    <3>3. CASE \E t \in Titles : Put(p, t)
      <4>1. PICK t \in Titles : Put(p, t)
        BY <3>3
      <4>2. [shelf EXCEPT ![p] = t] \in [Paths -> Book]
        BY <3>1
      <4>3. QED
        BY <4>1, <4>2 DEF Put
    <3>4. CASE \E q \in Paths : Rename(p, q)
      <4>1. PICK q \in Paths : Rename(p, q)
        BY <3>4
      <4>2. [shelf EXCEPT ![p] = NoBook, ![q] = shelf[p]] \in [Paths -> Book]
        BY <3>1
      <4>3. QED
        BY <4>1, <4>2 DEF Rename
    <3>5. QED
      BY <1>4, <3>2, <3>3, <3>4
  <2>2. QED
    BY <2>1, ChangeKeeps
<1>5. CASE UNCHANGED scanVars
  BY <1>5, EndsKeeps DEF scanVars, ScanIndInv, ScanTypeOK
<1>6. QED
  BY <1>1, <1>2, <1>3, <1>4, <1>5 DEF ScanNext

LEMMA ScanInvariant == ScanSpec => []ScanIndInv
BY ScanInitIndInv, ScanNextIndInv, PTL DEF ScanSpec

(* Rows and scans keep their types.                                         *)
THEOREM ScansTyped == ScanSpec => []ScanTypeOK
<1>1. ScanIndInv => ScanTypeOK
  BY DEF ScanIndInv
<1>2. QED
  BY <1>1, ScanInvariant, PTL

(* A book keeps its one row, however its file moves and scans overlap,      *)
(* unless it moves under a scan, is there twice or is replaced.             *)
THEOREM BooksKeepTheirRow == ScanSpec => []OneRowPerBook
<1>1. ScanIndInv => OneRowPerBook
  BY DEF ScanIndInv
<1>2. QED
  BY <1>1, ScanInvariant, PTL

(* However the directory changes, no two rows share a key or a path.        *)
THEOREM RowsKeyed == ScanSpec => []RowsKeepKeys
<1>1. ScanIndInv => RowsKeepKeys
  BY DEF ScanIndInv, RowsAreKeyed, RowsKeepKeys
<1>2. QED
  BY <1>1, ScanInvariant, PTL
-----------------------------------------------------------------------------
(* A cache has at most one entry of a chapter. *)
OneEach(es) == \A j, k \in 1 .. Len(es) : es[j].unit = es[k].unit => j = k

(* What a request that tries again may meet: nothing older than what was    *)
(* valid when the entry was dropped.                                        *)
FreshFor(r) ==
    /\ viewer[r].since <= address[viewer[r].unit]
    /\ \A k \in 1 .. Len(entries) :
          entries[k].unit = viewer[r].unit => viewer[r].since <= entries[k].list
    /\ \A q \in Viewers :
          Doing(q, "put") /\ viewer[q].unit = viewer[r].unit => viewer[r].since <= viewer[q].list
    /\ Doing(r, "fetch") => viewer[r].since <= viewer[r].list

RetriesMeetFresh ==
    \A r \in Viewers :
        ~Doing(r, "idle") /\ viewer[r].retried /\ ~viewer[r].crossed => FreshFor(r)

LiveIndInv == LiveTypeOK /\ OneEach(entries) /\ RetriesMeetFresh
-----------------------------------------------------------------------------
(* A cache from which entries were dropped or whose entries aged.           *)
Lesser(es) ==
    /\ es \in Seq(Entry) /\ Len(es) <= CacheSize /\ OneEach(es)
    /\ \A k \in 1 .. Len(es) : \E j \in 1 .. Len(entries) :
          es[k].unit = entries[j].unit /\ es[k].list = entries[j].list

LEMMA EntriesAreEntries ==
    ASSUME NEW es \in Seq(Entry), NEW k \in 1 .. Len(es)
    PROVE  /\ es[k] \in Entry /\ es[k].unit \in LiveUnits
           /\ es[k].list \in AddressLists
<1>1. es[k] \in Entry
  OBVIOUS
<1>2. QED
  BY <1>1 DEF Entry

(* HashMap::remove. *)
LEMMA OthersAreOthers ==
    ASSUME LiveIndInv, NEW u \in LiveUnits
    PROVE  /\ Lesser(OtherEntries(u))
           /\ \A k \in 1 .. Len(OtherEntries(u)) : OtherEntries(u)[k].unit # u
           /\ Knows(u) => Len(OtherEntries(u)) = Len(entries) - 1
<1> USE DEF LiveIndInv, LiveTypeOK
<1>1. CASE ~Knows(u)
  BY <1>1 DEF OtherEntries, Lesser, Knows
<1>2. CASE Knows(u)
  <2> DEFINE m == EntryOf(u)
             o == RemoveAt(entries, m)
  <2>1. m \in 1 .. Len(entries) /\ entries[m].unit = u
    BY <1>2 DEF Knows, EntryOf
  <2> HIDE DEF m
  <2>2. /\ o \in Seq(Entry) /\ Len(o) = Len(entries) - 1
        /\ \A k \in 1 .. Len(o) : o[k] = IF k < m THEN entries[k] ELSE entries[k + 1]
    <3> DEFINE a == SubSeq(entries, 1, m - 1)
               b == SubSeq(entries, m + 1, Len(entries))
    <3>1. a \in Seq(Entry) /\ Len(a) = m - 1 /\ \A k \in 1 .. m - 1 : a[k] = entries[k]
      BY <2>1, SubSeqProperties
    <3>2. /\ b \in Seq(Entry) /\ Len(b) = Len(entries) - m
          /\ \A k \in 1 .. Len(entries) - m : b[k] = entries[m + k]
      BY <2>1, SubSeqProperties
    <3>3. o = a \o b
      BY DEF RemoveAt
    <3> HIDE DEF a, b, o
    <3>4. o \in Seq(Entry) /\ Len(o) = Len(entries) - 1
      <4>1. o \in Seq(Entry) /\ Len(o) = Len(a) + Len(b)
        <5> HIDE DEF Entry
        <5>1. a \in Seq(Entry) /\ b \in Seq(Entry)
          BY <3>1, <3>2
        <5>2. a \o b \in Seq(Entry) /\ Len(a \o b) = Len(a) + Len(b)
          BY ONLY <5>1, ConcatProperties
        <5>3. QED
          BY ONLY <5>2, <3>3
      <4>2. QED
        BY <4>1, <3>1, <3>2, <2>1
    <3>5. ASSUME NEW k \in 1 .. Len(o)
          PROVE  o[k] = IF k < m THEN entries[k] ELSE entries[k + 1]
      <4>1. o[k] = IF k <= Len(a) THEN a[k] ELSE b[k - Len(a)]
        BY <3>1, <3>2, <3>3, <3>4, <2>1
      <4>2. CASE k < m
        BY <4>1, <4>2, <3>1, <2>1
      <4>3. CASE ~(k < m)
        BY <4>1, <4>3, <3>1, <3>2, <3>4, <2>1
      <4>4. QED
        BY <4>2, <4>3
    <3>6. QED
      BY <3>4, <3>5
  <2>3. OtherEntries(u) = o
    BY <1>2 DEF OtherEntries, m
  <2> HIDE DEF o
  <2>4. \A k \in 1 .. Len(o) : o[k].unit # u
    BY <2>1, <2>2 DEF OneEach
  <2>5. OneEach(o)
    <3> SUFFICES ASSUME NEW j \in 1 .. Len(o), NEW k \in 1 .. Len(o), o[j].unit = o[k].unit
                 PROVE  j = k
      BY DEF OneEach
    <3> DEFINE At(i) == IF i < m THEN i ELSE i + 1
    <3>1. /\ At(j) \in 1 .. Len(entries) /\ At(k) \in 1 .. Len(entries)
          /\ o[j] = entries[At(j)] /\ o[k] = entries[At(k)]
      BY <2>1, <2>2
    <3>2. At(j) = At(k)
      BY <3>1 DEF OneEach
    <3>3. QED
      BY <3>2, <2>1
  <2>6. \A k \in 1 .. Len(o) : \E j \in 1 .. Len(entries) : o[k] = entries[j]
    BY <2>1, <2>2, SMTT(30)
  <2>7. Lesser(o)
    <3>1. Len(o) <= CacheSize
      BY <2>1, <2>2, LiveAssumption
    <3>2. QED
      BY <2>2, <2>5, <2>6, <3>1 DEF Lesser
  <2>8. QED
    BY <2>2, <2>3, <2>4, <2>7
<1>3. QED
  BY <1>1, <1>2

LEMMA ViewerTypes ==
    ASSUME LiveTypeOK, NEW r \in Viewers, ~Doing(r, "idle")
    PROVE  /\ viewer[r] \in Viewing
           /\ viewer[r].unit \in LiveUnits /\ viewer[r].list \in AddressLists
           /\ viewer[r].since \in AddressLists
           /\ viewer[r].at \in {"look", "resolve", "put", "fetch"}
<1>1. viewer[r] \in Viewing
  BY DEF LiveTypeOK, NoRequest, Doing
<1>2. QED
  BY <1>1 DEF Viewing

(* Nothing older comes up while the cache only shrinks or ages and the      *)
(* source's addresses only move on.                                         *)
LEMMA LesserKeepsFresh ==
    ASSUME LiveIndInv, Lesser(entries'),
           \A u \in LiveUnits : address'[u] \in AddressLists /\ address[u] <= address'[u],
           \A q \in Viewers : viewer'[q] = viewer[q]
    PROVE  RetriesMeetFresh'
<1> SUFFICES ASSUME NEW r \in Viewers, ~Doing(r, "idle")', viewer'[r].retried, ~viewer'[r].crossed
             PROVE  FreshFor(r)'
  BY DEF RetriesMeetFresh
<1> USE DEF LiveIndInv
<1>1. ~Doing(r, "idle") /\ viewer'[r] = viewer[r] /\ FreshFor(r)
  BY DEF Doing, RetriesMeetFresh
<1>2. viewer[r].unit \in LiveUnits /\ viewer[r].since \in AddressLists
  BY <1>1, ViewerTypes
<1>3. viewer[r].since <= address'[viewer[r].unit]
  BY <1>1, <1>2, LiveAssumption DEF FreshFor, AddressLists, LiveTypeOK
<1>4. \A k \in 1 .. Len(entries') :
          entries'[k].unit = viewer[r].unit => viewer[r].since <= entries'[k].list
  BY <1>1 DEF FreshFor, Lesser
<1>5. QED
  BY <1>1, <1>3, <1>4 DEF FreshFor, Doing

LEMMA LiveInitIndInv == LiveInit => LiveIndInv
<1> SUFFICES ASSUME LiveInit PROVE LiveIndInv
  OBVIOUS
<1>1. LiveTypeOK
  BY LiveAssumption DEF LiveInit, LiveTypeOK, AddressLists
<1>2. OneEach(entries) /\ RetriesMeetFresh
  BY DEF LiveInit, OneEach, RetriesMeetFresh, Doing, NoRequest
<1>3. QED
  BY <1>1, <1>2 DEF LiveIndInv

(* The cache is left alone or loses something, the requests stay.           *)
LEMMA CacheStepsKeep ==
    ASSUME LiveIndInv,
           \/ \E u \in LiveUnits : \/ Renew(u) \/ Downloaded(u) \/ RemoveDownload(u)
                                   \/ DeleteLive(u) \/ DropEntry(u) \/ LoseDrop(u)
           \/ Elapse
    PROVE  LiveIndInv'
<1> USE DEF LiveIndInv
<1>1. Lesser(entries)
  BY DEF Lesser, LiveTypeOK
<1>2. CASE \E u \in LiveUnits : Renew(u)
  <2>1. PICK u \in LiveUnits : Renew(u)
    BY <1>2
  <2>2. /\ address' = [address EXCEPT ![u] = address[u] + 1] /\ address[u] < MaxRenewals
        /\ UNCHANGED <<held, entries, viewer, toDrop, rowMoves>>
    BY <2>1 DEF Renew
  <2>3. /\ address' \in [LiveUnits -> AddressLists]
        /\ \A v \in LiveUnits : address'[v] \in AddressLists /\ address[v] <= address'[v]
    BY <2>2, LiveAssumption DEF LiveTypeOK, AddressLists
  <2>4. RetriesMeetFresh'
    BY <1>1, <2>2, <2>3, LesserKeepsFresh
  <2>5. LiveTypeOK'
    BY <2>2, <2>3 DEF LiveTypeOK
  <2>6. QED
    BY <2>2, <2>4, <2>5
<1>3. CASE \E u \in LiveUnits : \/ Downloaded(u) \/ RemoveDownload(u) \/ DeleteLive(u) \/ LoseDrop(u)
  <2>1. UNCHANGED <<address, entries, viewer>> /\ LiveTypeOK'
    <3>1. CASE \E u \in LiveUnits, value \in {"remote", "stored", "gone"} : RowMoves(u, value)
      <4>1. PICK u \in LiveUnits, value \in {"remote", "stored", "gone"} : RowMoves(u, value)
        BY <3>1
      <4>2. held' = [held EXCEPT ![u] = value] /\ rowMoves' = rowMoves + 1 /\ rowMoves < MaxRowMoves
        BY <4>1 DEF RowMoves
      <4>3. rowMoves' \in 0 .. MaxRowMoves
        BY <4>2, LiveAssumption DEF LiveTypeOK
      <4>4. QED
        BY <4>1, <4>2, <4>3 DEF RowMoves, LiveTypeOK
    <3>2. CASE \E u \in LiveUnits : LoseDrop(u)
      BY <3>2 DEF LoseDrop, LiveTypeOK
    <3>3. QED
      BY <1>3, <3>1, <3>2 DEF Downloaded, RemoveDownload, DeleteLive
  <2>2. \A v \in LiveUnits : address'[v] \in AddressLists /\ address[v] <= address'[v]
    BY <2>1, LiveAssumption DEF LiveTypeOK, AddressLists
  <2>3. RetriesMeetFresh'
    BY <1>1, <2>1, <2>2, LesserKeepsFresh
  <2>4. QED
    BY <2>1, <2>3
<1>4. CASE \E u \in LiveUnits : DropEntry(u)
  <2>1. PICK u \in LiveUnits : DropEntry(u)
    BY <1>4
  <2>2. /\ entries' = OtherEntries(u) /\ toDrop' = toDrop \ {u}
        /\ UNCHANGED <<held, address, viewer, rowMoves>>
    BY <2>1 DEF DropEntry, Invalidated
  <2>3. Lesser(entries')
    BY <2>2, OthersAreOthers
  <2>4. \A v \in LiveUnits : address'[v] \in AddressLists /\ address[v] <= address'[v]
    BY <2>2, LiveAssumption DEF LiveTypeOK, AddressLists
  <2>5. RetriesMeetFresh'
    BY <2>2, <2>3, <2>4, LesserKeepsFresh
  <2>6. LiveTypeOK' /\ OneEach(entries')
    BY <2>2, <2>3 DEF LiveTypeOK, Lesser
  <2>7. QED
    BY <2>5, <2>6
<1>5. CASE Elapse
  <2>1. PICK k \in 1 .. Len(entries) :
           entries' = [j \in 1 .. Len(entries) |->
                          [entries[j] EXCEPT !.old = entries[j].old \/ j <= k]]
    BY <1>5 DEF Elapse
  <2>2. \A j \in 1 .. Len(entries) :
           /\ entries'[j] \in Entry
           /\ entries'[j].unit = entries[j].unit /\ entries'[j].list = entries[j].list
    <3> SUFFICES ASSUME NEW j \in 1 .. Len(entries)
                 PROVE  /\ entries'[j] \in Entry
                        /\ entries'[j].unit = entries[j].unit /\ entries'[j].list = entries[j].list
      OBVIOUS
    <3>1. entries[j] \in Entry
      BY DEF LiveTypeOK
    <3> DEFINE aged == entries[j].old \/ j <= k
    <3>2. entries'[j] = [entries[j] EXCEPT !.old = aged]
      BY <2>1
    <3>3. aged \in BOOLEAN
      OBVIOUS
    <3> HIDE DEF aged
    <3>4. QED
      BY <3>1, <3>2, <3>3 DEF Entry
  <2>3. entries' \in Seq(Entry) /\ Len(entries') = Len(entries)
    BY <2>1, <2>2 DEF LiveTypeOK
  <2>4. Lesser(entries')
    BY <2>2, <2>3 DEF Lesser, OneEach, LiveTypeOK
  <2>5. UNCHANGED <<held, address, viewer, toDrop, rowMoves>>
    BY <1>5 DEF Elapse
  <2>6. \A v \in LiveUnits : address'[v] \in AddressLists /\ address[v] <= address'[v]
    BY <2>5, LiveAssumption DEF LiveTypeOK, AddressLists
  <2>7. RetriesMeetFresh'
    BY <2>4, <2>5, <2>6, LesserKeepsFresh
  <2>8. LiveTypeOK' /\ OneEach(entries')
    BY <2>4, <2>5 DEF LiveTypeOK, Lesser
  <2>9. QED
    BY <2>7, <2>8
<1>6. QED
  BY <1>2, <1>3, <1>4, <1>5

(* One request moves on and keeps what it is for.                           *)
Onward(r, new) ==
    /\ new \in Viewing /\ viewer' = [viewer EXCEPT ![r] = new]
    /\ new.unit = viewer[r].unit /\ new.retried = viewer[r].retried
    /\ new.since = viewer[r].since /\ new.crossed = viewer[r].crossed

(* It meets nothing older, provided the list it goes on with is no older    *)
(* than what anyone who tries again waits for.                              *)
LEMMA OnwardKeepsFresh ==
    ASSUME LiveIndInv, NEW r \in Viewers, NEW new, Onward(r, new), ~Doing(r, "idle"),
           UNCHANGED <<held, address, entries, toDrop, rowMoves>>,
           new.at = "put" => new.list = address[new.unit],
           new.at = "fetch" => \E k \in 1 .. Len(entries) :
                                  entries[k].unit = new.unit /\ entries[k].list = new.list
    PROVE  LiveIndInv'
<1> USE DEF LiveIndInv
<1>1. LiveTypeOK'
  BY DEF LiveTypeOK, Onward
<1>2. OneEach(entries')
  OBVIOUS
<1>3. ASSUME NEW w \in Viewers, ~Doing(w, "idle")', viewer'[w].retried, ~viewer'[w].crossed
      PROVE  FreshFor(w)'
  <2>1. /\ viewer'[r] = new /\ \A q \in Viewers : q # r => viewer'[q] = viewer[q]
    BY DEF Onward, LiveTypeOK
  <2>2. /\ ~Doing(w, "idle") /\ viewer[w].retried /\ ~viewer[w].crossed
        /\ viewer'[w].unit = viewer[w].unit /\ viewer'[w].since = viewer[w].since
    BY <1>3, <2>1 DEF Doing, Onward
  <2>3. FreshFor(w)
    BY <2>2 DEF RetriesMeetFresh
  <2>4. ASSUME NEW q \in Viewers, Doing(q, "put")', viewer'[q].unit = viewer'[w].unit
        PROVE  viewer'[w].since <= viewer'[q].list
    <3>1. CASE q = r
      BY <3>1, <2>1, <2>2, <2>3, <2>4 DEF FreshFor, Doing
    <3>2. CASE q # r
      BY <3>2, <2>1, <2>2, <2>3, <2>4 DEF FreshFor, Doing
    <3>3. QED
      BY <3>1, <3>2
  <2>5. ASSUME Doing(w, "fetch")' PROVE viewer'[w].since <= viewer'[w].list
    <3>1. CASE w = r
      BY <3>1, <2>1, <2>2, <2>3, <2>5 DEF FreshFor, Doing
    <3>2. CASE w # r
      BY <3>2, <2>1, <2>2, <2>3, <2>5 DEF FreshFor, Doing
    <3>3. QED
      BY <3>1, <3>2
  <2>6. QED
    BY <2>2, <2>3, <2>4, <2>5 DEF FreshFor
<1>4. QED
  BY <1>1, <1>2, <1>3 DEF RetriesMeetFresh

(* A request begins or ends.                                                *)
LEMMA BeginsOrEndsKeeps ==
    ASSUME LiveIndInv, NEW r \in Viewers, NEW new \in {NoRequest} \cup Viewing,
           viewer' = [viewer EXCEPT ![r] = new],
           new.at = "idle" \/ (new.at = "look" /\ ~new.retried),
           UNCHANGED <<held, address, entries, toDrop, rowMoves>>
    PROVE  LiveIndInv'
<1> USE DEF LiveIndInv
<1>1. LiveTypeOK'
  BY DEF LiveTypeOK
<1>2. /\ viewer'[r] = new /\ \A q \in Viewers : q # r => viewer'[q] = viewer[q]
  BY DEF LiveTypeOK
<1>3. ASSUME NEW w \in Viewers, ~Doing(w, "idle")', viewer'[w].retried, ~viewer'[w].crossed
      PROVE  FreshFor(w)'
  <2>1. w # r
    BY <1>2, <1>3 DEF Doing
  <2>2. FreshFor(w) /\ viewer'[w] = viewer[w]
    BY <1>2, <1>3, <2>1 DEF RetriesMeetFresh, Doing
  <2>3. \A q \in Viewers : Doing(q, "put")' => Doing(q, "put") /\ viewer'[q] = viewer[q]
    BY <1>2 DEF Doing
  <2>4. QED
    BY <2>2, <2>3 DEF FreshFor, Doing
<1>4. QED
  BY <1>1, <1>3 DEF RetriesMeetFresh

LEMMA KeptMakesRoom ==
    ASSUME LiveIndInv, NEW u \in LiveUnits,
           NEW kept,
           kept = IF Len(entries) >= CacheSize /\ ~Knows(u) THEN Tail(entries) ELSE OtherEntries(u)
    PROVE  /\ Lesser(kept) /\ Len(kept) < CacheSize
           /\ \A k \in 1 .. Len(kept) : kept[k].unit # u
<1> USE DEF LiveIndInv
<1>1. CASE Len(entries) >= CacheSize /\ ~Knows(u)
  <2>1. /\ entries \in Seq(Entry) /\ Len(entries) \in Nat /\ Len(entries) = CacheSize
        /\ CacheSize \in Nat \ {0} /\ kept = Tail(entries)
    BY <1>1, LiveAssumption DEF LiveTypeOK
  <2>2. /\ kept \in Seq(Entry) /\ Len(kept) = Len(entries) - 1
        /\ \A k \in 1 .. Len(kept) : kept[k] = entries[k + 1]
    <3> HIDE DEF Entry
    <3>1. entries # <<>>
      BY <2>1
    <3>2. QED
      BY <2>1, <3>1, HeadTailProperties
  <2>3. OneEach(kept)
    BY <2>1, <2>2 DEF OneEach
  <2>4. \A k \in 1 .. Len(kept) : k + 1 \in 1 .. Len(entries) /\ kept[k] = entries[k + 1]
    BY <2>1, <2>2
  <2>5. QED
    BY <1>1, <2>1, <2>2, <2>3, <2>4 DEF Lesser, Knows
<1>2. CASE ~(Len(entries) >= CacheSize /\ ~Knows(u))
  <2>1. /\ kept = OtherEntries(u) /\ Lesser(kept)
        /\ \A k \in 1 .. Len(kept) : kept[k].unit # u
    BY <1>2, OthersAreOthers
  <2>2. Len(kept) < CacheSize
    <3>1. CASE Knows(u)
      BY <3>1, <2>1, OthersAreOthers, LiveAssumption DEF LiveTypeOK
    <3>2. CASE ~Knows(u)
      BY <3>2, <2>1, <1>2, LiveAssumption DEF OtherEntries, LiveTypeOK
    <3>3. QED
      BY <3>1, <3>2
  <2>3. QED
    BY <2>1, <2>2
<1>3. QED
  BY <1>1, <1>2

LEMMA PutListKeeps ==
    ASSUME LiveIndInv, NEW r \in Viewers, PutList(r)
    PROVE  LiveIndInv'
<1> USE DEF LiveIndInv
<1> DEFINE u == viewer[r].unit
           l == viewer[r].list
           kept == IF Len(entries) >= CacheSize /\ ~Knows(u) THEN Tail(entries) ELSE OtherEntries(u)
           new == [unit |-> u, list |-> l, old |-> FALSE]
<1>1. u \in LiveUnits /\ l \in AddressLists /\ new \in Entry
  BY ViewerTypes DEF PutList, Doing, Entry
<1>2. entries' = Append(kept, new)
  BY DEF PutList, WithList
<1>3. /\ Lesser(kept) /\ Len(kept) < CacheSize
      /\ \A k \in 1 .. Len(kept) : kept[k].unit # u
  BY <1>1, KeptMakesRoom
<1>4. new.unit = u /\ new.list = l
  OBVIOUS
<1> HIDE DEF kept, new
<1>5. /\ entries' \in Seq(Entry) /\ Len(entries') = Len(kept) + 1
      /\ \A k \in 1 .. Len(kept) : entries'[k] = kept[k]
      /\ entries'[Len(kept) + 1] = new
  <2> HIDE DEF Entry
  <2>1. QED
    BY <1>1, <1>2, <1>3 DEF Lesser
<1>6. Len(entries') <= CacheSize
  BY <1>3, <1>5, LiveAssumption DEF Lesser
<1>7. OneEach(entries')
  BY <1>3, <1>4, <1>5, SMTT(30) DEF OneEach, Lesser
<1>8. /\ viewer'[r] \in {NoRequest} \cup Viewing
      /\ viewer'[r] # NoRequest =>
            /\ viewer'[r].unit = u /\ viewer'[r].list = l /\ viewer'[r].at = "fetch"
            /\ viewer'[r].retried = viewer[r].retried /\ viewer'[r].since = viewer[r].since
            /\ viewer'[r].crossed = viewer[r].crossed
      /\ \A q \in Viewers : q # r => viewer'[q] = viewer[q]
      /\ viewer' \in [Viewers -> {NoRequest} \cup Viewing]
  <2>1. CASE viewer[r].image
    <3>1. viewer' = [viewer EXCEPT ![r] = [viewer[r] EXCEPT !.at = "fetch"]]
      BY <2>1 DEF PutList
    <3>2. viewer[r] \in Viewing
      BY ViewerTypes DEF PutList, Doing
    <3>3. [viewer[r] EXCEPT !.at = "fetch"] \in Viewing
      BY <3>2 DEF Viewing
    <3>4. QED
      BY <3>1, <3>2, <3>3 DEF LiveTypeOK, Viewing
  <2>2. CASE ~viewer[r].image
    BY <2>2 DEF PutList, Ended, LiveTypeOK
  <2>3. QED
    BY <2>1, <2>2
<1>9. LiveTypeOK'
  BY <1>5, <1>6, <1>8 DEF PutList, LiveTypeOK
<1>10. ASSUME NEW w \in Viewers, ~Doing(w, "idle")', viewer'[w].retried, ~viewer'[w].crossed
       PROVE  FreshFor(w)'
  <2>1. /\ viewer'[w] # NoRequest /\ ~Doing(w, "idle") /\ viewer[w].retried /\ ~viewer[w].crossed
        /\ viewer'[w].unit = viewer[w].unit /\ viewer'[w].since = viewer[w].since
        /\ viewer'[w].list = viewer[w].list
    <3>1. viewer'[w] # NoRequest
      BY <1>10 DEF Doing, NoRequest
    <3>2. QED
      BY <3>1, <1>8, <1>10 DEF Doing, PutList
  <2>2. FreshFor(w)
    BY <2>1 DEF RetriesMeetFresh
  <2>3. u = viewer[w].unit => viewer[w].since <= l
    BY <2>2 DEF FreshFor, PutList
  <2>4. ASSUME NEW k \in 1 .. Len(entries'), entries'[k].unit = viewer[w].unit
        PROVE  viewer[w].since <= entries'[k].list
    <3>1. CASE k = Len(kept) + 1
      BY <3>1, <2>3, <2>4, <1>4, <1>5
    <3>2. CASE k # Len(kept) + 1
      <4>1. k \in 1 .. Len(kept) /\ entries'[k] = kept[k]
        BY <3>2, <1>3, <1>5 DEF Lesser
      <4>2. PICK j \in 1 .. Len(entries) :
               kept[k].unit = entries[j].unit /\ kept[k].list = entries[j].list
        BY <4>1, <1>3 DEF Lesser
      <4>3. QED
        BY <4>1, <4>2, <2>2, <2>4 DEF FreshFor
    <3>3. QED
      BY <3>1, <3>2
  <2>5. \A q \in Viewers : Doing(q, "put")' => q # r /\ Doing(q, "put") /\ viewer'[q] = viewer[q]
    BY <1>8 DEF Doing, NoRequest
  <2>6. Doing(w, "fetch")' => viewer[w].since <= viewer[w].list
    <3>1. CASE w = r
      BY <3>1, <2>3
    <3>2. CASE w # r
      BY <3>2, <1>8, <2>2 DEF FreshFor, Doing
    <3>3. QED
      BY <3>1, <3>2
  <2>7. address' = address
    BY DEF PutList
  <2>8. QED
    BY <2>1, <2>2, <2>4, <2>5, <2>6, <2>7 DEF FreshFor
<1>11. QED
  BY <1>7, <1>9, <1>10 DEF RetriesMeetFresh

LEMMA RetryKeeps ==
    ASSUME LiveIndInv, NEW r \in Viewers, Retry(r)
    PROVE  LiveIndInv'
<1> USE DEF LiveIndInv
<1> DEFINE u == viewer[r].unit
           met == \E q \in Viewers :
                     Doing(q, "put") /\ viewer[q].unit = u /\ viewer[q].list < address[u]
           new == [viewer[r] EXCEPT !.at = "look", !.list = 0, !.retried = TRUE,
                                    !.since = address[u], !.crossed = met]
<1>1. viewer[r] \in Viewing /\ u \in LiveUnits /\ address[u] \in AddressLists
  BY ViewerTypes DEF Retry, Doing, LiveTypeOK
<1>2. met \in BOOLEAN /\ 0 \in AddressLists
  BY LiveAssumption DEF AddressLists
<1>3. viewer' = [viewer EXCEPT ![r] = new] /\ entries' = OtherEntries(u)
  BY DEF Retry, Invalidated
<1>4. /\ new \in Viewing /\ new.at = "look" /\ new.unit = u /\ new.since = address[u]
      /\ new.crossed = met
  <2> HIDE DEF met
  <2>1. QED
    BY <1>1, <1>2 DEF Viewing
<1>5. /\ Lesser(entries') /\ \A k \in 1 .. Len(entries') : entries'[k].unit # u
  BY <1>1, <1>3, OthersAreOthers
<1> HIDE DEF new
<1>6. /\ viewer'[r] = new /\ \A q \in Viewers : q # r => viewer'[q] = viewer[q]
      /\ viewer' \in [Viewers -> {NoRequest} \cup Viewing]
  BY <1>3, <1>4 DEF LiveTypeOK
<1>7. LiveTypeOK' /\ OneEach(entries')
  BY <1>5, <1>6 DEF Retry, LiveTypeOK, Lesser
<1>8. ASSUME NEW w \in Viewers, ~Doing(w, "idle")', viewer'[w].retried, ~viewer'[w].crossed
      PROVE  FreshFor(w)'
  <2>1. \A q \in Viewers : Doing(q, "put")' => q # r /\ Doing(q, "put") /\ viewer'[q] = viewer[q]
    BY <1>4, <1>6 DEF Doing
  <2>2. address' = address
    BY DEF Retry
  <2>3. CASE w = r
    <3>1. /\ viewer'[w].unit = u /\ viewer'[w].since = address[u] /\ ~Doing(w, "fetch")'
      BY <2>3, <1>4, <1>6 DEF Doing
    <3>2. ASSUME NEW q \in Viewers, Doing(q, "put")', viewer'[q].unit = u
          PROVE  address[u] <= viewer'[q].list
      <4>1. Doing(q, "put") /\ viewer'[q] = viewer[q] /\ ~(viewer[q].list < address[u])
        BY <2>1, <2>3, <3>2, <1>4, <1>6, <1>8
      <4>2. viewer[q].list \in AddressLists
        BY <4>1, ViewerTypes DEF Doing
      <4>3. QED
        BY <4>1, <4>2, <1>1, LiveAssumption DEF AddressLists
    <3>3. address[u] <= address'[u]
      BY <2>2, <1>1, LiveAssumption DEF AddressLists
    <3>4. QED
      BY <3>1, <3>2, <3>3, <1>5 DEF FreshFor
  <2>4. CASE w # r
    <3>1. viewer'[w] = viewer[w] /\ FreshFor(w)
      BY <2>4, <1>6, <1>8 DEF Doing, RetriesMeetFresh
    <3>2. \A k \in 1 .. Len(entries') :
             entries'[k].unit = viewer[w].unit => viewer[w].since <= entries'[k].list
      BY <3>1, <1>5 DEF FreshFor, Lesser
    <3>3. QED
      BY <3>1, <3>2, <2>1, <2>2 DEF FreshFor, Doing
  <2>5. QED
    BY <2>3, <2>4
<1>9. QED
  BY <1>7, <1>8 DEF RetriesMeetFresh

LEMMA RequestStepsKeep ==
    ASSUME LiveIndInv, NEW r \in Viewers,
           \/ \E u \in LiveUnits, image \in BOOLEAN : Ask(r, u, image)
           \/ Found(r) \/ NotFound(r) \/ Resolve(r) \/ PutList(r) \/ Retry(r) \/ Leave(r)
    PROVE  LiveIndInv'
<1>1. CASE \E u \in LiveUnits, image \in BOOLEAN : Ask(r, u, image)
  <2>1. PICK u \in LiveUnits, image \in BOOLEAN : Ask(r, u, image)
    BY <1>1
  <2> DEFINE new == [at |-> "look", unit |-> u, image |-> image, list |-> 0,
                     retried |-> FALSE, since |-> 0, crossed |-> FALSE]
  <2>2. new \in Viewing
    BY LiveAssumption DEF Viewing, AddressLists
  <2>3. /\ viewer' = [viewer EXCEPT ![r] = new] /\ new.at = "look" /\ ~new.retried
        /\ UNCHANGED <<held, address, entries, toDrop, rowMoves>>
    BY <2>1 DEF Ask
  <2> HIDE DEF new
  <2>4. QED
    BY <2>2, <2>3, BeginsOrEndsKeeps
<1>2. ASSUME Ended(r), UNCHANGED <<held, address, entries, toDrop, rowMoves>>
      PROVE  LiveIndInv'
  BY <1>2, BeginsOrEndsKeeps DEF Ended, NoRequest
<1>3. CASE Found(r)
  <2>1. PICK e \in Got(viewer[r].unit) :
           IF viewer[r].image
           THEN viewer' = [viewer EXCEPT ![r].at = "fetch", ![r].list = e.list]
           ELSE Ended(r)
    BY <1>3 DEF Found
  <2>2. PICK k \in 1 .. Len(entries) : e = entries[k] /\ e.unit = viewer[r].unit
    BY DEF Got
  <2>3. viewer[r] \in Viewing /\ ~Doing(r, "idle") /\ e.list \in AddressLists
    BY <1>3, <2>2, ViewerTypes, EntriesAreEntries DEF Found, Doing, LiveIndInv, LiveTypeOK
  <2>4. CASE viewer[r].image
    <3> DEFINE new == [viewer[r] EXCEPT !.at = "fetch", !.list = e.list]
    <3>1. viewer' = [viewer EXCEPT ![r] = new]
      BY <2>1, <2>4
    <3>2. /\ new \in Viewing /\ new.unit = viewer[r].unit /\ new.retried = viewer[r].retried
          /\ new.since = viewer[r].since /\ new.crossed = viewer[r].crossed
          /\ new.at = "fetch" /\ new.list = e.list
      BY <2>3 DEF Viewing
    <3>3. Onward(r, new)
      BY <3>1, <3>2 DEF Onward
    <3> HIDE DEF new
    <3>4. UNCHANGED <<held, address, entries, toDrop, rowMoves>>
      BY <1>3 DEF Found
    <3>5. QED
      BY <2>2, <2>3, <3>2, <3>3, <3>4, OnwardKeepsFresh
  <2>5. CASE ~viewer[r].image
    BY <2>1, <2>5, <1>2, <1>3 DEF Found
  <2>6. QED
    BY <2>4, <2>5
<1>4. CASE NotFound(r)
  <2> DEFINE new == [viewer[r] EXCEPT !.at = "resolve"]
  <2>1. /\ viewer' = [viewer EXCEPT ![r] = new] /\ ~Doing(r, "idle") /\ viewer[r] \in Viewing
        /\ UNCHANGED <<held, address, entries, toDrop, rowMoves>>
    BY <1>4, ViewerTypes DEF NotFound, Doing, LiveIndInv
  <2>2. Onward(r, new) /\ new.at = "resolve"
    BY <2>1 DEF Onward, Viewing
  <2> HIDE DEF new
  <2>3. QED
    BY <2>1, <2>2, OnwardKeepsFresh
<1>5. CASE Resolve(r)
  <2> DEFINE new == [viewer[r] EXCEPT !.at = "put", !.list = address[viewer[r].unit]]
  <2>1. /\ viewer' = [viewer EXCEPT ![r] = new] /\ ~Doing(r, "idle") /\ viewer[r] \in Viewing
        /\ viewer[r].unit \in LiveUnits
        /\ UNCHANGED <<held, address, entries, toDrop, rowMoves>>
    BY <1>5, ViewerTypes DEF Resolve, Doing, LiveIndInv
  <2>2. address[viewer[r].unit] \in AddressLists
    BY <2>1 DEF LiveIndInv, LiveTypeOK
  <2>3. Onward(r, new) /\ new.at = "put" /\ new.list = address[new.unit]
    BY <2>1, <2>2 DEF Onward, Viewing
  <2> HIDE DEF new
  <2>4. QED
    BY <2>1, <2>3, OnwardKeepsFresh
<1>6. CASE Leave(r)
  BY <1>2, <1>6 DEF Leave
<1>7. QED
  BY <1>1, <1>3, <1>4, <1>5, <1>6, PutListKeeps, RetryKeeps

LEMMA LiveNextIndInv == LiveIndInv /\ [LiveNext]_liveVars => LiveIndInv'
<1> SUFFICES ASSUME LiveIndInv, [LiveNext]_liveVars PROVE LiveIndInv'
  OBVIOUS
<1>1. CASE LiveNext
  BY <1>1, RequestStepsKeep, CacheStepsKeep DEF LiveNext
<1>2. CASE UNCHANGED liveVars
  BY <1>2 DEF LiveIndInv, LiveTypeOK, OneEach, RetriesMeetFresh, FreshFor, Doing, liveVars
<1>3. QED
  BY <1>1, <1>2

LEMMA LiveInvariant == LiveSpec => []LiveIndInv
BY LiveInitIndInv, LiveNextIndInv, PTL DEF LiveSpec

(* The cache holds entries of chapters, no more than it may.                *)
THEOREM LiveTypes == LiveSpec => []LiveTypeOK
<1>1. LiveIndInv => LiveTypeOK
  BY DEF LiveIndInv
<1>2. QED
  BY <1>1, LiveInvariant, PTL

(* A page asked for a second time is asked for under addresses at least as  *)
(* recent as those valid when the first attempt failed.                     *)
THEOREM RetriedFresh == LiveSpec => []RetriedIsFresh
<1>1. LiveIndInv => RetriedIsFresh
  <2> SUFFICES ASSUME LiveIndInv, NEW r \in Viewers, Doing(r, "fetch"), viewer[r].retried,
                      ~viewer[r].crossed
               PROVE  viewer[r].list >= viewer[r].since
    BY DEF RetriedIsFresh
  <2>1. FreshFor(r) /\ ~Doing(r, "idle")
    BY DEF LiveIndInv, RetriesMeetFresh, Doing
  <2>2. viewer[r].list \in AddressLists /\ viewer[r].since \in AddressLists
    BY <2>1, ViewerTypes DEF LiveIndInv
  <2>3. QED
    BY <2>1, <2>2, LiveAssumption DEF FreshFor, AddressLists
<1>2. QED
  BY <1>1, LiveInvariant, PTL
=============================================================================
