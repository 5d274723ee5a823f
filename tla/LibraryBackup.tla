--------------------------- MODULE LibraryBackup ---------------------------
(***************************************************************************)
(* Export of the library and one account's reading state, table after      *)
(* table while the library changes, and its restore in one transaction: on *)
(* the same instance later, on one that has lost everything, or under      *)
(* another account. Left out: categories, genres and the details of rows,  *)
(* and the refresh that gives a row another address or merges it into one  *)
(* that is already there (UnitSync).                                       *)
(***************************************************************************)
EXTENDS Naturals

CONSTANTS
    Readers,        \* accounts
    Origins,        \* what identifies a publication: a source's key, a path
    Addresses,      \* what identifies a chapter within its publication
    MaxRows,        \* bound: rows made in each table
    MaxExports,     \* bound
    MaxRestores     \* bound

ASSUME BackupAssumption == MaxRows \in Nat /\ MaxExports \in Nat /\ MaxRestores \in Nat

VARIABLES
    publications, readingUnits, readRows, progressEvents, \* the tables
    export,     \* the export under way: by whom, what is read next, its file
    backup,     \* the file made last
    restores,   \* how many there were, and whose the last was
    made        \* rows made in each table, and exports begun

tables == <<publications, readingUnits, readRows, progressEvents>>
backupVars == <<tables, export, backup, restores, made>>

RowId == 1 .. MaxRows
PublicationRow == [id : RowId, origin : Origins]
UnitEntry == [id : RowId, publication : RowId, address : Addresses]
EventEntry == [id : RowId, reader : Readers, publication : RowId, unit : RowId]

(* History: late, rows were added when the export had passed their table.   *)
File == [publications : SUBSET PublicationRow, units : SUBSET UnitEntry,
         marks : SUBSET RowId, events : SUBSET EventEntry, late : BOOLEAN]

EmptyFile == [publications |-> {}, units |-> {}, marks |-> {}, events |-> {}, late |-> FALSE]

BackupTypeOK ==
    /\ publications \subseteq PublicationRow /\ readingUnits \subseteq UnitEntry
    /\ readRows \subseteq [reader : Readers, unit : RowId]
    /\ progressEvents \subseteq EventEntry
    /\ export \in [next : {"none", "publications", "units", "marks", "events"},
                   reader : Readers, file : File]
    /\ backup \in File
    /\ restores \in [times : 0 .. MaxRestores, reader : Readers]
    /\ made \in [publications : 0 .. MaxRows, units : 0 .. MaxRows,
                 events : 0 .. MaxRows, exports : 0 .. MaxExports]

BackupInit ==
    /\ publications = {} /\ readingUnits = {} /\ readRows = {} /\ progressEvents = {}
    /\ export \in [next : {"none"}, reader : Readers, file : {EmptyFile}]
    /\ backup = EmptyFile
    /\ restores \in [times : {0}, reader : {export.reader}]
    /\ made = [publications |-> 0, units |-> 0, events |-> 0, exports |-> 0]
-----------------------------------------------------------------------------
(* The library changes, at any point of an export.                          *)
AddedWhen(parts) == export' = [export EXCEPT !.file.late = @ \/ export.next \in parts]

NewUnit(p, a) == [id |-> made.units + 1, publication |-> p, address |-> a]

(* insert_publication, with a chapter. *)
AddPublication(o, a) ==
    LET id == made.publications + 1
    IN  /\ id <= MaxRows /\ made.units < MaxRows
        /\ \A p \in publications : p.origin # o
        /\ publications' = publications \cup {[id |-> id, origin |-> o]}
        /\ readingUnits' = readingUnits \cup {NewUnit(id, a)}
        /\ made' = [made EXCEPT !.publications = @ + 1, !.units = @ + 1]
        /\ AddedWhen({"units", "marks", "events"})
        /\ UNCHANGED <<readRows, progressEvents, backup, restores>>

(* sync_units finds a chapter, or drops one with its marks; the journal     *)
(* still names it.                                                          *)
AddUnit(p, a) ==
    /\ p \in publications /\ made.units < MaxRows
    /\ \A u \in readingUnits : u.publication # p.id \/ u.address # a
    /\ readingUnits' = readingUnits \cup {NewUnit(p.id, a)}
    /\ made' = [made EXCEPT !.units = @ + 1]
    /\ AddedWhen({"marks", "events"})
    /\ UNCHANGED <<publications, readRows, progressEvents, backup, restores>>

DropUnit(u) ==
    /\ u \in readingUnits
    /\ readingUnits' = readingUnits \ {u}
    /\ readRows' = {m \in readRows : m.unit # u.id}
    /\ UNCHANGED <<publications, progressEvents, export, backup, restores, made>>

(* delete_publication, and everything that refers to it. *)
UnitsOf(p) == {u.id : u \in {v \in readingUnits : v.publication = p.id}}

RemovePublication(p) ==
    /\ p \in publications
    /\ publications' = publications \ {p}
    /\ readingUnits' = {u \in readingUnits : u.publication # p.id}
    /\ readRows' = {m \in readRows : m.unit \notin UnitsOf(p)}
    /\ progressEvents' = {e \in progressEvents : e.publication # p.id}
    /\ UNCHANGED <<export, backup, restores, made>>

(* The instance is lost and another takes its place. *)
Lose ==
    /\ publications' = {} /\ readingUnits' = {} /\ readRows' = {} /\ progressEvents' = {}
    /\ export' = [export EXCEPT !.next = "none", !.file = EmptyFile]
    /\ UNCHANGED <<backup, restores, made>>

ReadUnit(r, u) ==
    /\ u \in readingUnits /\ made.events < MaxRows
    /\ readRows' = readRows \cup {[reader |-> r, unit |-> u.id]}
    /\ progressEvents' = progressEvents \cup
          {[id |-> made.events + 1, reader |-> r, publication |-> u.publication, unit |-> u.id]}
    /\ made' = [made EXCEPT !.events = @ + 1]
    /\ UNCHANGED <<publications, readingUnits, export, backup, restores>>
-----------------------------------------------------------------------------
BeginExport(r) ==
    /\ export.next = "none" /\ made.exports < MaxExports
    /\ export' = [next |-> "publications", reader |-> r, file |-> EmptyFile]
    /\ made' = [made EXCEPT !.exports = @ + 1]
    /\ UNCHANGED <<tables, backup, restores>>

(* Mutant of Following: the chapters before the publications. *)
FollowingUnitsFirst(part) ==
    CASE part = "units" -> "publications" [] part = "publications" -> "marks"
      [] part = "marks" -> "events"

Following(part) ==
    CASE part = "publications" -> "units" [] part = "units" -> "marks"
      [] part = "marks" -> "events"

(* What the next query returns. *)
ReadTable(part, file) ==
    CASE part = "publications" -> [file EXCEPT !.publications = publications]
      [] part = "units" -> [file EXCEPT !.units = readingUnits]
      [] part = "marks" ->
           [file EXCEPT !.marks = {m.unit : m \in {n \in readRows : n.reader = export.reader}}]
      [] part = "events" ->
           [file EXCEPT !.events = {e \in progressEvents : e.reader = export.reader}]

ExportStep ==
    LET file == ReadTable(export.next, export.file)
    IN  /\ export.next # "none"
        /\ IF export.next = "events"
           THEN /\ backup' = file
                /\ export' = [export EXCEPT !.next = "none", !.file = EmptyFile]
           ELSE /\ export' = [export EXCEPT !.next = Following(export.next), !.file = file]
                /\ UNCHANGED backup
        /\ UNCHANGED <<tables, restores, made>>
-----------------------------------------------------------------------------
(* import_backup: a row whose identifier is there is left as it is. Any     *)
(* other conflict, or a chapter of no publication, undoes everything.       *)
NewIn(rows, kept) == {r \in rows : \A k \in kept : k.id # r.id}

Clashes(file) ==
    \/ \E p \in NewIn(file.publications, publications), q \in publications : p.origin = q.origin
    \/ \E u \in NewIn(file.units, readingUnits), v \in readingUnits :
          u.publication = v.publication /\ u.address = v.address

Orphaned(file) ==
    \E u \in NewIn(file.units, readingUnits) :
        \A p \in publications \cup file.publications : p.id # u.publication

(* Marks and events of the chapters that are there by then. *)
Imported(file, r) ==
    LET known == {u.id : u \in readingUnits \cup file.units}
        shelved == {p.id : p \in publications \cup file.publications}
    IN  /\ readRows' = readRows \cup {[reader |-> r, unit |-> u] : u \in file.marks \cap known}
        /\ progressEvents' = progressEvents \cup
              {[e EXCEPT !.reader = r] :
                  e \in {f \in NewIn(file.events, progressEvents) :
                          f.unit \in known /\ f.publication \in shelved}}

Restore(r) ==
    /\ restores.times < MaxRestores
    /\ restores' = [times |-> restores.times + 1, reader |-> r]
    /\ IF Clashes(backup) \/ Orphaned(backup) THEN UNCHANGED <<tables, export>>
       ELSE /\ publications' = publications \cup NewIn(backup.publications, publications)
            /\ readingUnits' = readingUnits \cup NewIn(backup.units, readingUnits)
            /\ Imported(backup, r)
            /\ AddedWhen({"units", "marks", "events"})
    /\ UNCHANGED <<backup, made>>

BackupNext ==
    \/ \E o \in Origins, a \in Addresses : AddPublication(o, a)
    \/ \E p \in publications : RemovePublication(p) \/ (\E a \in Addresses : AddUnit(p, a))
    \/ \E u \in readingUnits : DropUnit(u) \/ (\E r \in Readers : ReadUnit(r, u))
    \/ Lose \/ ExportStep
    \/ \E r \in Readers : BeginExport(r) \/ Restore(r)

BackupSpec == BackupInit /\ [][BackupNext]_backupVars
-----------------------------------------------------------------------------
(* "Merge a backup into this instance": a restore brings back the library   *)
(* and the reading of the file, all but events of chapters that were gone   *)
(* by then, whatever was removed during the export or since. Left out are   *)
(* files that rows were added behind during the export, and instances that  *)
(* hold the same publication or chapter under another identifier: these     *)
(* refuse the file whole.                                                   *)
RestoreBringsBack ==
    [][restores' # restores /\ ~backup.late /\ ~Clashes(backup) =>
          /\ \A u \in backup.units : \E v \in readingUnits' : u.id = v.id
          /\ \A m \in backup.marks : [reader |-> restores'.reader, unit |-> m] \in readRows'
          /\ \A e \in backup.events :
                (\E u \in backup.units : u.id = e.unit) => \E f \in progressEvents' : f.id = e.id
          /\ \A u \in readingUnits' : \E p \in publications' : p.id = u.publication
      ]_backupVars
=============================================================================
