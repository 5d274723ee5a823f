------------------------------ MODULE PartsMC ------------------------------
(***************************************************************************)
(* The parts that share nothing with one another, on one instance each: a  *)
(* behaviour is a behaviour of one of them, the others stay as they began. *)
(***************************************************************************)
EXTENDS ReadMarks, DeviceChapters, SavedPages, Accounts, LibraryScan, ComicReader,
        LibraryBackup, LivePages

CONSTANTS ch1, ch2, alice, bob, alice2

OneOrBoth == {{ch1}, {ch1, ch2}}
InOrder == [c \in {ch1, ch2} |-> IF c = ch1 THEN 1 ELSE 2]
PersonOf == [s \in {alice, alice2, bob} |-> IF s = alice2 THEN alice ELSE s]

(* The second chapter has a second page to turn to. *)
TwoInSecond == [c \in 1 .. LastChapter |-> IF c = 2 THEN 2 ELSE 1]

VARIABLE part

vars == <<markVars, deviceVars, pageVars, accountVars, scanVars, readerVars, backupVars, liveVars,
          part>>

Init == /\ MarksInit /\ DeviceInit /\ SavedInit /\ AccountsInit /\ ScanInit /\ ReaderInit
        /\ BackupInit /\ LiveInit
        /\ part \in {"marks", "device", "worker", "accounts", "scan", "reader", "backup", "live"}
        /\ part # "accounts" => users = {}
        /\ part # "backup" => export.reader = alice
        /\ part # "reader" => mode = "paged" /\ page = 0 /\ reader.chapter = 1

In(p, action) == part = p /\ action /\ UNCHANGED part

MarksPart(action) ==
    /\ In("marks", action)
    /\ UNCHANGED <<deviceVars, pageVars, accountVars, scanVars, readerVars, backupVars,
                   liveVars>>
DevicePart(action) ==
    /\ In("device", action)
    /\ UNCHANGED <<markVars, pageVars, accountVars, scanVars, readerVars, backupVars,
                   liveVars>>
WorkerPart(action) ==
    /\ In("worker", action)
    /\ UNCHANGED <<markVars, deviceVars, accountVars, scanVars, readerVars, backupVars,
                   liveVars>>
AccountsPart(action) ==
    /\ In("accounts", action)
    /\ UNCHANGED <<markVars, deviceVars, pageVars, scanVars, readerVars, backupVars,
                   liveVars>>
ScanPart(action) ==
    /\ In("scan", action)
    /\ UNCHANGED <<markVars, deviceVars, pageVars, accountVars, readerVars, backupVars,
                   liveVars>>
ReaderPart(action) ==
    /\ In("reader", action)
    /\ UNCHANGED <<markVars, deviceVars, pageVars, accountVars, scanVars, backupVars,
                   liveVars>>
BackupPart(action) ==
    /\ In("backup", action)
    /\ UNCHANGED <<markVars, deviceVars, pageVars, accountVars, scanVars, readerVars,
                   liveVars>>
LivePart(action) ==
    /\ In("live", action)
    /\ UNCHANGED <<markVars, deviceVars, pageVars, accountVars, scanVars, readerVars,
                   backupVars>>

Next == \/ MarksPart(MarksNext) \/ DevicePart(DeviceNext) \/ WorkerPart(SavedNext)
        \/ AccountsPart(AccountsNext) \/ ScanPart(ScanNext) \/ ReaderPart(ReaderNext)
        \/ BackupPart(BackupNext) \/ LivePart(LiveNext)

(* The pages' background drain runs for ever; requests are answered.        *)
MarksFairness ==
    /\ \A w \in Windows : WF_vars(MarksPart(FlushStep(w)))
    /\ WF_vars(MarksPart(\E r \in wire : Serve(r)))
    /\ WF_vars(MarksPart(\E k \in 1 .. Len(mark) : MarkFailed(k)))

(* A save proceeds or stops, the driver is woken by its timer, and the      *)
(* server's worker gets to every chapter.                                   *)
DeviceFairness ==
    /\ \A s \in Savers : WF_vars(DevicePart(SaveStep(s)))
    /\ WF_vars(DevicePart(LoopStep)) /\ WF_vars(DevicePart(WalkStep))
    /\ WF_vars(DevicePart(FadeStep))
    /\ \A u \in Saved : WF_vars(DevicePart(ServerMoves(u)))

(* The periodic scan comes round, and a scan that began goes on.            *)
ScanFairness ==
    /\ WF_vars(ScanPart(Discover("periodic")))
    /\ \A s \in Scans : /\ WF_vars(ScanPart(ListLocal(s)))
                        /\ WF_vars(ScanPart(MatchFound(s)))
                        /\ WF_vars(ScanPart(FlagVanished(s)))

(* A timeout that was set elapses. *)
ReaderFairness == WF_vars(ReaderPart(TimerFires))

Spec == /\ Init /\ [][Next]_vars
        /\ MarksFairness /\ DeviceFairness /\ ScanFairness /\ ReaderFairness

(* Every part's variables keep their types. *)
PartsTypeOK ==
    /\ MarksTypeOK /\ DeviceTypeOK /\ SavedTypeOK /\ AccountsTypeOK
    /\ ScanTypeOK /\ ReaderTypeOK /\ BackupTypeOK /\ LiveTypeOK
=============================================================================
