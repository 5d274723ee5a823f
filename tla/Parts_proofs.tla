---------------------------- MODULE Parts_proofs ----------------------------
(***************************************************************************)
(* Theorems about PartsMC, for any values of all constants: a behaviour of *)
(* the parts put side by side is, of each part, a behaviour of that part    *)
(* alone, so what is proved of the parts holds of the whole.               *)
(***************************************************************************)
EXTENDS PartsMC, Accounts_proofs, Library_proofs, Reading_proofs, SavedChapters_proofs, TLAPS

(* The parts take turns: a step is one part's own and leaves the others.    *)
LEMMA PartsTakeTurns ==
    ASSUME [Next]_vars
    PROVE  /\ [MarksNext]_markVars
           /\ [DeviceNext]_deviceVars
           /\ [SavedNext]_pageVars
           /\ [AccountsNext]_accountVars
           /\ [ScanNext]_scanVars
           /\ [ReaderNext]_readerVars
           /\ [BackupNext]_backupVars
           /\ [LiveNext]_liveVars
<1>1. CASE UNCHANGED vars
  BY <1>1 DEF vars
<1>2. CASE MarksPart(MarksNext)
  BY <1>2 DEF MarksPart, In
<1>3. CASE DevicePart(DeviceNext)
  BY <1>3 DEF DevicePart, In
<1>4. CASE WorkerPart(SavedNext)
  BY <1>4 DEF WorkerPart, In
<1>5. CASE AccountsPart(AccountsNext)
  BY <1>5 DEF AccountsPart, In
<1>6. CASE ScanPart(ScanNext)
  BY <1>6 DEF ScanPart, In
<1>7. CASE ReaderPart(ReaderNext)
  BY <1>7 DEF ReaderPart, In
<1>8. CASE BackupPart(BackupNext)
  BY <1>8 DEF BackupPart, In
<1>9. CASE LivePart(LiveNext)
  BY <1>9 DEF LivePart, In
<1>10. QED
  BY <1>1, <1>2, <1>3, <1>4, <1>5, <1>6, <1>7, <1>8, <1>9 DEF Next

LEMMA PartsBegin ==
    ASSUME Init
    PROVE  /\ MarksInit /\ DeviceInit /\ SavedInit /\ AccountsInit /\ ScanInit
           /\ ReaderInit /\ BackupInit /\ LiveInit
BY DEF Init

(* The parts share nothing (PartsMC): each behaves in the company of the    *)
(* others as it does alone.                                                 *)
THEOREM PartsAreThemselves ==
    Spec => /\ MarksSpec /\ DeviceSpec /\ SavedSpec /\ AccountsSpec
            /\ ScanSpec /\ ReaderSpec /\ BackupSpec /\ LiveSpec
<1>1. Init => /\ MarksInit /\ DeviceInit /\ SavedInit /\ AccountsInit
              /\ ScanInit /\ ReaderInit /\ BackupInit /\ LiveInit
  BY PartsBegin
<1>2. [Next]_vars => /\ [MarksNext]_markVars
                     /\ [DeviceNext]_deviceVars
                     /\ [SavedNext]_pageVars
                     /\ [AccountsNext]_accountVars
                     /\ [ScanNext]_scanVars
                     /\ [ReaderNext]_readerVars
                     /\ [BackupNext]_backupVars
                     /\ [LiveNext]_liveVars
  BY PartsTakeTurns
<1>3. QED
  BY <1>1, <1>2, PTL
     DEF Spec, MarksSpec, DeviceSpec, SavedSpec, AccountsSpec, ScanSpec, ReaderSpec, BackupSpec,
         LiveSpec

(* Every variable of every part keeps its type, in every behaviour of the   *)
(* whole.                                                                   *)
THEOREM PartsTyped == Spec => []PartsTypeOK
<1>1. /\ MarksTypeOK /\ DeviceTypeOK /\ SavedTypeOK /\ AccountsTypeOK
      /\ ScanTypeOK /\ ReaderTypeOK /\ BackupTypeOK /\ LiveTypeOK
      => PartsTypeOK
  BY DEF PartsTypeOK
<1>2. QED
  BY <1>1, PartsAreThemselves, MarksTyped, DeviceTypeCorrect, SavedTypeCorrect, AccountsTypes,
     ScansTyped, ReaderTypes, BackupTypeCorrect, LiveTypes, PTL

(* What the run parts checks of the whole, safety first to last: marks show *)
(* as made, chapters and manifests are whole, one account per person, one   *)
(* row per book, the screen is what was reported, a restore brings back.    *)
THEOREM PartsAreSafe ==
    Spec => /\ [](ShownAsMarked /\ MarkedIsStored /\ ManifestIsWhole /\ OthersPurged)
            /\ [](OneAccountEach /\ HistoryWhole /\ OneRowPerBook)
            /\ [](ShownIsReported /\ StripInOrder /\ RetriedIsFresh)
            /\ ClaimedAlone /\ RestoreBringsBack
BY PartsAreThemselves, MarksShown, StoredAsMarked, ManifestsAreWhole, OthersArePurged,
   OnePersonOneAccount, HistoryStaysWhole, BooksKeepTheirRow, ScreenIsReported,
   StripStaysInOrder, RetriedFresh, GivenToTheOnlyOne, RestoresBringBack, PTL
=============================================================================
