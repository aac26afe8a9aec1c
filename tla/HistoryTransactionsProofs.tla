--------------------- MODULE HistoryTransactionsProofs ---------------------
(***************************************************************************)
(* HistoryTransactions for every number of items, files, threads,          *)
(* transactions, faults and crashes: types and ownership, the budget of    *)
(* the trash and one receipt per item; and when no other program changes   *)
(* the files, that an interrupted deletion can always be put back and that *)
(* the protocol implements HistoryVault.                                   *)
(***************************************************************************)
EXTENDS HistoryTransactions, FiniteSetTheorems, TLAPS

Owned == TypeOK /\ OwnsCurrent

LEMMA NoFilesType == NoFiles \in [Files -> Nat]
  BY DEF NoFiles

\* Replacing one version in one folder.
LEMMA StagedUpdate ==
  ASSUME staged \in [TxIds -> [Files -> Nat]], NEW t \in TxIds, NEW f \in Files, NEW v \in Nat
  PROVE  [staged EXCEPT ![t][f] = v] \in [TxIds -> [Files -> Nat]]
<1>1. [staged[t] EXCEPT ![f] = v] \in [Files -> Nat]
  OBVIOUS
<1>2. QED
  BY <1>1

LEMMA OwnedInit == Init => Owned
<1> SUFFICES ASSUME Init PROVE Owned
  OBVIOUS
<1>1. TypeOK
  BY HistoryAssumption DEF Init, TypeOK, NoFiles, NoReply, Replies, Codes, Calls, Marks, Steps, Targets
<1>2. OwnsCurrent
  BY DEF Init, OwnsCurrent, StageSteps, RollbackSteps
<1>3. QED
  BY <1>1, <1>2 DEF Owned

LEMMA RecoverCommittedOwned ==
  ASSUME Owned, NEW t \in TxIds, RecoverCommitted(t) PROVE Owned'
<1>1. TypeOK'
  BY DEF Owned, RecoverCommitted, TypeOK, world, Marks
<1>2. OwnsCurrent'
  BY DEF Owned, RecoverCommitted, TypeOK, world, OwnsCurrent, StageSteps, RollbackSteps, Committed
<1>3. QED
  BY <1>1, <1>2 DEF Owned

LEMMA RecoverJournaledOwned ==
  ASSUME Owned, NEW t \in TxIds, RecoverJournaled(t) PROVE Owned'
<1>1. TypeOK'
  BY DEF Owned, RecoverJournaled, TypeOK, world, store, Steps
<1>2. OwnsCurrent'
  BY DEF Owned, RecoverJournaled, TypeOK, store, OwnsCurrent, StageSteps, RollbackSteps, Committed
<1>3. QED
  BY <1>1, <1>2 DEF Owned

LEMMA RecoverUnpublishedOwned ==
  ASSUME Owned, NEW t \in TxIds, RecoverUnpublished(t) PROVE Owned'
<1>1. TypeOK'
  <2>1. CASE journal[t] = "tmp"
    BY <2>1 DEF Owned, RecoverUnpublished, TypeOK, world, Marks
  <2>2. CASE journal[t] # "tmp"
    <3>1. target' \in [TxIds -> Targets \cup {None}] /\ folders' \in SUBSET TxIds /\ todo' \in SUBSET TxIds
      BY <2>2 DEF Owned, RecoverUnpublished, TypeOK
    <3>2. entry' \in [TxIds -> [Files -> Nat]]
      BY <2>2, NoFilesType DEF Owned, RecoverUnpublished, TypeOK
    <3>3. QED
      BY <2>2, <3>1, <3>2 DEF Owned, RecoverUnpublished, TypeOK, world
  <2>3. QED
    BY <2>1, <2>2
<1>2. OwnsCurrent'
  <2>1. CASE journal[t] = "tmp"
    BY <2>1 DEF Owned, RecoverUnpublished, TypeOK, OwnsCurrent, StageSteps, RollbackSteps, Committed
  <2>2. CASE journal[t] # "tmp"
    <3>1. staged[t] = NoFiles
      BY DEF Owned, TypeOK, RecoverUnpublished, StagedIn, NoFiles
    <3>2. journal[t] = "none" /\ receipt[t] = "none"
      BY <2>2 DEF Owned, TypeOK, RecoverUnpublished, Marks
    <3>3. QED
      BY <2>2, <3>1, <3>2 DEF Owned, RecoverUnpublished, TypeOK, OwnsCurrent, StageSteps, RollbackSteps, Committed
  <2>3. QED
    BY <2>1, <2>2
<1>3. QED
  BY <1>1, <1>2 DEF Owned

LEMMA ReleaseOwned ==
  ASSUME Owned, Release, UNCHANGED store, src' \in [Files -> Nat], reply' \in Replies,
         nextv' \in Nat, torn' \in SUBSET Nat, faults' \in Nat, crashes' \in Nat, edits' \in Nat
  PROVE  Owned'
<1>1. TypeOK'
  BY DEF Owned, Release, TypeOK, store, Steps, Calls
<1>2. OwnsCurrent'
  BY DEF Owned, Release, OwnsCurrent, store, StageSteps, RollbackSteps
<1>3. QED
  BY <1>1, <1>2 DEF Owned

LEMMA AnswerOwned ==
  ASSUME Owned, NEW c \in Codes, Answer(c), UNCHANGED store, src' \in [Files -> Nat],
         nextv' \in Nat, torn' \in SUBSET Nat, faults' \in Nat, crashes' \in Nat, edits' \in Nat
  PROVE  Owned'
  BY ReleaseOwned DEF Answer, Owned, TypeOK, Replies

LEMMA GotoOwned ==
  ASSUME Owned, UNCHANGED <<src, folders, target, entry, staged, world>>,
         NEW step \in Steps, Goto(step),
         journal' \in [TxIds -> Marks], receipt' \in [TxIds -> Marks]
  PROVE  TypeOK'
  BY DEF Owned, TypeOK, Goto, world

LEMMA RecoverDoneOwned == Owned /\ RecoverDone => Owned'
<1> SUFFICES ASSUME Owned, RecoverDone PROVE Owned'
  OBVIOUS
<1>1. CASE call = "recover" /\ Answer("recovered")
  BY <1>1, AnswerOwned DEF Owned, TypeOK, RecoverDone, Codes, world
<1>2. CASE call = "delete" /\ Goto("lookup")
  <2>1. TypeOK'
    BY <1>2 DEF Owned, TypeOK, RecoverDone, Goto, store, world, Steps
  <2>2. OwnsCurrent'
    BY <1>2 DEF Owned, OwnsCurrent, RecoverDone, Goto, store, StageSteps, RollbackSteps
  <2>3. QED
    BY <2>1, <2>2 DEF Owned
<1>3. CASE call = "favorite" /\ Goto("favorite")
  <2>1. TypeOK'
    BY <1>3 DEF Owned, TypeOK, RecoverDone, Goto, store, world, Steps
  <2>2. OwnsCurrent'
    BY <1>3 DEF Owned, OwnsCurrent, RecoverDone, Goto, store, StageSteps, RollbackSteps
  <2>3. QED
    BY <2>1, <2>2 DEF Owned
<1>4. QED
  BY <1>1, <1>2, <1>3 DEF RecoverDone

LEMMA RecoveryOwned == Owned /\ Recovery => Owned'
<1> SUFFICES ASSUME Owned, Recovery PROVE Owned'
  OBVIOUS
<1>1. ASSUME NEW t \in TxIds, RecoverRefuses(t) PROVE Owned'
  BY <1>1, AnswerOwned DEF Owned, TypeOK, RecoverRefuses, Codes, world
<1>2. QED
  BY <1>1, RecoverCommittedOwned, RecoverJournaledOwned, RecoverUnpublishedOwned, RecoverDoneOwned DEF Recovery

LEMMA RollbackValidateOwned == Owned /\ RollbackValidate => Owned'
<1> SUFFICES ASSUME Owned, RollbackValidate PROVE Owned'
  OBVIOUS
<1>1. CASE Answer("conflict")
  BY <1>1, AnswerOwned DEF Owned, TypeOK, RollbackValidate, Codes, world
<1>2. CASE ~Answer("conflict")
  <2>1. TypeOK'
    BY <1>2 DEF Owned, TypeOK, RollbackValidate, store, world, Steps, Named
  <2>2. OwnsCurrent'
    BY <1>2 DEF Owned, TypeOK, OwnsCurrent, RollbackValidate, store, StageSteps, RollbackSteps
  <2>3. QED
    BY <2>1, <2>2 DEF Owned
<1>3. QED
  BY <1>1, <1>2

LEMMA RollbackMoveOwned ==
  ASSUME Owned, NEW f \in Files, RollbackMove(f) PROVE Owned'
<1>1. CASE Answer("conflict") /\ UNCHANGED <<src, staged>>
  BY <1>1, AnswerOwned DEF Owned, TypeOK, RollbackMove, Codes, world, store
<1>2. CASE ~(Answer("conflict") /\ UNCHANGED <<src, staged>>)
  <2>1. cur \in folders /\ cur \in TxIds
    BY DEF Owned, TypeOK, OwnsCurrent, RollbackMove, RollbackSteps
  <2>2. TypeOK'
    <3>1. /\ src' = [src EXCEPT ![f] = staged[cur][f]] /\ staged' = [staged EXCEPT ![cur][f] = 0]
          /\ pend' = pend \ {f}
      BY <1>2 DEF RollbackMove
    <3>2. staged' \in [TxIds -> [Files -> Nat]]
      BY <2>1, <3>1, StagedUpdate DEF Owned, TypeOK
    <3>3. src' \in [Files -> Nat] /\ pend' \in SUBSET Files
      BY <2>1, <3>1 DEF Owned, TypeOK
    <3>4. QED
      BY <1>2, <3>2, <3>3 DEF Owned, TypeOK, RollbackMove, world
  <2>3. OwnsCurrent'
    BY <1>2, <2>1 DEF Owned, TypeOK, OwnsCurrent, RollbackMove, StageSteps, RollbackSteps
  <2>4. QED
    BY <2>2, <2>3 DEF Owned
<1>3. QED
  BY <1>1, <1>2

LEMMA RollbackMovedOwned == Owned /\ RollbackMoved => Owned'
<1> SUFFICES ASSUME Owned, RollbackMoved PROVE Owned'
  OBVIOUS
<1>1. TypeOK'
  BY DEF Owned, TypeOK, RollbackMoved, Goto, Steps, store, world
<1>2. OwnsCurrent'
  BY DEF Owned, OwnsCurrent, RollbackMoved, Goto, store, StageSteps, RollbackSteps
<1>3. QED
  BY <1>1, <1>2 DEF Owned

LEMMA DropJournalTmpOwned == Owned /\ DropJournalTmp => Owned'
<1> SUFFICES ASSUME Owned, DropJournalTmp PROVE Owned'
  OBVIOUS
<1>1. TypeOK'
  BY DEF Owned, TypeOK, DropJournalTmp, Goto, Steps, Marks, world
<1>2. OwnsCurrent'
  BY DEF Owned, TypeOK, OwnsCurrent, DropJournalTmp, Goto, StageSteps, RollbackSteps
<1>3. QED
  BY <1>1, <1>2 DEF Owned

LEMMA DropReceiptTmpOwned == Owned /\ DropReceiptTmp => Owned'
<1> SUFFICES ASSUME Owned, DropReceiptTmp PROVE Owned'
  OBVIOUS
<1>1. TypeOK'
  BY DEF Owned, TypeOK, DropReceiptTmp, Goto, Steps, Marks, world
<1>2. OwnsCurrent'
  BY DEF Owned, TypeOK, OwnsCurrent, DropReceiptTmp, Goto, StageSteps, RollbackSteps
<1>3. QED
  BY <1>1, <1>2 DEF Owned

LEMMA DropJournalOwned == Owned /\ DropJournal => Owned'
<1> SUFFICES ASSUME Owned, DropJournal PROVE Owned'
  OBVIOUS
<1>1. TypeOK'
  BY DEF Owned, TypeOK, DropJournal, Goto, Steps, Marks, world
<1>2. OwnsCurrent'
  BY DEF Owned, TypeOK, OwnsCurrent, DropJournal, Goto, StageSteps, RollbackSteps
<1>3. QED
  BY <1>1, <1>2 DEF Owned

LEMMA DropFolderOwned == Owned /\ DropFolder => Owned'
<1> SUFFICES ASSUME Owned, DropFolder PROVE Owned'
  OBVIOUS
<1>1. cur \in folders /\ cur \in TxIds
  BY DEF Owned, TypeOK, OwnsCurrent, DropFolder, RollbackSteps
<1>2. staged[cur] = NoFiles
  BY <1>1 DEF Owned, TypeOK, DropFolder, StagedIn, NoFiles
<1>3. TypeOK'
  <2>1. src' \in [Files -> Nat] /\ folders' \in SUBSET TxIds /\ target' \in [TxIds -> Targets \cup {None}]
        /\ entry' \in [TxIds -> [Files -> Nat]]
    BY <1>1 DEF Owned, TypeOK, DropFolder, NoFiles
  <2>2. CASE undo = "failure" /\ Answer("restored")
    BY <2>1, <2>2 DEF Owned, TypeOK, DropFolder, Answer, Release, Replies, Codes, Steps, Calls, world
  <2>3. CASE ~(undo = "failure" /\ Answer("restored"))
    BY <2>1, <2>3 DEF Owned, TypeOK, DropFolder, Steps, world
  <2>4. QED
    BY <2>2, <2>3
<1>4. OwnsCurrent'
  <2>1. /\ \A t \in TxIds \ folders' : journal'[t] = "none" /\ receipt'[t] = "none" /\ staged'[t] = NoFiles
        /\ pc' \in {"recover", "idle"}
    BY <1>1, <1>2 DEF Owned, TypeOK, OwnsCurrent, DropFolder, Answer, Release
  <2>2. CASE undo = "failure" /\ Answer("restored")
    BY <2>1, <2>2 DEF Answer, Release, OwnsCurrent, StageSteps, RollbackSteps
  <2>3. CASE ~(undo = "failure" /\ Answer("restored"))
    BY <2>1, <2>3 DEF Owned, OwnsCurrent, DropFolder, StageSteps, RollbackSteps
  <2>4. QED
    BY <2>2, <2>3
<1>5. QED
  BY <1>3, <1>4 DEF Owned

LEMMA RollbackOwned == Owned /\ Rollback => Owned'
  BY RollbackValidateOwned, RollbackMoveOwned, RollbackMovedOwned, DropJournalTmpOwned,
     DropReceiptTmpOwned, DropJournalOwned, DropFolderOwned DEF Rollback

LEMMA DeleteLookupOwned == Owned /\ DeleteLookup => Owned'
<1> SUFFICES ASSUME Owned, DeleteLookup PROVE Owned'
  OBVIOUS
<1>1. CASE Answer("deleted") \/ Answer("not_found")
  BY <1>1, AnswerOwned DEF Owned, TypeOK, DeleteLookup, Codes, world
<1>2. CASE ~(Answer("deleted") \/ Answer("not_found"))
  <2>1. TypeOK'
    BY <1>2 DEF Owned, TypeOK, DeleteLookup, store, world, Steps, FilesOf
  <2>2. OwnsCurrent'
    BY <1>2 DEF Owned, TypeOK, OwnsCurrent, DeleteLookup, store, StageSteps, RollbackSteps
  <2>3. QED
    BY <2>1, <2>2 DEF Owned
<1>3. QED
  BY <1>1, <1>2

LEMMA DeleteMeasureOwned == Owned /\ DeleteMeasure => Owned'
  BY AnswerOwned DEF Owned, TypeOK, DeleteMeasure, Codes, world

LEMMA DeleteMkdirOwned ==
  ASSUME Owned, NEW t \in TxIds, DeleteMkdir(t) PROVE Owned'
<1>1. TypeOK'
  <2>1. target' \in [TxIds -> Targets \cup {None}] /\ entry' \in [TxIds -> [Files -> Nat]]
    BY DEF Owned, TypeOK, DeleteMkdir
  <2>2. pend' \in SUBSET Files
    BY DEF Owned, TypeOK, DeleteMkdir, Found
  <2>3. QED
    BY <2>1, <2>2 DEF Owned, TypeOK, DeleteMkdir, Steps, world
<1>2. OwnsCurrent'
  BY DEF Owned, TypeOK, OwnsCurrent, DeleteMkdir, StageSteps, RollbackSteps
<1>3. QED
  BY <1>1, <1>2 DEF Owned

LEMMA WriteJournalTmpOwned == Owned /\ WriteJournalTmp => Owned'
<1> SUFFICES ASSUME Owned, WriteJournalTmp PROVE Owned'
  OBVIOUS
<1>1. TypeOK'
  BY DEF Owned, TypeOK, WriteJournalTmp, Goto, Steps, Marks, world
<1>2. OwnsCurrent'
  BY DEF Owned, TypeOK, OwnsCurrent, WriteJournalTmp, Goto, StageSteps, RollbackSteps
<1>3. QED
  BY <1>1, <1>2 DEF Owned

LEMMA PublishJournalOwned == Owned /\ PublishJournal => Owned'
<1> SUFFICES ASSUME Owned, PublishJournal PROVE Owned'
  OBVIOUS
<1>1. TypeOK'
  BY DEF Owned, TypeOK, PublishJournal, Goto, Steps, Marks, world
<1>2. OwnsCurrent'
  BY DEF Owned, TypeOK, OwnsCurrent, PublishJournal, Goto, StageSteps, RollbackSteps
<1>3. QED
  BY <1>1, <1>2 DEF Owned

\* A deletion that gives up holds the same transaction.
LEMMA GiveUpOwned ==
  ASSUME Owned, GiveUp, pc \in StageSteps, UNCHANGED <<src, folders, target, entry, staged>>,
         UNCHANGED <<nextv, torn, crashes, edits>>, faults' \in Nat,
         journal' \in {journal, [journal EXCEPT ![cur] = "tmp"]},
         receipt' \in {receipt, [receipt EXCEPT ![cur] = "tmp"]}
  PROVE  Owned'
<1>1. TypeOK'
  BY DEF Owned, TypeOK, GiveUp, Steps, Marks
<1>2. OwnsCurrent'
  BY DEF Owned, TypeOK, OwnsCurrent, GiveUp, StageSteps, RollbackSteps
<1>3. QED
  BY <1>1, <1>2 DEF Owned

LEMMA StageCheckOwned ==
  ASSUME Owned, NEW f \in Files, StageCheck(f) PROVE Owned'
<1>1. CASE GiveUp
  BY <1>1, GiveUpOwned DEF Owned, TypeOK, StageCheck, StageSteps, store, world
<1>2. CASE ~GiveUp
  <2>1. TypeOK'
    BY <1>2 DEF Owned, TypeOK, StageCheck, store, world, Steps
  <2>2. OwnsCurrent'
    BY <1>2 DEF Owned, TypeOK, OwnsCurrent, StageCheck, store, StageSteps, RollbackSteps
  <2>3. QED
    BY <2>1, <2>2 DEF Owned
<1>3. QED
  BY <1>1, <1>2

LEMMA StageRenameOwned == Owned /\ StageRename => Owned'
<1> SUFFICES ASSUME Owned, StageRename PROVE Owned'
  OBVIOUS
<1>1. CASE GiveUp /\ UNCHANGED <<src, staged>>
  BY <1>1, GiveUpOwned DEF Owned, TypeOK, StageRename, StageSteps, world
<1>2. CASE ~(GiveUp /\ UNCHANGED <<src, staged>>)
  <2>1. cur \in folders /\ cur \in TxIds /\ moving \in Files
    BY DEF Owned, TypeOK, OwnsCurrent, StageRename, StageSteps
  <2>2. TypeOK'
    <3>1. src' = [src EXCEPT ![moving] = 0] /\ staged' = [staged EXCEPT ![cur][moving] = src[moving]]
      BY <1>2 DEF StageRename
    <3>2. staged' \in [TxIds -> [Files -> Nat]]
      BY <2>1, <3>1, StagedUpdate DEF Owned, TypeOK
    <3>3. src' \in [Files -> Nat]
      BY <2>1, <3>1 DEF Owned, TypeOK
    <3>4. QED
      BY <1>2, <3>2, <3>3 DEF Owned, TypeOK, StageRename, world, Steps
  <2>3. OwnsCurrent'
    BY <1>2, <2>1 DEF Owned, TypeOK, OwnsCurrent, StageRename, StageSteps, RollbackSteps
  <2>4. QED
    BY <2>2, <2>3 DEF Owned
<1>3. QED
  BY <1>1, <1>2

LEMMA StageDoneOwned == Owned /\ StageDone => Owned'
<1> SUFFICES ASSUME Owned, StageDone PROVE Owned'
  OBVIOUS
<1>1. TypeOK'
  BY DEF Owned, TypeOK, StageDone, Goto, Steps, store, world
<1>2. OwnsCurrent'
  BY DEF Owned, OwnsCurrent, StageDone, Goto, store, StageSteps, RollbackSteps
<1>3. QED
  BY <1>1, <1>2 DEF Owned

LEMMA WriteReceiptTmpOwned == Owned /\ WriteReceiptTmp => Owned'
<1> SUFFICES ASSUME Owned, WriteReceiptTmp PROVE Owned'
  OBVIOUS
<1>1. TypeOK'
  BY DEF Owned, TypeOK, WriteReceiptTmp, Goto, Steps, Marks, world
<1>2. OwnsCurrent'
  BY DEF Owned, TypeOK, OwnsCurrent, WriteReceiptTmp, Goto, StageSteps, RollbackSteps
<1>3. QED
  BY <1>1, <1>2 DEF Owned

LEMMA PublishReceiptOwned == Owned /\ PublishReceipt => Owned'
<1> SUFFICES ASSUME Owned, PublishReceipt PROVE Owned'
  OBVIOUS
<1>1. TypeOK'
  BY DEF Owned, TypeOK, PublishReceipt, Goto, Steps, Marks, world
<1>2. OwnsCurrent'
  BY DEF Owned, TypeOK, OwnsCurrent, PublishReceipt, Goto, StageSteps, RollbackSteps, Committed
<1>3. QED
  BY <1>1, <1>2 DEF Owned

LEMMA CleanUpOwned == Owned /\ CleanUp => Owned'
<1> SUFFICES ASSUME Owned, CleanUp PROVE Owned'
  OBVIOUS
<1>1. TypeOK'
  BY DEF Owned, TypeOK, CleanUp, Answer, Release, Replies, Codes, Steps, Calls, Marks, world
<1>2. OwnsCurrent'
  BY DEF Owned, TypeOK, OwnsCurrent, CleanUp, Answer, Release, StageSteps, RollbackSteps
<1>3. QED
  BY <1>1, <1>2 DEF Owned

LEMMA DeleteOwned == Owned /\ Delete => Owned'
  BY DeleteLookupOwned, DeleteMeasureOwned, DeleteMkdirOwned, WriteJournalTmpOwned, PublishJournalOwned,
     StageCheckOwned, StageRenameOwned, StageDoneOwned, WriteReceiptTmpOwned, PublishReceiptOwned,
     CleanUpOwned DEF Delete

LEMMA FavoriteOwned == Owned /\ (Favorite \/ FavoriteWritten) => Owned'
<1> SUFFICES ASSUME Owned, Favorite \/ FavoriteWritten PROVE Owned'
  OBVIOUS
<1>1. CASE FavoriteWritten
  BY <1>1, AnswerOwned DEF Owned, TypeOK, FavoriteWritten, Codes
<1>2. CASE Favorite /\ Answer("not_found")
  <2>1. src' \in [Files -> Nat] /\ nextv' \in Nat /\ torn' \in SUBSET Nat
    BY <1>2 DEF Owned, TypeOK, Favorite
  <2>2. QED
    BY <1>2, <2>1, AnswerOwned DEF Owned, TypeOK, Favorite, Codes
<1>3. CASE Favorite /\ ~Answer("not_found")
  <2>1. TypeOK'
    <3>1. src' = [src EXCEPT ![Sidecar[tgt]] = nextv] /\ torn' = torn \cup {nextv} /\ nextv' = nextv + 1
          /\ Goto("rewrite")
      BY <1>3 DEF Favorite
    <3>2. src' \in [Files -> Nat]
      BY <3>1 DEF Owned, TypeOK
    <3>3. nextv' \in Nat /\ torn' \in SUBSET Nat
      BY <3>1 DEF Owned, TypeOK
    <3>4. QED
      BY <1>3, <3>1, <3>2, <3>3 DEF Owned, TypeOK, Favorite, Goto, Steps, store
  <2>2. OwnsCurrent'
    BY <1>3 DEF Owned, OwnsCurrent, Favorite, Goto, StageSteps, RollbackSteps, store
  <2>3. QED
    BY <2>1, <2>2 DEF Owned
<1>4. QED
  BY <1>1, <1>2, <1>3

LEMMA WorldOwned == Owned /\ (FailEarly \/ FailDeletion \/ FailRecovery \/ Crash) => Owned'
<1> SUFFICES ASSUME Owned, FailEarly \/ FailDeletion \/ FailRecovery \/ Crash PROVE Owned'
  OBVIOUS
<1>1. CASE FailEarly
  <2>1. /\ Answer("failed") /\ "failed" \in Codes /\ UNCHANGED store
        /\ src' \in [Files -> Nat] /\ nextv' \in Nat /\ torn' \in SUBSET Nat
        /\ faults' \in Nat /\ crashes' \in Nat /\ edits' \in Nat
    BY <1>1 DEF Owned, TypeOK, FailEarly, Fault, Codes
  <2>2. QED
    BY <2>1, AnswerOwned
<1>2. CASE FailRecovery
  <2>1. /\ Answer("fault") /\ "fault" \in Codes /\ UNCHANGED store
        /\ src' \in [Files -> Nat] /\ nextv' \in Nat /\ torn' \in SUBSET Nat
        /\ faults' \in Nat /\ crashes' \in Nat /\ edits' \in Nat
    BY <1>2 DEF Owned, TypeOK, FailRecovery, Fault, Codes
  <2>2. QED
    BY <2>1, AnswerOwned
<1>3. CASE Crash
  BY <1>3, ReleaseOwned DEF Owned, TypeOK, Crash
<1>4. CASE FailDeletion
  BY <1>4, GiveUpOwned DEF Owned, TypeOK, FailDeletion, Fault, StageSteps
<1>5. QED
  BY <1>1, <1>2, <1>3, <1>4

LEMMA OutsideOwned ==
  ASSUME Owned, NEW f \in Files, Outside(f) PROVE Owned'
<1>1. TypeOK'
  BY DEF Owned, TypeOK, Outside, store, work
<1>2. OwnsCurrent'
  BY DEF Owned, OwnsCurrent, Outside, store, work, StageSteps, RollbackSteps, Committed
<1>3. QED
  BY <1>1, <1>2 DEF Owned

LEMMA RequestsOwned == Owned /\ Requests => Owned'
<1> SUFFICES ASSUME Owned, NEW th \in Threads, NEW d \in Targets \cup {None}, NEW c \in Calls \ {"none"},
                    Enter(th, c, d) \/ Busy(th)
             PROVE  Owned'
  BY DEF Requests
<1>1. CASE Enter(th, c, d)
  <2>1. TypeOK'
    BY <1>1 DEF Owned, TypeOK, Enter, store, world, Steps, Replies, Codes, NoReply
  <2>2. OwnsCurrent'
    BY <1>1 DEF Owned, OwnsCurrent, Enter, store, StageSteps, RollbackSteps
  <2>3. QED
    BY <2>1, <2>2 DEF Owned
<1>2. CASE Busy(th)
  <2>1. TypeOK'
    BY <1>2 DEF Owned, TypeOK, Busy, store, work, world, Replies, Codes
  <2>2. OwnsCurrent'
    BY <1>2 DEF Owned, OwnsCurrent, Busy, store, work, StageSteps, RollbackSteps, Committed
  <2>3. QED
    BY <2>1, <2>2 DEF Owned
<1>3. QED
  BY <1>1, <1>2

LEMMA OwnedStep == Owned /\ [Next]_vars => Owned'
<1> SUFFICES ASSUME Owned, [Next]_vars PROVE Owned'
  OBVIOUS
<1>1. CASE UNCHANGED vars
  BY <1>1 DEF vars, store, work, world, Owned, TypeOK, OwnsCurrent, StageSteps, RollbackSteps, Committed
<1>2. QED
  BY <1>1, RequestsOwned, RecoveryOwned, RollbackOwned, DeleteOwned, FavoriteOwned, WorldOwned,
     OutsideOwned DEF Next, Work

\* A folder that does not exist holds nothing, and a thread stages or rolls
\* back only a transaction that has no receipt.
THEOREM OwnedAlways == Spec => []Owned
  BY OwnedInit, OwnedStep, PTL DEF Spec

\* Every variable of the deletion protocol keeps its type.
THEOREM TypeCorrect == Spec => []TypeOK
  BY OwnedAlways, PTL DEF Owned
-----------------------------------------------------------------------------
(* Receipts are for ever: a step touches at most the folder of the thread    *)
(* that holds the lock, and that folder has no receipt.                      *)

\* Only the folder t changes, and it has no receipt.
OnlyTouches(t) ==
    /\ folders \ {t} \subseteq folders'
    /\ \A s \in TxIds \ {t} : /\ receipt'[s] = receipt[s] /\ target'[s] = target[s]
                              /\ entry'[s] = entry[s] /\ staged'[s] = staged[s]

LEMMA OnlyTouchesKeeps ==
  ASSUME TypeOK, NEW t, t \notin Committed, OnlyTouches(t) PROVE \A s \in Committed : Kept(s)
  BY DEF TypeOK, OnlyTouches, Kept, Committed

LEMMA StoreKeeps == ASSUME UNCHANGED store PROVE \A s \in Committed : Kept(s)
  BY DEF store, Kept, Committed

LEMMA KeptStep == Owned /\ [Next]_vars => \A s \in Committed : Kept(s)
<1> SUFFICES ASSUME Owned, [Next]_vars PROVE \A s \in Committed : Kept(s)
  OBVIOUS
<1> USE DEF Owned
<1>1. CASE UNCHANGED vars
  BY <1>1, StoreKeeps DEF vars
<1>2. CASE Requests
  BY <1>2, StoreKeeps DEF Requests, Enter, Busy
<1>3. CASE Recovery
  <2>1. ASSUME NEW t \in TxIds, RecoverCommitted(t) PROVE \A s \in Committed : Kept(s)
    BY <2>1 DEF RecoverCommitted, Kept, Committed
  <2>2. ASSUME NEW t \in TxIds, RecoverUnpublished(t) PROVE \A s \in Committed : Kept(s)
    <3>1. t \notin Committed
      BY <2>2 DEF RecoverUnpublished, Committed
    <3>2. OnlyTouches(t)
      BY <2>2 DEF RecoverUnpublished, OnlyTouches, TypeOK
    <3>3. QED
      BY <3>1, <3>2, OnlyTouchesKeeps
  <2>3. ASSUME NEW t \in TxIds, RecoverJournaled(t) \/ RecoverRefuses(t) PROVE \A s \in Committed : Kept(s)
    BY <2>3, StoreKeeps DEF RecoverJournaled, RecoverRefuses
  <2>4. CASE RecoverDone
    BY <2>4, StoreKeeps DEF RecoverDone
  <2>5. QED
    BY <1>3, <2>1, <2>2, <2>3, <2>4 DEF Recovery
<1>4. CASE Rollback
  <2>1. CASE RollbackValidate \/ RollbackMoved
    BY <2>1, StoreKeeps DEF RollbackValidate, RollbackMoved
  <2>2. CASE ~(RollbackValidate \/ RollbackMoved)
    <3>1. cur \notin Committed
      BY <1>4, <2>2 DEF Rollback, RollbackMove, DropJournalTmp, DropReceiptTmp, DropJournal, DropFolder,
                        OwnsCurrent, RollbackSteps, Committed
    <3>2. ASSUME NEW f \in Files, RollbackMove(f) PROVE OnlyTouches(cur)
      BY <3>2 DEF RollbackMove, OnlyTouches, TypeOK
    <3>3. ASSUME DropJournalTmp \/ DropReceiptTmp \/ DropJournal PROVE OnlyTouches(cur)
      BY <3>3 DEF DropJournalTmp, DropReceiptTmp, DropJournal, OnlyTouches, TypeOK
    <3>4. ASSUME DropFolder PROVE OnlyTouches(cur)
      BY <3>4 DEF DropFolder, OnlyTouches, TypeOK
    <3>5. QED
      BY <1>4, <2>2, <3>1, <3>2, <3>3, <3>4, OnlyTouchesKeeps DEF Rollback
  <2>3. QED
    BY <2>1, <2>2
<1>5. CASE Delete
  <2>1. CASE DeleteLookup \/ DeleteMeasure \/ StageDone \/ \E f \in Files : StageCheck(f)
    BY <2>1, StoreKeeps DEF DeleteLookup, DeleteMeasure, StageDone, StageCheck
  <2>2. ASSUME NEW t \in TxIds, DeleteMkdir(t) PROVE \A s \in Committed : Kept(s)
    <3>1. t \notin Committed
      BY <2>2 DEF DeleteMkdir, Committed
    <3>2. OnlyTouches(t)
      BY <2>2 DEF DeleteMkdir, OnlyTouches, TypeOK
    <3>3. QED
      BY <3>1, <3>2, OnlyTouchesKeeps
  <2>3. CASE CleanUp
    BY <2>3 DEF CleanUp, Kept, Committed
  <2>4. CASE WriteJournalTmp \/ PublishJournal \/ StageRename \/ WriteReceiptTmp \/ PublishReceipt
    <3>1. cur \notin Committed
      BY <2>4 DEF WriteJournalTmp, PublishJournal, StageRename, WriteReceiptTmp, PublishReceipt,
                  OwnsCurrent, StageSteps, Committed
    <3>2. ASSUME StageRename PROVE OnlyTouches(cur)
      BY <3>2 DEF StageRename, OnlyTouches, TypeOK
    <3>3. ASSUME WriteJournalTmp \/ PublishJournal \/ WriteReceiptTmp \/ PublishReceipt PROVE OnlyTouches(cur)
      BY <3>3 DEF WriteJournalTmp, PublishJournal, WriteReceiptTmp, PublishReceipt, OnlyTouches, TypeOK
    <3>4. QED
      BY <2>4, <3>1, <3>2, <3>3, OnlyTouchesKeeps
  <2>5. QED
    BY <1>5, <2>1, <2>2, <2>3, <2>4 DEF Delete
<1>6. CASE Favorite \/ FavoriteWritten
  BY <1>6, StoreKeeps DEF Favorite, FavoriteWritten
<1>7. CASE FailEarly \/ FailRecovery \/ Crash
  BY <1>7, StoreKeeps DEF FailEarly, FailRecovery, Crash
<1>8. CASE FailDeletion
  <2>1. cur \notin Committed
    BY <1>8 DEF FailDeletion, OwnsCurrent, StageSteps, Committed
  <2>2. OnlyTouches(cur)
    BY <1>8 DEF FailDeletion, OnlyTouches, TypeOK
  <2>3. QED
    BY <2>1, <2>2, OnlyTouchesKeeps
<1>9. ASSUME NEW f \in Files, Outside(f) PROVE \A s \in Committed : Kept(s)
  BY <1>9, StoreKeeps DEF Outside
<1>10. QED
  BY <1>1, <1>2, <1>3, <1>4, <1>5, <1>6, <1>7, <1>8, <1>9 DEF Next, Work

\* Committed trash is never evicted, rolled back or changed.
THEOREM ReceiptsKept == Spec => ReceiptsForever
<1>1. Owned /\ [Next]_vars => [\A t \in Committed : Kept(t)]_vars
  BY KeptStep
<1>2. QED
  BY <1>1, OwnedAlways, PTL DEF Spec, ReceiptsForever
-----------------------------------------------------------------------------
(* No step loses a content: a rename takes it from one place to another, and  *)
(* a folder that goes is empty.                                               *)

LEMMA SamePlaces ==
  ASSUME UNCHANGED <<src, folders, staged>> PROVE Contents' = Contents
  BY DEF Contents

\* A folder that appears or goes holds nothing.
LEMMA EmptyFolder ==
  ASSUME NEW t \in TxIds, staged[t] = NoFiles, UNCHANGED <<src, staged>>,
         folders' \in {folders \cup {t}, folders \ {t}}
  PROVE  Contents' = Contents
<1>1. ASSUME NEW f \in Files
      PROVE  ({src[f]} \cup {staged[s][f] : s \in folders'}) \ {0} = ({src[f]} \cup {staged[s][f] : s \in folders}) \ {0}
  <2>1. staged[t][f] = 0
    BY DEF NoFiles
  <2>2. QED
    BY <2>1
<1>2. QED
  BY <1>1 DEF Contents

\* A rename from the folder to the place of the file, or the other way.
LEMMA Renamed ==
  ASSUME TypeOK, NEW t \in folders, NEW g \in Files, UNCHANGED folders,
         src[g] = 0 \/ staged[t][g] = 0,
         src' = [src EXCEPT ![g] = staged[t][g]], staged' = [staged EXCEPT ![t][g] = src[g]]
  PROVE  Contents' = Contents
<1>1. t \in TxIds
  BY DEF TypeOK
<1>2. src'[g] = staged[t][g] /\ staged'[t][g] = src[g]
  BY <1>1 DEF TypeOK
<1>3. ASSUME NEW s \in folders, NEW f \in Files, s # t \/ f # g PROVE staged'[s][f] = staged[s][f]
  BY <1>1, <1>3 DEF TypeOK
<1>4. ASSUME NEW f \in Files
      PROVE  {src'[f]} \cup {staged'[s][f] : s \in folders} = {src[f]} \cup {staged[s][f] : s \in folders}
  <2>1. CASE f = g
    BY <1>2, <1>3, <2>1
  <2>2. CASE f # g
    <3>1. src'[f] = src[f]
      BY <2>2 DEF TypeOK
    <3>2. QED
      BY <1>3, <2>2, <3>1
  <2>3. QED
    BY <2>1, <2>2
<1>5. QED
  BY <1>4 DEF Contents

LEMMA ContentsStep == Owned /\ [Next]_vars => (pc # "favorite" /\ edits' = edits => Contents' = Contents)
<1> SUFFICES ASSUME Owned, [Next]_vars, pc # "favorite", edits' = edits PROVE Contents' = Contents
  OBVIOUS
<1> USE DEF Owned
<1>1. CASE UNCHANGED vars
  BY <1>1, SamePlaces DEF vars, store
<1>2. CASE Requests
  BY <1>2, SamePlaces DEF Requests, Enter, Busy, store
<1>3. CASE Recovery
  <2>1. ASSUME NEW t \in TxIds, RecoverUnpublished(t) PROVE Contents' = Contents
    <3>1. staged[t] = NoFiles
      BY <2>1 DEF TypeOK, RecoverUnpublished, StagedIn, NoFiles
    <3>2. CASE folders' = folders
      BY <2>1, <3>2, SamePlaces DEF RecoverUnpublished
    <3>3. CASE folders' = folders \ {t}
      BY <2>1, <3>1, <3>3, EmptyFolder DEF RecoverUnpublished
    <3>4. QED
      BY <2>1, <3>2, <3>3 DEF RecoverUnpublished
  <2>2. ASSUME NEW t \in TxIds, RecoverCommitted(t) \/ RecoverJournaled(t) \/ RecoverRefuses(t)
        PROVE  Contents' = Contents
    BY <2>2, SamePlaces DEF RecoverCommitted, RecoverJournaled, RecoverRefuses, store
  <2>3. CASE RecoverDone
    BY <2>3, SamePlaces DEF RecoverDone, store
  <2>4. QED
    BY <1>3, <2>1, <2>2, <2>3 DEF Recovery
<1>4. CASE Rollback
  <2>1. ASSUME NEW f \in Files, RollbackMove(f) PROVE Contents' = Contents
    <3>1. cur \in folders /\ cur \in TxIds
      BY <2>1 DEF RollbackMove, OwnsCurrent, RollbackSteps, TypeOK
    <3>2. CASE UNCHANGED <<src, staged>>
      BY <2>1, <3>2, SamePlaces DEF RollbackMove
    <3>3. CASE ~UNCHANGED <<src, staged>>
      <4>1. /\ src[f] = 0 /\ src' = [src EXCEPT ![f] = staged[cur][f]]
            /\ staged' = [staged EXCEPT ![cur][f] = 0] /\ UNCHANGED folders
        BY <2>1, <3>3 DEF RollbackMove
      <4>2. QED
        BY <3>1, <4>1, Renamed
    <3>4. QED
      BY <3>2, <3>3
  <2>2. ASSUME DropFolder PROVE Contents' = Contents
    <3>1. cur \in folders /\ cur \in TxIds
      BY <2>2 DEF DropFolder, OwnsCurrent, RollbackSteps, TypeOK
    <3>2. staged[cur] = NoFiles
      BY <2>2, <3>1 DEF TypeOK, DropFolder, StagedIn, NoFiles
    <3>3. QED
      BY <2>2, <3>1, <3>2, EmptyFolder DEF DropFolder
  <2>3. QED
    BY <1>4, <2>1, <2>2, SamePlaces
       DEF Rollback, RollbackValidate, RollbackMoved, DropJournalTmp, DropReceiptTmp, DropJournal, store
<1>5. CASE Delete
  <2>1. ASSUME NEW t \in TxIds, DeleteMkdir(t) PROVE Contents' = Contents
    <3>1. staged[t] = NoFiles
      BY <2>1 DEF DeleteMkdir, OwnsCurrent
    <3>2. QED
      BY <2>1, <3>1, EmptyFolder DEF DeleteMkdir
  <2>2. ASSUME StageRename PROVE Contents' = Contents
    <3>1. cur \in folders /\ cur \in TxIds /\ moving \in Files
      BY <2>2 DEF StageRename, OwnsCurrent, StageSteps, TypeOK
    <3>2. CASE UNCHANGED <<src, staged>>
      BY <2>2, <3>2, SamePlaces DEF StageRename
    <3>3. CASE ~UNCHANGED <<src, staged>>
      <4>1. /\ staged[cur][moving] = 0 /\ src' = [src EXCEPT ![moving] = 0]
            /\ staged' = [staged EXCEPT ![cur][moving] = src[moving]] /\ UNCHANGED folders
        BY <2>2, <3>3 DEF StageRename
      <4>2. QED
        BY <3>1, <4>1, Renamed
    <3>4. QED
      BY <3>2, <3>3
  <2>3. QED
    BY <1>5, <2>1, <2>2, SamePlaces
       DEF Delete, DeleteLookup, DeleteMeasure, WriteJournalTmp, PublishJournal, StageCheck, StageDone,
           WriteReceiptTmp, PublishReceipt, CleanUp, store
<1>6. CASE FavoriteWritten
  BY <1>6, SamePlaces DEF FavoriteWritten, store
<1>7. CASE FailEarly \/ FailDeletion \/ FailRecovery \/ Crash
  BY <1>7, SamePlaces DEF FailEarly, FailDeletion, FailRecovery, Crash, store
<1>8. ASSUME NEW f \in Files, Outside(f) PROVE FALSE
  BY <1>8 DEF Outside, TypeOK
<1>9. CASE Favorite
  BY <1>9 DEF Favorite
<1>10. QED
  BY <1>1, <1>2, <1>3, <1>4, <1>5, <1>6, <1>7, <1>8, <1>9 DEF Next, Work

\* No step of a deletion, a rollback or a recovery loses a content.
THEOREM NothingDiscarded == Spec => NeverDiscards
<1>1. Owned /\ [Next]_vars => [(pc # "favorite" /\ edits' = edits) => Contents' = Contents]_vars
  BY ContentsStep
<1>2. QED
  BY <1>1, OwnedAlways, PTL DEF Spec, NeverDiscards
-----------------------------------------------------------------------------
(* The trash keeps its budget up to what other programs add to a file after  *)
(* it was measured: what a deletion has still to stage was counted before    *)
(* its folder was made.                                                      *)

Places == TxIds \X Files \X (1 .. MaxSize)

LEMMA PlacesFinite == IsFiniteSet(Places)
<1> DEFINE nested == TxIds \X (Files \X (1 .. MaxSize))
           f == [b \in Places |-> <<b[1], <<b[2], b[3]>>>>]
<1>1. IsFiniteSet(1 .. MaxSize)
  BY FS_Interval, HistoryAssumption
<1>2. IsFiniteSet(nested)
  BY <1>1, FS_Product, HistoryFinite
<1>3. f \in [Places -> nested]
  BY DEF Places
<1>4. ASSUME NEW b \in Places, NEW c \in Places, f[b] = f[c] PROVE b = c
  BY <1>4 DEF Places
<1>5. f \in Injection(Places, nested)
  BY <1>3, <1>4 DEF Injection, IsInjective
<1>6. QED
  BY <1>2, <1>5, FS_Injection

\* A folder that does not exist holds nothing.
LEMMA TrashIsHeld == ASSUME Owned PROVE Measured = Held /\ Held \subseteq TrashBytes
  BY DEF Owned, TypeOK, OwnsCurrent, NoFiles, Held, TrashBytes, Measured

LEMMA HeldPlaces == ASSUME Owned PROVE Held \cup TrashBytes \in SUBSET Places
  BY DEF Owned, TypeOK, Held, TrashBytes, Places

LEMMA PlannedPlaces == ASSUME Owned, cur \in TxIds PROVE Planned \in SUBSET Places
  BY DEF Owned, TypeOK, Planned, Places

LEMMA RecordPlaces == ASSUME Owned PROVE Journals \in SUBSET TxIds /\ Receipts \in SUBSET TxIds
  BY DEF Owned, TypeOK, Journals, Receipts

\* Less than something that has room has room.
LEMMA Smaller ==
  ASSUME NEW S \in SUBSET Places, NEW J \in SUBSET TxIds, NEW R \in SUBSET TxIds,
         Cardinality(S) + Cardinality(J) + Cardinality(R) <= MaxTrash,
         NEW S2 \in SUBSET S, NEW J2 \in SUBSET J, NEW R2 \in SUBSET R
  PROVE  Cardinality(S2) + Cardinality(J2) + Cardinality(R2) <= MaxTrash
<1>1. IsFiniteSet(S) /\ IsFiniteSet(J) /\ IsFiniteSet(R)
  BY PlacesFinite, HistoryFinite, FS_Subset
<1>2. Cardinality(S) \in Nat /\ Cardinality(S2) \in Nat /\ Cardinality(S2) <= Cardinality(S)
  BY <1>1, FS_Subset, FS_CardinalityType
<1>3. Cardinality(J) \in Nat /\ Cardinality(J2) \in Nat /\ Cardinality(J2) <= Cardinality(J)
  BY <1>1, FS_Subset, FS_CardinalityType
<1>4. Cardinality(R) \in Nat /\ Cardinality(R2) \in Nat /\ Cardinality(R2) <= Cardinality(R)
  BY <1>1, FS_Subset, FS_CardinalityType
<1>5. QED
  BY <1>2, <1>3, <1>4, HistoryAssumption

\* The deletion is over, or has not chosen its files: only the folders count.
LEMMA NothingPlanned ==
  ASSUME Owned, RoomForAll, pc' \notin StageSteps,
         Held' \subseteq Held, Journals' \subseteq Journals, Receipts' \subseteq Receipts
  PROVE  RoomForAll'
<1>1. Held \in SUBSET Places /\ Journals \in SUBSET TxIds /\ Receipts \in SUBSET TxIds
  BY HeldPlaces, RecordPlaces
<1>2. Cardinality(Held') + Cardinality(Journals') + Cardinality(Receipts') <= MaxTrash
  BY <1>1, Smaller DEF RoomForAll
<1>3. QED
  BY <1>2 DEF RoomForAll, StageSteps

\* A step of the deletion moves what was planned and writes its own records.
LEMMA PlanCarriedOut ==
  ASSUME Owned, RoomForAll, pc \in StageSteps,
         Held' \subseteq Held \cup Planned,
         Journals' \subseteq Journals \cup {cur}, Receipts' \subseteq Receipts \cup {cur},
         pc' \in StageSteps => cur' = cur /\ Planned' \subseteq Planned,
         pc' = "rename" => moving' \in pend'
  PROVE  RoomForAll'
<1>1. cur \in TxIds
  BY DEF Owned, OwnsCurrent, TypeOK
<1> DEFINE S == Held \cup Planned
           J == Journals \cup {cur}
           R == Receipts \cup {cur}
<1>2. S \in SUBSET Places /\ J \in SUBSET TxIds /\ R \in SUBSET TxIds
  BY <1>1, HeldPlaces, PlannedPlaces, RecordPlaces
<1>3. Cardinality(S) + Cardinality(J) + Cardinality(R) <= MaxTrash
  BY DEF RoomForAll
<1>4. Held' \in SUBSET S /\ Journals' \in SUBSET J /\ Receipts' \in SUBSET R
  OBVIOUS
<1> HIDE DEF S, J, R
<1>5. Cardinality(Held') + Cardinality(Journals') + Cardinality(Receipts') <= MaxTrash
  BY <1>2, <1>3, <1>4, Smaller
<1>6. ASSUME pc' \in StageSteps
      PROVE  Cardinality((Held \cup Planned)') + Cardinality(Journals' \cup {cur'})
                + Cardinality(Receipts' \cup {cur'}) <= MaxTrash
  <2>1. /\ Held' \cup Planned' \in SUBSET S
        /\ Journals' \cup {cur'} \in SUBSET J /\ Receipts' \cup {cur'} \in SUBSET R
    BY <1>4, <1>6 DEF S, J, R
  <2>2. QED
    BY <1>2, <1>3, <2>1, Smaller
<1>7. QED
  BY <1>5, <1>6 DEF RoomForAll

LEMMA RoomInit == Init => RoomForAll
<1> SUFFICES ASSUME Init PROVE RoomForAll
  OBVIOUS
<1>1. Held = {} /\ Journals = {} /\ Receipts = {}
  BY DEF Init, Held, Journals, Receipts, NoFiles
<1>2. QED
  BY <1>1, FS_EmptySet, HistoryAssumption DEF Init, RoomForAll, StageSteps

\* What the new folder will take is what was found, and that was measured.
LEMMA PlannedIsFound ==
  ASSUME Owned, NEW t \in TxIds, DeleteMkdir(t)
  PROVE  IsFiniteSet(Planned') /\ Cardinality(Planned') <= Cardinality(FoundBytes)
         /\ IsFiniteSet(FoundBytes)
<1> DEFINE g == [b \in Planned' |-> <<b[2], b[3]>>]
<1>0. IsFiniteSet(1 .. MaxSize)
  BY FS_Interval, HistoryAssumption
<1>1. IsFiniteSet(Files \X (1 .. MaxSize))
  BY <1>0, FS_Product, HistoryFinite
<1>2. FoundBytes \subseteq Files \X (1 .. MaxSize) /\ Found \subseteq Files
  BY DEF FoundBytes, Found, Owned, TypeOK
<1>3. IsFiniteSet(FoundBytes)
  BY <1>1, <1>2, FS_Subset
<1>4. cur' = t /\ pend' = Found /\ \A f \in Found : entry'[t][f] = src[f]
  BY <1>2 DEF DeleteMkdir, Owned, TypeOK
<1>5. Planned' = {b \in {t} \X Found \X (1 .. MaxSize) : b[3] <= Size[b[2]][src[b[2]]]}
  BY <1>4 DEF Planned
<1>6. g \in [Planned' -> FoundBytes]
  BY <1>5 DEF FoundBytes
<1>7. ASSUME NEW b \in Planned', NEW c \in Planned', g[b] = g[c] PROVE b = c
  BY <1>5, <1>7
<1>8. g \in Injection(Planned', FoundBytes)
  BY <1>6, <1>7 DEF Injection, IsInjective
<1>9. QED
  BY <1>3, <1>8, FS_Injection

\* The new folder holds nothing and will take what was counted.
LEMMA MkdirRoom == ASSUME Owned, RoomForAll, NEW t \in TxIds, DeleteMkdir(t) PROVE RoomForAll'
<1>1. /\ cur' = t /\ pc' = "journal_tmp" /\ UNCHANGED <<journal, receipt, staged>>
      /\ t \notin folders /\ folders' = folders \cup {t}
      /\ TrashUse + Cardinality(FoundBytes) + 3 <= MaxTrash
  BY DEF DeleteMkdir, Fits
<1>2. journal[t] = "none" /\ receipt[t] = "none" /\ staged[t] = NoFiles
  BY <1>1 DEF Owned, OwnsCurrent
<1>3. Held' = Held
  <2>1. \A s \in TxIds, f \in Files : staged[s][f] # 0 => entry'[s][f] = entry[s][f]
    BY <1>2 DEF DeleteMkdir, Owned, TypeOK, NoFiles
  <2>2. QED
    BY <1>1, <2>1 DEF Held
<1>4. Journals' = Journals /\ Receipts' = Receipts
  BY <1>1, <1>2 DEF Journals, Receipts
<1>5. /\ IsFiniteSet(Held) /\ IsFiniteSet(TrashBytes) /\ Cardinality(Held) <= Cardinality(TrashBytes)
      /\ IsFiniteSet(Journals) /\ IsFiniteSet(Receipts)
  BY HeldPlaces, RecordPlaces, TrashIsHeld, PlacesFinite, HistoryFinite, FS_Subset
<1>6. IsFiniteSet(Planned') /\ IsFiniteSet(FoundBytes) /\ Cardinality(Planned') <= Cardinality(FoundBytes)
  BY PlannedIsFound
<1>7. /\ Cardinality(Held) \in Nat /\ Cardinality(TrashBytes) \in Nat /\ Cardinality(Journals) \in Nat
      /\ Cardinality(Receipts) \in Nat /\ Cardinality(Planned') \in Nat /\ Cardinality(FoundBytes) \in Nat
  BY <1>5, <1>6, FS_CardinalityType
<1>8. /\ Cardinality(Held \cup Planned') \in Nat
      /\ Cardinality(Held \cup Planned') <= Cardinality(Held) + Cardinality(Planned')
  <2>1. IsFiniteSet(Held \cup Planned') /\ IsFiniteSet(Held \cap Planned')
        /\ Cardinality(Held \cup Planned')
              = Cardinality(Held) + Cardinality(Planned') - Cardinality(Held \cap Planned')
    BY <1>5, <1>6, FS_Union, FS_Intersection
  <2>2. Cardinality(Held \cup Planned') \in Nat /\ Cardinality(Held \cap Planned') \in Nat
    BY <2>1, FS_CardinalityType
  <2>3. QED
    BY <1>7, <2>1, <2>2
<1>9. /\ Cardinality(Journals \cup {t}) \in Nat /\ Cardinality(Journals \cup {t}) <= Cardinality(Journals) + 1
      /\ Cardinality(Receipts \cup {t}) \in Nat /\ Cardinality(Receipts \cup {t}) <= Cardinality(Receipts) + 1
  <2>1. /\ IsFiniteSet(Journals \cup {t}) /\ IsFiniteSet(Receipts \cup {t})
        /\ Cardinality(Journals \cup {t}) = IF t \in Journals THEN Cardinality(Journals) ELSE Cardinality(Journals) + 1
        /\ Cardinality(Receipts \cup {t}) = IF t \in Receipts THEN Cardinality(Receipts) ELSE Cardinality(Receipts) + 1
    BY <1>5, FS_AddElement
  <2>2. QED
    BY <1>7, <2>1, FS_CardinalityType
<1>10. TrashUse = Cardinality(TrashBytes) + Cardinality(Journals) + Cardinality(Receipts)
  BY DEF TrashUse
<1>11. Cardinality(Held \cup Planned') + Cardinality(Journals \cup {t}) + Cardinality(Receipts \cup {t}) <= MaxTrash
  <2>1. MaxTrash \in Nat
    BY HistoryAssumption
  <2>2. Cardinality(Held \cup Planned') <= Cardinality(TrashBytes) + Cardinality(FoundBytes)
    BY <1>5, <1>6, <1>7, <1>8
  <2>3. Cardinality(TrashBytes) + Cardinality(Journals) + Cardinality(Receipts) + Cardinality(FoundBytes) + 3 <= MaxTrash
    BY <1>1, <1>10
  <2>4. QED
    BY <2>1, <2>2, <2>3, <1>7, <1>8, <1>9
<1>12. QED
  BY <1>1, <1>3, <1>4, <1>11 DEF RoomForAll

\* A staged file was one of those still to move.
LEMMA RenameRoom == ASSUME Owned, RoomForAll, StageRename PROVE RoomForAll'
<1>1. cur \in TxIds /\ moving \in pend /\ moving \in Files /\ pc \in StageSteps
  BY DEF Owned, TypeOK, OwnsCurrent, StageRename, StageSteps, RoomForAll
<1>2. UNCHANGED <<folders, journal, receipt, entry>> /\ pc' # "rename"
  BY DEF StageRename, GiveUp
<1>3. Journals' = Journals /\ Receipts' = Receipts
  BY <1>2 DEF Journals, Receipts
<1>4. Held' \subseteq Held \cup Planned
  <2>1. CASE UNCHANGED staged
    BY <1>2, <2>1 DEF Held
  <2>2. CASE staged' = [staged EXCEPT ![cur][moving] = src[moving]]
    <3>1. \A t \in TxIds, f \in Files : <<t, f>> # <<cur, moving>> => staged'[t][f] = staged[t][f]
      BY <1>1, <2>2 DEF Owned, TypeOK
    <3>2. ASSUME NEW b \in Held' PROVE b \in Held \cup Planned
      BY <1>1, <1>2, <3>1 DEF Held, Planned
    <3>3. QED
      BY <3>2
  <2>3. QED
    BY <2>1, <2>2 DEF StageRename
<1>5. pc' \in StageSteps => cur' = cur /\ Planned' \subseteq Planned
  BY <1>2 DEF StageRename, GiveUp, StageSteps, Planned
<1>6. QED
  BY <1>1, <1>2, <1>3, <1>4, <1>5, PlanCarriedOut

\* A rollback only empties the folder.
LEMMA RestoreRoom == ASSUME Owned, RoomForAll, NEW f \in Files, RollbackMove(f) PROVE RoomForAll'
<1>1. cur \in TxIds
  BY DEF Owned, TypeOK, OwnsCurrent, RollbackMove, RollbackSteps
<1>2. pc' \notin StageSteps /\ UNCHANGED <<folders, journal, receipt, entry>>
  BY DEF RollbackMove, Answer, Release, StageSteps
<1>3. Held' \subseteq Held
  <2>1. CASE UNCHANGED staged
    BY <1>2, <2>1 DEF Held
  <2>2. CASE staged' = [staged EXCEPT ![cur][f] = 0]
    <3>1. \A s \in TxIds, g \in Files : staged'[s][g] # 0 => staged'[s][g] = staged[s][g]
      BY <1>1, <2>2 DEF Owned, TypeOK
    <3>2. ASSUME NEW b \in Held' PROVE b \in Held
      BY <1>2, <3>1 DEF Held
    <3>3. QED
      BY <3>2
  <2>3. QED
    BY <2>1, <2>2 DEF RollbackMove
<1>4. Journals' = Journals /\ Receipts' = Receipts
  BY <1>2 DEF Journals, Receipts
<1>5. QED
  BY <1>2, <1>3, <1>4, NothingPlanned

\* So do the steps that remove a record or an empty folder.
LEMMA RemovalRoom ==
  ASSUME Owned, RoomForAll, pc' \notin StageSteps, UNCHANGED staged, NEW t \in TxIds,
         folders' \subseteq folders,
         journal' \in {journal, [journal EXCEPT ![t] = "none"]},
         receipt' \in {receipt, [receipt EXCEPT ![t] = "none"]},
         entry' = entry \/ (entry' = [entry EXCEPT ![t] = NoFiles] /\ StagedIn(t) = {})
  PROVE  RoomForAll'
<1>1. Held' \subseteq Held
  <2>1. \A s \in TxIds, f \in Files : staged[s][f] # 0 => entry'[s][f] = entry[s][f]
    BY DEF StagedIn, Owned, TypeOK
  <2>2. QED
    BY <2>1 DEF Held
<1>2. Journals' \subseteq Journals /\ Receipts' \subseteq Receipts
  BY DEF Journals, Receipts, Owned, TypeOK
<1>3. QED
  BY <1>1, <1>2, NothingPlanned

\* Steps that leave the trash as it is and plan nothing.
LEMMA IdleRoom ==
  ASSUME Owned, RoomForAll, UNCHANGED store,
         \/ pc' \notin StageSteps
         \/ pc' = pc /\ UNCHANGED <<cur, pend, moving>>
  PROVE  RoomForAll'
<1>1. Held' = Held /\ Journals' = Journals /\ Receipts' = Receipts
  BY DEF store, Held, Journals, Receipts
<1>2. CASE pc' \notin StageSteps
  BY <1>1, <1>2, NothingPlanned
<1>3. CASE pc' = pc /\ UNCHANGED <<cur, pend, moving>>
  <2>1. Planned' = Planned
    BY <1>3 DEF Planned, store
  <2>2. QED
    BY <1>1, <1>3, <2>1 DEF RoomForAll
<1>4. QED
  BY <1>2, <1>3

\* The deletion writes a record, checks a file or gives up.
LEMMA StageRoom ==
  ASSUME Owned, RoomForAll, pc \in StageSteps, UNCHANGED <<folders, entry, staged>>,
         journal' \in {journal, [journal EXCEPT ![cur] = "tmp"], [journal EXCEPT ![cur] = "whole"]},
         receipt' \in {receipt, [receipt EXCEPT ![cur] = "tmp"], [receipt EXCEPT ![cur] = "whole"]},
         pc' \in StageSteps => UNCHANGED <<cur, pend>>,
         pc' = "rename" => moving' \in pend'
  PROVE  RoomForAll'
<1>1. cur \in TxIds
  BY DEF Owned, TypeOK, OwnsCurrent
<1>2. Held' = Held
  BY DEF Held
<1>3. Journals' \subseteq Journals \cup {cur} /\ Receipts' \subseteq Receipts \cup {cur}
  BY <1>1 DEF Journals, Receipts, Owned, TypeOK
<1>4. pc' \in StageSteps => cur' = cur /\ Planned' \subseteq Planned
  BY DEF Planned
<1>5. QED
  BY <1>2, <1>3, <1>4, PlanCarriedOut

LEMMA RoomStep == Owned /\ RoomForAll /\ [Next]_vars => RoomForAll'
<1> SUFFICES ASSUME Owned, RoomForAll, [Next]_vars PROVE RoomForAll'
  OBVIOUS
<1>1. CASE UNCHANGED vars \/ \E f \in Files : Outside(f)
  BY <1>1, IdleRoom DEF vars, work, Outside
<1>2. CASE Requests
  BY <1>2, IdleRoom DEF Requests, Enter, Busy, work, StageSteps
<1>3. CASE Recovery
  <2>1. ASSUME NEW t \in TxIds, RecoverCommitted(t) \/ RecoverUnpublished(t) PROVE RoomForAll'
    <3>1. /\ pc' \notin StageSteps /\ UNCHANGED <<staged, receipt>> /\ folders' \subseteq folders
          /\ journal' \in {journal, [journal EXCEPT ![t] = "none"]}
          /\ entry' = entry \/ (entry' = [entry EXCEPT ![t] = NoFiles] /\ StagedIn(t) = {})
      BY <2>1 DEF RecoverCommitted, RecoverUnpublished, StageSteps
    <3>2. QED
      BY <3>1, RemovalRoom
  <2>2. CASE RecoverDone \/ \E t \in TxIds : RecoverJournaled(t) \/ RecoverRefuses(t)
    BY <2>2, IdleRoom DEF RecoverJournaled, RecoverRefuses, RecoverDone, Goto, Answer, Release, StageSteps
  <2>3. QED
    BY <1>3, <2>1, <2>2 DEF Recovery
<1>4. CASE Rollback
  <2>1. CASE RollbackValidate \/ RollbackMoved
    BY <2>1, IdleRoom DEF RollbackValidate, RollbackMoved, Goto, Answer, Release, StageSteps
  <2>2. CASE DropJournalTmp \/ DropReceiptTmp \/ DropJournal \/ DropFolder
    <3>1. cur \in TxIds
      BY <2>2 DEF Owned, TypeOK, OwnsCurrent, DropJournalTmp, DropReceiptTmp, DropJournal, DropFolder, RollbackSteps
    <3>2. /\ pc' \notin StageSteps /\ UNCHANGED staged /\ folders' \subseteq folders
          /\ journal' \in {journal, [journal EXCEPT ![cur] = "none"]}
          /\ receipt' \in {receipt, [receipt EXCEPT ![cur] = "none"]}
          /\ entry' = entry \/ (entry' = [entry EXCEPT ![cur] = NoFiles] /\ StagedIn(cur) = {})
      BY <2>2 DEF DropJournalTmp, DropReceiptTmp, DropJournal, DropFolder, Goto, Answer, Release, StageSteps
    <3>3. QED
      BY <3>1, <3>2, RemovalRoom
  <2>3. QED
    BY <1>4, <2>1, <2>2, RestoreRoom DEF Rollback
<1>5. CASE Delete
  <2>1. CASE WriteJournalTmp \/ PublishJournal \/ StageDone \/ WriteReceiptTmp \/ PublishReceipt
    BY <2>1, StageRoom DEF WriteJournalTmp, PublishJournal, StageDone, WriteReceiptTmp, PublishReceipt, Goto,
                           StageSteps, store
  <2>2. ASSUME NEW f \in Files, StageCheck(f) PROVE RoomForAll'
    BY <2>2, StageRoom DEF StageCheck, GiveUp, StageSteps, store
  <2>3. CASE DeleteLookup \/ DeleteMeasure
    BY <2>3, IdleRoom DEF DeleteLookup, DeleteMeasure, Answer, Release, StageSteps
  <2>4. CASE CleanUp
    <3>1. cur \in TxIds
      BY <2>4 DEF Owned, TypeOK, OwnsCurrent, CleanUp, Committed
    <3>2. /\ pc' \notin StageSteps /\ UNCHANGED <<folders, receipt, entry, staged>>
          /\ journal' \in {journal, [journal EXCEPT ![cur] = "none"]}
      BY <2>4 DEF CleanUp, Answer, Release, StageSteps
    <3>3. QED
      BY <3>1, <3>2, RemovalRoom
  <2>5. QED
    BY <1>5, <2>1, <2>2, <2>3, <2>4, MkdirRoom, RenameRoom DEF Delete
<1>6. CASE Favorite \/ FavoriteWritten
  BY <1>6, IdleRoom DEF Favorite, FavoriteWritten, Goto, Answer, Release, StageSteps
<1>7. CASE FailEarly \/ FailRecovery \/ Crash
  BY <1>7, IdleRoom DEF FailEarly, FailRecovery, Crash, Answer, Release, StageSteps
<1>8. CASE FailDeletion
  BY <1>8, StageRoom DEF FailDeletion, GiveUp, StageSteps
<1>9. QED
  BY <1>1, <1>2, <1>3, <1>4, <1>5, <1>6, <1>7, <1>8 DEF Next, Work

\* Whatever fails or interferes, the records and the files of the trash, each
\* with at most the size its record measured, stay within the budget.
THEOREM BudgetKept == Spec => []TrashBounded
<1>1. Init => Owned /\ RoomForAll
  BY OwnedInit, RoomInit
<1>2. Owned /\ RoomForAll /\ [Next]_vars => (Owned /\ RoomForAll)'
  BY OwnedStep, RoomStep
<1>3. Owned /\ RoomForAll => TrashBounded
  BY TrashIsHeld DEF RoomForAll, TrashBounded
<1>4. QED
  BY <1>1, <1>2, <1>3, PTL DEF Spec

-----------------------------------------------------------------------------
(* The receipts that exist change only at the commit point.                 *)

LEMMA NoNewReceipt ==
  ASSUME Owned, [Next]_vars, ~PublishReceipt PROVE Committed' \subseteq Committed
<1> USE DEF Owned
<1>1. CASE UNCHANGED <<folders, receipt>>
  BY <1>1 DEF Committed
<1>2. ASSUME NEW t \in TxIds, RecoverUnpublished(t) PROVE Committed' \subseteq Committed
  BY <1>2 DEF RecoverUnpublished, Committed
<1>3. ASSUME NEW t \in TxIds, DeleteMkdir(t) PROVE Committed' \subseteq Committed
  BY <1>3 DEF DeleteMkdir, Committed, OwnsCurrent
<1>4. CASE DropReceiptTmp \/ WriteReceiptTmp
  BY <1>4 DEF DropReceiptTmp, WriteReceiptTmp, Committed, TypeOK
<1>5. CASE DropFolder
  BY <1>5 DEF DropFolder, Committed
<1>6. CASE FailDeletion
  BY <1>6 DEF FailDeletion, Committed, TypeOK
<1>7. CASE UNCHANGED vars \/ Requests
  BY <1>7, <1>1 DEF vars, store, Requests, Enter, Busy
<1>8. CASE Recovery
  BY <1>8, <1>1, <1>2 DEF Recovery, RecoverCommitted, RecoverJournaled, RecoverRefuses, RecoverDone, store
<1>9. CASE Rollback
  BY <1>9, <1>1, <1>4, <1>5
     DEF Rollback, RollbackValidate, RollbackMove, RollbackMoved, DropJournalTmp, DropJournal, store
<1>10. CASE Delete
  BY <1>10, <1>1, <1>3, <1>4
     DEF Delete, DeleteLookup, DeleteMeasure, WriteJournalTmp, PublishJournal, StageCheck, StageRename,
         StageDone, CleanUp, store
<1>11. CASE Favorite \/ FavoriteWritten \/ FailEarly \/ FailRecovery \/ Crash \/ \E f \in Files : Outside(f)
  BY <1>11, <1>1 DEF Favorite, FavoriteWritten, FailEarly, FailRecovery, Crash, Outside, store
<1>12. QED
  BY <1>6, <1>7, <1>8, <1>9, <1>10, <1>11 DEF Next, Work

\* Any other step leaves the receipts and what they cover as they were.
LEMMA SameReceipts ==
  ASSUME Owned, [Next]_vars, ~PublishReceipt
  PROVE  /\ Committed' = Committed /\ Flagged' = Flagged
         /\ \A t \in Committed : target'[t] = target[t] /\ entry'[t] = entry[t] /\ staged'[t] = staged[t]
<1>1. \A t \in Committed : Kept(t)
  BY KeptStep
<1>2. Committed' = Committed
  BY <1>1, NoNewReceipt DEF Kept
<1>3. \A t \in Committed : target'[t] = target[t] /\ entry'[t] = entry[t] /\ staged'[t] = staged[t]
  BY <1>1 DEF Kept
<1>4. {Covers(target'[t]) : t \in Committed'} = {Covers(target[t]) : t \in Committed}
  BY <1>2, <1>3
<1>5. QED
  BY <1>2, <1>3, <1>4 DEF Flagged, Covers

\* The step that publishes a receipt adds just that.
LEMMA NewReceipt ==
  ASSUME Owned, PublishReceipt
  PROVE  /\ cur \in folders /\ cur \notin Committed /\ target[cur] = tgt
         /\ Committed' = Committed \cup {cur}
         /\ Flagged' = Flagged \cup Covers(tgt)
         /\ UNCHANGED <<src, folders, target, entry, staged>>
<1>1. cur \in folders /\ cur \notin Committed /\ target[cur] = tgt /\ cur \in TxIds
  BY DEF Owned, TypeOK, OwnsCurrent, PublishReceipt, StageSteps, Committed
<1>2. receipt' = [receipt EXCEPT ![cur] = "whole"] /\ UNCHANGED <<src, folders, target, entry, staged>>
  BY DEF PublishReceipt
<1>3. Committed' = Committed \cup {cur}
  BY <1>1, <1>2 DEF Owned, TypeOK, Committed
<1>4. {Covers(target'[t]) : t \in Committed'} = {Covers(target[t]) : t \in Committed} \cup {Covers(tgt)}
  BY <1>1, <1>2, <1>3
<1>5. Flagged' = UNION {Covers(target'[t]) : t \in Committed'}
  BY DEF Flagged, Covers
<1>6. QED
  BY <1>1, <1>2, <1>3, <1>4, <1>5 DEF Flagged
-----------------------------------------------------------------------------
(* A deletion takes only what no receipt covers.                            *)

\* The owners whose files a deletion stages are covered by its receipt and,
\* while its target is not, by no other.
LEMMA OwnersCovered ==
  ASSUME NEW d \in Targets PROVE OwnersOf(d) \subseteq Covers(d) /\ d \in Covers(d)
  BY HistoryAssumption DEF OwnersOf, Covers, Targets

LEMMA OwnersUnflagged ==
  ASSUME NEW d \in Targets, d \notin Flagged PROVE OwnersOf(d) \cap Flagged = {}
  BY DEF OwnersOf

LEMMA ClaimsInit == Init => Claims
  BY DEF Init, Claims, Committed, StageSteps

\* Most steps carry the claims on.
LEMMA ClaimsFollow ==
  ASSUME Claims, [Next]_vars, Owned, ~PublishReceipt,
         pc' \in StageSteps => pc \in StageSteps /\ tgt' = tgt /\ cur' = cur /\ entry' = entry,
         pc' = "measure" => pc = "measure" /\ tgt' = tgt /\ pend' \subseteq pend
  PROVE  Claims'
<1>1. /\ Committed' = Committed /\ Flagged' = Flagged
      /\ \A t \in Committed : target'[t] = target[t] /\ entry'[t] = entry[t]
  BY SameReceipts
<1>2. (\A t \in Committed : \A f \in Named(t) : Owner[f] \in Covers(target[t]))'
  BY <1>1 DEF Claims, Named, Covers
<1>3. (pc = "measure" => tgt \notin Flagged /\ pend \subseteq FilesOf(tgt))'
  BY <1>1 DEF Claims, FilesOf, OwnersOf
<1>4. (pc \in StageSteps => tgt \notin Flagged /\ Named(cur) \subseteq FilesOf(tgt))'
  BY <1>1 DEF Claims, FilesOf, OwnersOf, Named, StageSteps
<1>5. QED
  BY <1>2, <1>3, <1>4 DEF Claims

LEMMA LookupClaims == ASSUME Owned, Claims, [Next]_vars, DeleteLookup PROVE Claims'
<1>1. CASE Answer("deleted") \/ Answer("not_found")
  BY <1>1, ClaimsFollow DEF Answer, Release, StageSteps, DeleteLookup, PublishReceipt
<1>2. CASE ~(Answer("deleted") \/ Answer("not_found"))
  <2>1. tgt \notin Flagged /\ pend' = FilesOf(tgt) /\ tgt' = tgt /\ pc' = "measure" /\ ~PublishReceipt
    BY <1>2 DEF DeleteLookup, PublishReceipt
  <2>2. /\ Committed' = Committed /\ Flagged' = Flagged
        /\ \A t \in Committed : target'[t] = target[t] /\ entry'[t] = entry[t]
    BY <2>1, SameReceipts
  <2>3. (\A t \in Committed : \A f \in Named(t) : Owner[f] \in Covers(target[t]))'
    BY <2>2 DEF Claims, Named, Covers
  <2>4. (tgt \notin Flagged /\ pend \subseteq FilesOf(tgt))'
    BY <2>1, <2>2 DEF FilesOf, OwnersOf
  <2>5. QED
    BY <2>1, <2>3, <2>4 DEF Claims, StageSteps
<1>3. QED
  BY <1>1, <1>2

LEMMA MkdirClaims ==
  ASSUME Owned, Claims, [Next]_vars, NEW x \in TxIds, DeleteMkdir(x) PROVE Claims'
<1>1. tgt \notin Flagged /\ pend \subseteq FilesOf(tgt) /\ ~PublishReceipt
  BY DEF DeleteMkdir, Claims, PublishReceipt
<1>2. /\ Committed' = Committed /\ Flagged' = Flagged
      /\ \A t \in Committed : target'[t] = target[t] /\ entry'[t] = entry[t]
  BY <1>1, SameReceipts
<1>3. (\A t \in Committed : \A f \in Named(t) : Owner[f] \in Covers(target[t]))'
  BY <1>2 DEF Claims, Named, Covers
<1>4. cur' = x /\ tgt' = tgt /\ pc' = "journal_tmp"
      /\ entry'[x] = [f \in Files |-> IF f \in Found THEN src[f] ELSE 0]
  BY DEF DeleteMkdir, Owned, TypeOK
<1>5. (tgt \notin Flagged /\ Named(cur) \subseteq FilesOf(tgt))'
  BY <1>1, <1>2, <1>4 DEF FilesOf, OwnersOf, Named, Found
<1>6. QED
  BY <1>3, <1>4, <1>5 DEF Claims

LEMMA PublishClaims == ASSUME Owned, Claims, PublishReceipt PROVE Claims'
<1>1. /\ cur \in folders /\ target[cur] = tgt /\ Committed' = Committed \cup {cur} /\ tgt \in Targets
      /\ UNCHANGED <<target, entry>> /\ pc' = "cleanup" /\ Named(cur) \subseteq FilesOf(tgt)
  BY NewReceipt DEF PublishReceipt, Goto, Claims, StageSteps, Owned, OwnsCurrent
<1>2. \A f \in Named(cur) : Owner[f] \in Covers(tgt)
  BY <1>1, OwnersCovered DEF FilesOf
<1>3. (\A t \in Committed : \A f \in Named(t) : Owner[f] \in Covers(target[t]))'
  BY <1>1, <1>2 DEF Claims, Named, Covers
<1>4. QED
  BY <1>1, <1>3 DEF Claims, StageSteps

LEMMA ClaimsStep == Owned /\ Claims /\ [Next]_vars => Claims'
<1> SUFFICES ASSUME Owned, Claims, [Next]_vars PROVE Claims'
  OBVIOUS
<1> DEFINE Follows == /\ ~PublishReceipt
                      /\ pc' \in StageSteps => pc \in StageSteps /\ tgt' = tgt /\ cur' = cur /\ entry' = entry
                      /\ pc' = "measure" => pc = "measure" /\ tgt' = tgt /\ pend' \subseteq pend
<1> HIDE DEF Follows
<1>1. Follows => Claims'
  BY ClaimsFollow DEF Follows
<1>2. CASE UNCHANGED vars \/ Requests
  <2>1. Follows
    BY <1>2 DEF Follows, vars, store, work, Requests, Enter, Busy, PublishReceipt, Goto, StageSteps
  <2>2. QED
    BY <1>1, <2>1
<1>3. CASE Recovery
  <2>1. Follows
    BY <1>3 DEF Follows, Recovery, RecoverCommitted, RecoverJournaled, RecoverUnpublished, RecoverRefuses,
                RecoverDone, PublishReceipt, Goto, Answer, Release, StageSteps
  <2>2. QED
    BY <1>1, <2>1
<1>4. CASE Rollback
  <2>1. Follows
    BY <1>4 DEF Follows, Rollback, RollbackValidate, RollbackMove, RollbackMoved, DropJournalTmp, DropReceiptTmp,
                DropJournal, DropFolder, PublishReceipt, Goto, Answer, Release, StageSteps
  <2>2. QED
    BY <1>1, <2>1
<1>5. CASE DeleteMeasure
  <2>1. Follows
    BY <1>5 DEF Follows, DeleteMeasure, PublishReceipt, Answer, Release, StageSteps
  <2>2. QED
    BY <1>1, <2>1
<1>6. CASE WriteJournalTmp \/ PublishJournal \/ StageDone \/ WriteReceiptTmp \/ CleanUp
  <2>1. Follows
    BY <1>6 DEF Follows, WriteJournalTmp, PublishJournal, StageDone, WriteReceiptTmp, CleanUp, PublishReceipt,
                Answer, Release, Goto, StageSteps, store
  <2>2. QED
    BY <1>1, <2>1
<1>7. CASE StageRename \/ \E f \in Files : StageCheck(f)
  <2>1. Follows
    BY <1>7 DEF Follows, StageCheck, StageRename, GiveUp, PublishReceipt, StageSteps, store
  <2>2. QED
    BY <1>1, <2>1
<1>8. CASE Favorite \/ FavoriteWritten
  <2>1. Follows
    BY <1>8 DEF Follows, Favorite, FavoriteWritten, PublishReceipt, Answer, Release, Goto, StageSteps
  <2>2. QED
    BY <1>1, <2>1
<1>9. CASE FailEarly \/ FailDeletion \/ FailRecovery \/ Crash
  <2>1. pc' \notin StageSteps /\ pc' # "measure"
    BY <1>9 DEF FailEarly, FailDeletion, FailRecovery, Crash, Answer, Release, GiveUp, StageSteps
  <2>2. ~PublishReceipt
    BY <1>9 DEF FailEarly, FailDeletion, FailRecovery, Crash, Answer, Release, GiveUp, PublishReceipt, Goto
  <2>3. QED
    BY <1>1, <2>1, <2>2 DEF Follows
<1>10. CASE \E f \in Files : Outside(f)
  <2>1. Follows
    BY <1>10 DEF Follows, Outside, store, work, PublishReceipt, Goto
  <2>2. QED
    BY <1>1, <2>1
<1>11. QED
  BY <1>2, <1>3, <1>4, <1>5, <1>6, <1>7, <1>8, <1>9, <1>10, LookupClaims, MkdirClaims, PublishClaims
     DEF Next, Work, Delete

\* No two receipts cover the same item, and a deletion on its way to its
\* receipt takes only files that no receipt covers.
THEOREM ClaimsAlways == Spec => []Claims
<1>1. Owned /\ Claims /\ [Next]_vars => Claims'
  BY ClaimsStep
<1>2. QED
  BY <1>1, ClaimsInit, OwnedAlways, PTL DEF Spec

LEMMA OneReceiptStep == Owned /\ Claims /\ OneReceipt /\ [Next]_vars => OneReceipt'
<1> SUFFICES ASSUME Owned, Claims, OneReceipt, [Next]_vars PROVE OneReceipt'
  OBVIOUS
<1>1. CASE ~PublishReceipt
  BY <1>1, SameReceipts DEF OneReceipt, Named
<1>2. CASE PublishReceipt
  <2>1. /\ cur \in folders /\ target[cur] = tgt /\ Committed' = Committed \cup {cur} /\ tgt \in Targets
        /\ UNCHANGED <<target, entry>> /\ tgt \notin Flagged /\ Named(cur) \subseteq FilesOf(tgt)
    BY <1>2, NewReceipt DEF PublishReceipt, Claims, StageSteps, Owned, OwnsCurrent
  <2>2. \A f \in Named(cur) : Owner[f] \notin Flagged
    BY <2>1, OwnersUnflagged DEF FilesOf
  <2>3. ASSUME NEW t \in Committed PROVE Covers(target[t]) \subseteq Flagged /\ target[t] \in Covers(target[t])
    BY DEF Flagged, Covers
  <2>4. ASSUME NEW t \in Committed PROVE target[t] # tgt /\ Named(t) \cap Named(cur) = {}
    BY <2>1, <2>2, <2>3 DEF Claims
  <2>5. QED
    BY <2>1, <2>4 DEF OneReceipt, Named
<1>3. QED
  BY <1>1, <1>2

\* An item or a batch has one receipt at most, and a file is in the trash of
\* one at most, whatever crashes, is retried or is changed by other programs.
THEOREM ReceiptsUnique == Spec => []OneReceipt
<1>1. Init => OneReceipt
  BY DEF Init, OneReceipt, Committed
<1>2. Owned /\ Claims /\ OneReceipt /\ [Next]_vars => OneReceipt'
  BY OneReceiptStep
<1>3. QED
  BY <1>1, <1>2, OwnedAlways, ClaimsAlways, PTL DEF Spec
-----------------------------------------------------------------------------
(* Without other programs, what is unfinished can be put back.              *)

Safe == Owned /\ Claims /\ Recoverable /\ TakesAll

Unfinished == folders \ Committed

AllRestorable ==
    /\ \A s, t \in Unfinished : s = t
    /\ \A t \in Unfinished : Restorable(t)

LEMMA NothingStaged ==
  ASSUME TypeOK, NEW t \in TxIds PROVE StagedIn(t) = {} <=> staged[t] = NoFiles
<1>1. staged[t] \in [Files -> Nat]
  BY DEF TypeOK
<1>2. ASSUME StagedIn(t) = {} PROVE staged[t] = NoFiles
  BY <1>1, <1>2 DEF StagedIn, NoFiles
<1>3. ASSUME staged[t] = NoFiles PROVE StagedIn(t) = {}
  BY <1>3 DEF StagedIn, NoFiles
<1>4. QED
  BY <1>2, <1>3

LEMMA SafeInit == Init => Recoverable /\ TakesAll
  BY DEF Init, Recoverable, TakesAll, ReceiptComplete, AtStep, Committed, StageSteps, RollbackSteps

\* No other program runs.
LEMMA NoOutside ==
  ASSUME MaxEdits = 0, Recoverable, [Next]_vars
  PROVE  edits' = 0 /\ ~\E f \in Files : Outside(f)
<1>1. edits = 0
  BY DEF Recoverable
<1>2. ~\E f \in Files : Outside(f)
  BY <1>1 DEF Outside
<1>3. QED
  BY <1>1, <1>2 DEF Next, vars, world, Requests, Enter, Busy, Work, Recovery, RecoverCommitted, RecoverJournaled,
     RecoverUnpublished, RecoverRefuses, RecoverDone, Rollback, RollbackValidate, RollbackMove, RollbackMoved,
     DropJournalTmp, DropReceiptTmp, DropJournal, DropFolder, Delete, DeleteLookup, DeleteMeasure, DeleteMkdir,
     WriteJournalTmp, PublishJournal, StageCheck, StageRename, StageDone, WriteReceiptTmp, PublishReceipt,
     CleanUp, Favorite, FavoriteWritten, FailEarly, FailDeletion, FailRecovery, Fault, Crash

\* A step that leaves the unfinished transaction and its files alone, or only
\* moves its records forward or back, keeps it restorable.
LEMMA StaysRestorable ==
  ASSUME Recoverable, Unfinished' \subseteq Unfinished, Unfinished' = {} \/ src' = src,
         \A t \in Unfinished' : /\ entry'[t] = entry[t] /\ staged'[t] = staged[t]
                                /\ journal'[t] # "whole" => receipt'[t] = "none" /\ staged'[t] = NoFiles
  PROVE  AllRestorable'
<1>1. AllRestorable
  BY DEF Recoverable, Unfinished, AllRestorable
<1>2. ASSUME NEW t \in Unfinished' PROVE Restorable(t)'
  <2>1. t \in Unfinished /\ src' = src /\ Restorable(t)
    BY <1>1, <1>2 DEF AllRestorable
  <2>2. QED
    BY <2>1, <1>2 DEF Restorable
<1>3. QED
  BY <1>1, <1>2 DEF AllRestorable

\* Taking the steps apart: the receipts, the transaction, and the program counter.
LEMMA Assemble ==
  ASSUME MaxEdits = 0, Safe, [Next]_vars, ~PublishReceipt, AtStep', AllRestorable'
  PROVE  Recoverable'
<1>1. edits' = 0
  BY NoOutside DEF Safe
<1>2. ReceiptComplete'
  BY SameReceipts DEF Safe, Recoverable, ReceiptComplete
<1>3. QED
  BY <1>1, <1>2 DEF Recoverable, Unfinished, AllRestorable

\* A call that ends leaves the files and records as they are.
LEMMA EndSafe ==
  ASSUME MaxEdits = 0, Safe, [Next]_vars, ~PublishReceipt, Release, UNCHANGED <<src, store>>
  PROVE  Recoverable'
<1>1. AtStep'
  BY DEF Release, AtStep, StageSteps, RollbackSteps
<1>2. Unfinished' = Unfinished /\ \A t \in Unfinished : journal[t] # "whole" => receipt[t] = "none" /\ staged[t] = NoFiles
  BY DEF store, Unfinished, Committed, Safe, Recoverable, Restorable
<1>3. QED
  BY <1>1, <1>2, StaysRestorable, Assemble DEF store, Safe

\* So does one that goes on.
LEMMA GoOnSafe ==
  ASSUME MaxEdits = 0, Safe, [Next]_vars, ~PublishReceipt, UNCHANGED <<src, store>>, AtStep'
  PROVE  Recoverable'
<1>1. Unfinished' = Unfinished /\ \A t \in Unfinished : journal[t] # "whole" => receipt[t] = "none" /\ staged[t] = NoFiles
  BY DEF store, Unfinished, Committed, Safe, Recoverable, Restorable
<1>2. QED
  BY <1>1, StaysRestorable, Assemble DEF store, Safe

\* Every folder is explained by its records.
LEMMA Explained == ASSUME Safe, NEW t \in TxIds, t \in folders PROVE ~Unexplained(t)
<1>1. CASE receipt[t] = "whole"
  BY <1>1 DEF Safe, Recoverable, ReceiptComplete, Committed, Unexplained
<1>2. CASE receipt[t] # "whole"
  <2>1. Restorable(t)
    BY <1>2 DEF Safe, Recoverable, Committed
  <2>2. journal[t] # "whole" => receipt[t] = "none" /\ StagedIn(t) = {}
    BY <2>1, NothingStaged DEF Restorable, Safe, Owned
  <2>3. QED
    BY <1>2, <2>2 DEF Unexplained
<1>3. QED
  BY <1>1, <1>2

LEMMA NeverRefuses == ASSUME Safe, NEW t \in TxIds PROVE ~RecoverRefuses(t)
  BY Explained DEF RecoverRefuses, Safe, Owned, OwnsCurrent

LEMMA RecoverCommittedSafe ==
  ASSUME MaxEdits = 0, Safe, [Next]_vars, NEW t \in TxIds, RecoverCommitted(t) PROVE Recoverable'
<1>1. ~PublishReceipt
  BY DEF RecoverCommitted, PublishReceipt
<1>2. Committed' = Committed /\ folders' = folders
  BY <1>1, SameReceipts DEF Safe, RecoverCommitted
<1>3. AtStep'
  BY <1>2 DEF RecoverCommitted, Safe, Recoverable, AtStep, Committed, StageSteps, RollbackSteps
<1>4. \A s \in Unfinished' : /\ s # t /\ s \in TxIds /\ journal'[s] = journal[s] /\ receipt'[s] = receipt[s]
                             /\ Restorable(s) /\ entry' = entry /\ staged' = staged /\ src' = src
  BY <1>2 DEF RecoverCommitted, Unfinished, Committed, Safe, Recoverable, Owned, TypeOK
<1>5. QED
  BY <1>1, <1>2, <1>3, <1>4, StaysRestorable, Assemble
     DEF Unfinished, Restorable, RecoverCommitted, Safe

LEMMA RecoverJournaledSafe ==
  ASSUME MaxEdits = 0, Safe, [Next]_vars, NEW t \in TxIds, RecoverJournaled(t) PROVE Recoverable'
<1>1. ~PublishReceipt /\ UNCHANGED <<src, store>>
  BY DEF RecoverJournaled, PublishReceipt
<1>2. Committed' = Committed
  BY <1>1, SameReceipts DEF Safe
<1>3. folders \ Committed = {t}
  BY DEF RecoverJournaled, Committed, Safe, Recoverable, Owned, OwnsCurrent
<1>4. cur' = t /\ todo' = todo /\ t \in todo /\ pc' = "validate" /\ folders' = folders
  BY <1>1 DEF RecoverJournaled, store
<1>5. AtStep'
  BY <1>2, <1>3, <1>4 DEF AtStep, StageSteps, RollbackSteps
<1>6. QED
  BY <1>1, <1>5, GoOnSafe

LEMMA RecoverUnpublishedSafe ==
  ASSUME MaxEdits = 0, Safe, [Next]_vars, NEW t \in TxIds, RecoverUnpublished(t) PROVE Recoverable'
<1>1. ~PublishReceipt
  BY DEF RecoverUnpublished, PublishReceipt
<1>2. Committed' = Committed
  BY <1>1, SameReceipts DEF Safe
<1>3. staged[t] = NoFiles /\ receipt[t] = "none" /\ UNCHANGED <<src, receipt, staged, pc, cur>> /\ pc = "recover"
  BY NothingStaged DEF RecoverUnpublished, Safe, Owned
<1>4. CASE journal[t] = "tmp"
  <2>1. UNCHANGED <<folders, entry, todo>> /\ journal' = [journal EXCEPT ![t] = "none"]
    BY <1>4 DEF RecoverUnpublished
  <2>2. AtStep'
    BY <1>2, <1>3, <2>1 DEF Safe, Recoverable, AtStep, StageSteps, RollbackSteps
  <2>3. \A s \in Unfinished' : journal'[s] # "whole" => receipt'[s] = "none" /\ staged'[s] = NoFiles
    BY <1>2, <1>3, <2>1 DEF Unfinished, Safe, Recoverable, Restorable, Owned, TypeOK
  <2>4. QED
    BY <1>1, <1>2, <1>3, <2>1, <2>2, <2>3, StaysRestorable, Assemble DEF Unfinished, Safe
<1>5. CASE journal[t] # "tmp"
  <2>1. /\ folders' = folders \ {t} /\ todo' = todo \ {t} /\ UNCHANGED journal
        /\ entry' = [entry EXCEPT ![t] = NoFiles]
    BY <1>5 DEF RecoverUnpublished
  <2>2. AtStep'
    BY <1>2, <1>3, <2>1 DEF Safe, Recoverable, AtStep, StageSteps, RollbackSteps
  <2>3. Unfinished' = Unfinished \ {t}
    BY <1>2, <2>1 DEF Unfinished
  <2>4. \A s \in Unfinished' : /\ entry'[s] = entry[s]
                               /\ journal'[s] # "whole" => receipt'[s] = "none" /\ staged'[s] = NoFiles
    BY <1>3, <2>1, <2>3 DEF Unfinished, Safe, Recoverable, Restorable, Owned, TypeOK
  <2>5. QED
    BY <1>1, <1>3, <2>2, <2>3, <2>4, StaysRestorable, Assemble DEF Safe
<1>6. QED
  BY <1>4, <1>5

LEMMA RecoverDoneSafe ==
  ASSUME MaxEdits = 0, Safe, [Next]_vars, RecoverDone PROVE Recoverable'
<1>1. ~PublishReceipt /\ UNCHANGED <<src, store>>
  BY DEF RecoverDone, PublishReceipt
<1>2. Committed' = Committed /\ folders' = folders
  BY <1>1, SameReceipts DEF Safe, store
<1>3. folders = Committed
  BY DEF RecoverDone, Safe, Recoverable, AtStep, Committed
<1>4. CASE Release
  BY <1>1, <1>4, EndSafe
<1>5. CASE ~Release
  <2>1. pc' \in {"lookup", "favorite"}
    BY <1>5 DEF RecoverDone, Answer, Goto
  <2>2. AtStep'
    BY <1>2, <1>3, <2>1 DEF AtStep, StageSteps, RollbackSteps
  <2>3. QED
    BY <1>1, <2>2, GoOnSafe
<1>6. QED
  BY <1>4, <1>5

LEMMA RecoverySafe == ASSUME MaxEdits = 0, Safe, [Next]_vars, Recovery PROVE Recoverable'
  BY NeverRefuses, RecoverCommittedSafe, RecoverJournaledSafe, RecoverUnpublishedSafe, RecoverDoneSafe DEF Recovery

-----------------------------------------------------------------------------
(* Rollback.                                                                *)

\* The transaction being staged or rolled back is the only unfinished one.
LEMMA CurrentIs ==
  ASSUME Safe, pc \in StageSteps \cup RollbackSteps
  PROVE  /\ cur \in TxIds /\ cur \in folders /\ cur \notin Committed /\ Unfinished = {cur}
         /\ Restorable(cur) /\ target[cur] \in Targets \cup {None}
  BY DEF Safe, Owned, OwnsCurrent, TypeOK, Recoverable, AtStep, Unfinished, Committed

LEMMA NoClash == ASSUME Safe, pc = "validate" PROVE ~Clash(cur)
  BY CurrentIs DEF Clash, Named, Restorable, RollbackSteps

\* Nothing stands in the way of a file that goes back.
LEMMA PlaceIsFree ==
  ASSUME Safe, pc = "restore", NEW f \in pend
  PROVE  f \in Files /\ src[f] = 0 /\ staged[cur][f] = entry[cur][f] /\ entry[cur][f] # 0
  BY CurrentIs DEF Safe, Recoverable, AtStep, StagedIn, Restorable, RollbackSteps

LEMMA RollbackValidateSafe ==
  ASSUME MaxEdits = 0, Safe, [Next]_vars, RollbackValidate PROVE Recoverable'
<1>1. ~PublishReceipt /\ UNCHANGED <<src, store>> /\ pc = "validate"
  BY DEF RollbackValidate, PublishReceipt
<1>2. Committed' = Committed /\ UNCHANGED <<folders, staged, entry>>
  BY <1>1, SameReceipts DEF Safe, store
<1>3. pend' = Named(cur) \cap StagedIn(cur) /\ pc' = "restore" /\ UNCHANGED <<cur, todo, undo>>
  BY <1>1, NoClash DEF RollbackValidate
<1>4. Named(cur) \cap StagedIn(cur) = StagedIn(cur)
  BY <1>1, CurrentIs DEF Restorable, Named, StagedIn, RollbackSteps
<1>5. folders \ Committed = {cur} /\ (undo = "recovery" => cur \in todo)
  BY <1>1 DEF Safe, Recoverable, AtStep, RollbackSteps
<1>6. AtStep'
  BY <1>2, <1>3, <1>4, <1>5 DEF AtStep, StageSteps, RollbackSteps, StagedIn
<1>7. QED
  BY <1>1, <1>6, GoOnSafe

LEMMA RollbackMoveSafe ==
  ASSUME MaxEdits = 0, Safe, [Next]_vars, NEW f \in Files, RollbackMove(f) PROVE Recoverable'
<1>1. ~PublishReceipt /\ pc = "restore" /\ f \in pend
  BY DEF RollbackMove, PublishReceipt
<1>2. /\ src[f] = 0 /\ staged[cur][f] = entry[cur][f] /\ entry[cur][f] # 0
      /\ cur \in TxIds /\ Unfinished = {cur} /\ Restorable(cur)
  BY <1>1, PlaceIsFree, CurrentIs DEF RollbackSteps
<1>3. /\ src' = [src EXCEPT ![f] = staged[cur][f]] /\ staged' = [staged EXCEPT ![cur][f] = 0]
      /\ pend' = pend \ {f} /\ UNCHANGED <<pc, cur, todo, undo, folders, journal, receipt, entry>>
  BY <1>2 DEF RollbackMove
<1>4. Committed' = Committed /\ Unfinished' = Unfinished
  BY <1>1, <1>3, SameReceipts DEF Safe, Unfinished
<1>5. staged'[cur] = [staged[cur] EXCEPT ![f] = 0]
  BY <1>2, <1>3 DEF Safe, Owned, TypeOK
<1>6. Restorable(cur)'
  <2>1. ASSUME NEW g \in Files
        PROVE  \/ entry[cur][g] = 0 /\ staged'[cur][g] = 0
               \/ entry[cur][g] # 0 /\ staged'[cur][g] = 0 /\ src'[g] = entry[cur][g]
               \/ entry[cur][g] # 0 /\ staged'[cur][g] = entry[cur][g] /\ src'[g] = 0
    BY <1>2, <1>3, <1>5 DEF Restorable, Safe, Owned, TypeOK
  <2>2. journal[cur] # "whole" => receipt[cur] = "none" /\ staged'[cur] = NoFiles
    BY <1>2, <1>3, <1>5 DEF Restorable, NoFiles
  <2>3. QED
    BY <1>3, <2>1, <2>2 DEF Restorable
<1>7. AllRestorable'
  BY <1>2, <1>3, <1>4, <1>6 DEF AllRestorable
<1>8. pend' = StagedIn(cur)'
  BY <1>1, <1>2, <1>3, <1>5 DEF Safe, Recoverable, AtStep, StagedIn, Owned, TypeOK
<1>9. AtStep'
  BY <1>1, <1>2, <1>3, <1>4, <1>8 DEF Safe, Recoverable, AtStep, StageSteps, RollbackSteps, Unfinished
<1>10. QED
  BY <1>1, <1>7, <1>9, Assemble

LEMMA RollbackMovedSafe ==
  ASSUME MaxEdits = 0, Safe, [Next]_vars, RollbackMoved PROVE Recoverable'
<1>1. ~PublishReceipt /\ UNCHANGED <<src, store>> /\ pc = "restore" /\ pend = {}
      /\ pc' = "drop_tmp" /\ UNCHANGED <<cur, todo, undo>>
  BY DEF RollbackMoved, PublishReceipt, Goto
<1>2. Committed' = Committed /\ UNCHANGED <<folders, staged, entry>>
  BY <1>1, SameReceipts DEF Safe, store
<1>3. staged[cur] = NoFiles /\ Unfinished = {cur}
  BY <1>1, CurrentIs, NothingStaged DEF Safe, Recoverable, AtStep, RollbackSteps, Owned
<1>4. AtStep'
  BY <1>1, <1>2, <1>3 DEF Safe, Recoverable, AtStep, StageSteps, RollbackSteps, Unfinished
<1>5. QED
  BY <1>1, <1>4, GoOnSafe

\* The three unlinks: what is left still explains an empty folder.
LEMMA DropRecordSafe ==
  ASSUME MaxEdits = 0, Safe, [Next]_vars, DropJournalTmp \/ DropReceiptTmp \/ DropJournal PROVE Recoverable'
<1>1. ~PublishReceipt /\ UNCHANGED <<src, folders, entry, staged, cur, todo, undo>>
      /\ pc \in {"drop_tmp", "drop_receipt", "drop_journal"}
  BY DEF DropJournalTmp, DropReceiptTmp, DropJournal, PublishReceipt, Goto
<1>2. staged[cur] = NoFiles /\ Unfinished = {cur} /\ Restorable(cur) /\ cur \in TxIds
  BY <1>1, CurrentIs DEF Safe, Recoverable, AtStep, RollbackSteps
<1>3. Committed' = Committed /\ Unfinished' = Unfinished
  BY <1>1, SameReceipts DEF Safe, Unfinished
<1>4. journal'[cur] # "whole" => receipt'[cur] = "none"
  BY <1>2 DEF DropJournalTmp, DropReceiptTmp, DropJournal, Restorable, Safe, Owned, TypeOK, Recoverable, AtStep
<1>5. AllRestorable'
  BY <1>1, <1>2, <1>3, <1>4, StaysRestorable DEF Safe
<1>6. pc' \in {"drop_receipt", "drop_journal", "drop_folder"}
      /\ (pc' \in {"drop_journal", "drop_folder"} => receipt'[cur] = "none")
  BY <1>2 DEF DropJournalTmp, DropReceiptTmp, DropJournal, Goto, Safe, Owned, TypeOK, Recoverable, AtStep
<1>7. AtStep'
  BY <1>1, <1>2, <1>3, <1>6 DEF Safe, Recoverable, AtStep, StageSteps, RollbackSteps, Unfinished
<1>8. QED
  BY <1>1, <1>5, <1>7, Assemble

LEMMA DropFolderSafe ==
  ASSUME MaxEdits = 0, Safe, [Next]_vars, DropFolder PROVE Recoverable'
<1>1. ~PublishReceipt /\ pc = "drop_folder" /\ UNCHANGED <<src, journal, receipt, staged>>
      /\ folders' = folders \ {cur}
  BY DEF DropFolder, PublishReceipt
<1>2. Unfinished = {cur} /\ (undo = "recovery" => cur \in todo)
  BY <1>1, CurrentIs DEF RollbackSteps, Safe, Recoverable, AtStep
<1>3. Committed' = Committed /\ Unfinished' = {}
  BY <1>1, <1>2, SameReceipts DEF Safe, Unfinished
<1>4. AtStep'
  BY <1>1, <1>3 DEF DropFolder, Answer, Release, AtStep, StageSteps, RollbackSteps, Unfinished
<1>5. QED
  BY <1>1, <1>3, <1>4, Assemble DEF AllRestorable

LEMMA RollbackSafe == ASSUME MaxEdits = 0, Safe, [Next]_vars, Rollback PROVE Recoverable'
  BY RollbackValidateSafe, RollbackMoveSafe, RollbackMovedSafe, DropRecordSafe, DropFolderSafe DEF Rollback

-----------------------------------------------------------------------------
(* Deletion.                                                                *)

\* An item that is not allowed to go without a file has one.
LEMMA ListedHasFile ==
  ASSUME NEW d \in Targets, d \notin AllowEmpty, Visible(d)
  PROVE  \E f \in FilesOf(d) : src[f] # 0
<1>1. d \in Items /\ d \notin Batches
  BY HistoryAssumption DEF Targets
<1>2. Sidecar[d] \in Files /\ Owner[Sidecar[d]] = d
  BY <1>1, HistoryAssumption
<1>3. Sidecar[d] \in FilesOf(d)
  BY <1>1, <1>2 DEF FilesOf, OwnersOf
<1>4. QED
  BY <1>2, <1>3 DEF Visible

LEMMA DeleteLookupSafe ==
  ASSUME MaxEdits = 0, Safe, [Next]_vars, DeleteLookup PROVE Recoverable'
<1>1. ~PublishReceipt /\ UNCHANGED <<src, store>> /\ pc = "lookup" /\ tgt \in Targets
  BY DEF DeleteLookup, PublishReceipt, Safe, Owned, OwnsCurrent
<1>2. CASE Release
  BY <1>1, <1>2, EndSafe
<1>3. CASE ~Release
  <2>1. /\ tgt \in AllowEmpty \/ Visible(tgt)
        /\ pend' = FilesOf(tgt) /\ pc' = "measure" /\ tgt' = tgt /\ src' = src
    BY <1>1, <1>3 DEF DeleteLookup, Answer
  <2>2. tgt' \notin AllowEmpty => \E f \in pend' : src'[f] # 0
    BY <1>1, <2>1, ListedHasFile
  <2>3. (folders = Committed)'
    BY <1>1 DEF Safe, Recoverable, AtStep, Committed, store
  <2>4. AtStep'
    BY <2>1, <2>2, <2>3 DEF AtStep, StageSteps, RollbackSteps
  <2>5. QED
    BY <1>1, <2>4, GoOnSafe
<1>4. QED
  BY <1>2, <1>3

LEMMA DeleteMeasureSafe ==
  ASSUME MaxEdits = 0, Safe, [Next]_vars, DeleteMeasure PROVE Recoverable'
<1>1. ~PublishReceipt /\ Release /\ UNCHANGED <<src, store>>
  BY DEF DeleteMeasure, PublishReceipt, Answer
<1>2. QED
  BY <1>1, EndSafe

LEMMA DeleteMkdirSafe ==
  ASSUME MaxEdits = 0, Safe, [Next]_vars, NEW x \in TxIds, DeleteMkdir(x) PROVE Recoverable'
<1>1. ~PublishReceipt /\ pc = "measure" /\ x \notin folders /\ folders' = folders \cup {x} /\ cur' = x
      /\ pc' = "journal_tmp" /\ UNCHANGED <<src, journal, receipt, staged>>
      /\ entry' = [entry EXCEPT ![x] = [f \in Files |-> IF f \in Found THEN src[f] ELSE 0]]
  BY DEF DeleteMkdir, PublishReceipt
<1>2. journal[x] = "none" /\ receipt[x] = "none" /\ staged[x] = NoFiles
  BY <1>1 DEF Safe, Owned, OwnsCurrent
<1>3. folders = Committed /\ Found \subseteq Files /\ \A f \in Found : src[f] # 0
  BY <1>1 DEF Safe, Recoverable, AtStep, Found, Owned, TypeOK
<1>4. Committed' = Committed /\ Unfinished' = {x}
  BY <1>1, <1>3, SameReceipts DEF Safe, Unfinished
<1>5. Restorable(x)'
  <2>1. ASSUME NEW f \in Files
        PROVE  \/ entry'[x][f] = 0 /\ staged'[x][f] = 0
               \/ entry'[x][f] # 0 /\ staged'[x][f] = 0 /\ src'[f] = entry'[x][f]
    BY <1>1, <1>2, <1>3 DEF NoFiles, Safe, Owned, TypeOK
  <2>2. QED
    BY <1>1, <1>2, <2>1 DEF Restorable
<1>6. pend' = Named(cur)' \ StagedIn(cur)'
  BY <1>1, <1>2, <1>3 DEF DeleteMkdir, Named, StagedIn, NoFiles, Safe, Owned, TypeOK
<1>7. AtStep'
  BY <1>1, <1>2, <1>4, <1>6 DEF AtStep, StageSteps, RollbackSteps, Unfinished
<1>8. QED
  BY <1>1, <1>4, <1>5, <1>7, Assemble DEF AllRestorable

\* Writing and publishing the records of the transaction.
LEMMA WriteRecordSafe ==
  ASSUME MaxEdits = 0, Safe, [Next]_vars, WriteJournalTmp \/ PublishJournal \/ WriteReceiptTmp PROVE Recoverable'
<1>1. ~PublishReceipt /\ UNCHANGED <<src, folders, entry, staged, cur, todo, undo, pend, moving, tgt>>
      /\ pc \in {"journal_tmp", "journal", "receipt_tmp"}
  BY DEF WriteJournalTmp, PublishJournal, WriteReceiptTmp, PublishReceipt, Goto
<1>2. Unfinished = {cur} /\ Restorable(cur) /\ cur \in TxIds
      /\ (pc \in {"journal_tmp", "journal"} => (pend = Named(cur) \ StagedIn(cur))')
  BY <1>1, CurrentIs DEF StageSteps, Safe, Recoverable, AtStep, Named, StagedIn
<1>3. Committed' = Committed /\ Unfinished' = Unfinished
  BY <1>1, SameReceipts DEF Safe, Unfinished
<1>4. CASE WriteJournalTmp
  <2>1. pc' = "journal" /\ journal'[cur] = "tmp" /\ receipt'[cur] = "none" /\ staged'[cur] = NoFiles
    BY <1>1, <1>2, <1>4 DEF WriteJournalTmp, Goto, Safe, Recoverable, AtStep, Owned, TypeOK
  <2>2. (pend = Named(cur) \ StagedIn(cur))'
    BY <1>2, <1>4 DEF WriteJournalTmp
  <2>3. AtStep'
    BY <1>1, <1>2, <1>3, <2>1, <2>2 DEF AtStep, StageSteps, RollbackSteps, Unfinished
  <2>4. AllRestorable'
    BY <1>1, <1>2, <1>3, <2>1, StaysRestorable DEF Safe
  <2>5. QED
    BY <1>1, <2>3, <2>4, Assemble
<1>5. CASE PublishJournal
  <2>1. pc' = "move" /\ journal'[cur] = "whole" /\ receipt'[cur] = "none" /\ staged[cur] = NoFiles
    BY <1>1, <1>2, <1>5 DEF PublishJournal, Goto, Safe, Recoverable, AtStep, Owned, TypeOK
  <2>2. (pend = Named(cur) \ StagedIn(cur))'
    BY <1>2, <1>5 DEF PublishJournal
  <2>3. AtStep'
    BY <1>1, <1>2, <1>3, <2>1, <2>2 DEF AtStep, StageSteps, RollbackSteps, Unfinished
  <2>4. AllRestorable'
    BY <1>1, <1>2, <1>3, <2>1, StaysRestorable DEF Safe
  <2>5. QED
    BY <1>1, <2>3, <2>4, Assemble
<1>6. CASE WriteReceiptTmp
  <2>1. pc' = "receipt" /\ journal'[cur] = "whole" /\ Named(cur) = StagedIn(cur)
    BY <1>1, <1>2, <1>6 DEF WriteReceiptTmp, Goto, Safe, Recoverable, AtStep, Owned, TypeOK
  <2>2. AtStep'
    BY <1>1, <1>2, <1>3, <2>1 DEF AtStep, StageSteps, RollbackSteps, Unfinished, Named, StagedIn
  <2>3. AllRestorable'
    BY <1>1, <1>2, <1>3, <2>1, StaysRestorable DEF Safe
  <2>4. QED
    BY <1>1, <2>2, <2>3, Assemble
<1>7. QED
  BY <1>4, <1>5, <1>6

\* A deletion that gives up goes to the rollback with its transaction.
LEMMA GiveUpAtStep ==
  ASSUME Safe, pc \in StageSteps, GiveUp, Committed' = Committed, UNCHANGED <<folders, staged>>
  PROVE  AtStep'
<1>1. Unfinished = {cur}
  BY CurrentIs
<1>2. pc' = "validate" /\ undo' = "failure" /\ cur' = cur
  BY DEF GiveUp
<1>3. QED
  BY <1>1, <1>2 DEF AtStep, StageSteps, RollbackSteps, Unfinished

LEMMA StageCheckSafe ==
  ASSUME MaxEdits = 0, Safe, [Next]_vars, NEW f \in Files, StageCheck(f) PROVE Recoverable'
<1>1. ~PublishReceipt /\ UNCHANGED <<src, store>> /\ pc = "move" /\ f \in pend
  BY DEF StageCheck, PublishReceipt
<1>2. Committed' = Committed /\ UNCHANGED <<folders, journal, receipt, staged, entry>>
  BY <1>1, SameReceipts DEF Safe, store
<1>3. CASE GiveUp
  BY <1>1, <1>2, <1>3, GiveUpAtStep, GoOnSafe DEF StageSteps
<1>4. CASE ~GiveUp
  <2>1. moving' = f /\ pc' = "rename" /\ UNCHANGED <<cur, pend>>
    BY <1>1, <1>4 DEF StageCheck
  <2>2. Unfinished = {cur}
    BY <1>1, CurrentIs DEF StageSteps
  <2>3. AtStep'
    BY <1>1, <1>2, <2>1, <2>2
       DEF Safe, Recoverable, AtStep, StageSteps, RollbackSteps, Unfinished, Named, StagedIn
  <2>4. QED
    BY <1>1, <2>3, GoOnSafe
<1>5. QED
  BY <1>3, <1>4

LEMMA StageRenameSafe ==
  ASSUME MaxEdits = 0, Safe, [Next]_vars, StageRename PROVE Recoverable'
<1>1. ~PublishReceipt /\ pc = "rename"
  BY DEF StageRename, PublishReceipt
<1>2. /\ cur \in TxIds /\ Unfinished = {cur} /\ Restorable(cur)
      /\ moving \in pend /\ pend = Named(cur) \ StagedIn(cur)
      /\ journal[cur] = "whole" /\ receipt[cur] = "none"
  BY <1>1, CurrentIs DEF StageSteps, Safe, Recoverable, AtStep
<1>3. moving \in Files /\ entry[cur][moving] # 0 /\ staged[cur][moving] = 0 /\ src[moving] = entry[cur][moving]
  BY <1>2 DEF Restorable, Named, StagedIn
<1>4. /\ src' = [src EXCEPT ![moving] = 0] /\ staged' = [staged EXCEPT ![cur][moving] = src[moving]]
      /\ pend' = pend \ {moving} /\ pc' = "move" /\ UNCHANGED <<cur, folders, journal, receipt, entry>>
  BY <1>3 DEF StageRename
<1>5. Committed' = Committed /\ Unfinished' = Unfinished
  BY <1>1, <1>4, SameReceipts DEF Safe, Unfinished
<1>6. staged'[cur] = [staged[cur] EXCEPT ![moving] = src[moving]]
  BY <1>2, <1>4 DEF Safe, Owned, TypeOK
<1>7. Restorable(cur)'
  <2>1. ASSUME NEW g \in Files
        PROVE  \/ entry[cur][g] = 0 /\ staged'[cur][g] = 0
               \/ entry[cur][g] # 0 /\ staged'[cur][g] = 0 /\ src'[g] = entry[cur][g]
               \/ entry[cur][g] # 0 /\ staged'[cur][g] = entry[cur][g] /\ src'[g] = 0
    BY <1>2, <1>3, <1>4, <1>6 DEF Restorable, Safe, Owned, TypeOK
  <2>2. QED
    BY <1>2, <1>4, <2>1 DEF Restorable
<1>8. (pend = Named(cur) \ StagedIn(cur))'
  BY <1>2, <1>3, <1>4, <1>6 DEF Named, StagedIn, Safe, Owned, TypeOK
<1>9. AtStep'
  BY <1>2, <1>4, <1>5, <1>8 DEF AtStep, StageSteps, RollbackSteps, Unfinished
<1>10. QED
  BY <1>1, <1>2, <1>4, <1>5, <1>7, <1>9, Assemble DEF AllRestorable

LEMMA StageDoneSafe ==
  ASSUME MaxEdits = 0, Safe, [Next]_vars, StageDone PROVE Recoverable'
<1>1. ~PublishReceipt /\ UNCHANGED <<src, store>> /\ pc = "move" /\ pend = {} /\ pc' = "receipt_tmp" /\ cur' = cur
  BY DEF StageDone, PublishReceipt, Goto
<1>2. Committed' = Committed /\ UNCHANGED <<folders, journal, receipt, staged, entry>>
  BY <1>1, SameReceipts DEF Safe, store
<1>3. Unfinished = {cur} /\ Restorable(cur) /\ Named(cur) \subseteq StagedIn(cur)
      /\ journal[cur] = "whole" /\ receipt[cur] = "none"
  BY <1>1, CurrentIs DEF StageSteps, Safe, Recoverable, AtStep
<1>4. (Named(cur) = StagedIn(cur))'
  BY <1>1, <1>2, <1>3 DEF Restorable, Named, StagedIn
<1>5. AtStep'
  BY <1>1, <1>2, <1>3, <1>4 DEF AtStep, StageSteps, RollbackSteps, Unfinished
<1>6. QED
  BY <1>1, <1>5, GoOnSafe

\* The commit point: the folder holds every file its record names.
LEMMA PublishReceiptSafe ==
  ASSUME MaxEdits = 0, Safe, [Next]_vars, PublishReceipt PROVE Recoverable'
<1>1. /\ cur \in folders /\ Committed' = Committed \cup {cur} /\ UNCHANGED <<src, folders, entry, staged>>
      /\ pc = "receipt" /\ pc' = "cleanup" /\ cur \in TxIds
  BY NewReceipt, CurrentIs DEF PublishReceipt, Goto, StageSteps, Safe
<1>2. Unfinished = {cur} /\ Restorable(cur) /\ Named(cur) = StagedIn(cur)
  BY <1>1, CurrentIs DEF StageSteps, Safe, Recoverable, AtStep
<1>3. \A f \in Files : staged[cur][f] = entry[cur][f]
  BY <1>2 DEF Restorable, Named, StagedIn
<1>4. staged[cur] = entry[cur]
  BY <1>1, <1>3 DEF Safe, Owned, TypeOK
<1>5. ReceiptComplete'
  BY <1>1, <1>4 DEF Safe, Recoverable, ReceiptComplete
<1>6. (folders = Committed)'
  BY <1>1, <1>2 DEF Unfinished, Committed
<1>7. AtStep'
  BY <1>1, <1>6 DEF AtStep, StageSteps, RollbackSteps
<1>8. edits' = 0
  BY NoOutside DEF Safe
<1>9. QED
  BY <1>5, <1>6, <1>7, <1>8 DEF Recoverable

LEMMA CleanUpSafe ==
  ASSUME MaxEdits = 0, Safe, [Next]_vars, CleanUp PROVE Recoverable'
<1>1. ~PublishReceipt /\ pc = "cleanup" /\ UNCHANGED <<src, folders, entry, staged>> /\ Release
  BY DEF CleanUp, PublishReceipt, Answer
<1>2. Committed' = Committed /\ Unfinished' = {}
  BY <1>1, SameReceipts DEF Safe, Recoverable, AtStep, Unfinished
<1>3. AtStep'
  BY <1>1 DEF Release, AtStep, StageSteps, RollbackSteps
<1>4. QED
  BY <1>1, <1>2, <1>3, Assemble DEF AllRestorable

LEMMA DeleteSafe == ASSUME MaxEdits = 0, Safe, [Next]_vars, Delete PROVE Recoverable'
  BY DeleteLookupSafe, DeleteMeasureSafe, DeleteMkdirSafe, WriteRecordSafe, StageCheckSafe, StageRenameSafe,
     StageDoneSafe, PublishReceiptSafe, CleanUpSafe DEF Delete

LEMMA FavoriteSafe == ASSUME MaxEdits = 0, Safe, [Next]_vars, Favorite \/ FavoriteWritten PROVE Recoverable'
<1>1. ~PublishReceipt /\ folders = Committed /\ UNCHANGED store /\ pc' \in {"idle", "rewrite"}
  BY DEF Favorite, FavoriteWritten, PublishReceipt, Safe, Recoverable, AtStep, Answer, Release, Goto
<1>2. Committed' = Committed /\ folders' = folders
  BY <1>1, SameReceipts DEF Safe, store
<1>3. AtStep'
  BY <1>1, <1>2 DEF AtStep, StageSteps, RollbackSteps
<1>4. QED
  BY <1>1, <1>2, <1>3, Assemble DEF AllRestorable, Unfinished

LEMMA FailDeletionSafe == ASSUME MaxEdits = 0, Safe, [Next]_vars, FailDeletion PROVE Recoverable'
<1>1. ~PublishReceipt /\ pc \in StageSteps /\ GiveUp /\ UNCHANGED <<src, folders, entry, staged>>
  BY DEF FailDeletion, PublishReceipt, StageSteps, GiveUp, Goto
<1>2. Committed' = Committed /\ Unfinished' = Unfinished
  BY <1>1, SameReceipts DEF Safe, Unfinished
<1>3. Unfinished = {cur} /\ Restorable(cur) /\ cur \in TxIds
  BY <1>1, CurrentIs
<1>4. AtStep'
  BY <1>1, <1>2, GiveUpAtStep
<1>5. journal'[cur] # "whole" => receipt'[cur] = "none" /\ staged[cur] = NoFiles
  BY <1>3 DEF FailDeletion, Restorable, Safe, Recoverable, AtStep, Owned, TypeOK
<1>6. AllRestorable'
  BY <1>1, <1>2, <1>3, <1>5, StaysRestorable DEF Safe
<1>7. QED
  BY <1>1, <1>4, <1>6, Assemble

LEMMA EndingSafe == ASSUME MaxEdits = 0, Safe, [Next]_vars, FailEarly \/ FailRecovery \/ Crash PROVE Recoverable'
<1>1. ~PublishReceipt /\ Release /\ UNCHANGED <<src, store>>
  BY DEF FailEarly, FailRecovery, Crash, PublishReceipt, Answer, Goto, Release
<1>2. QED
  BY <1>1, EndSafe

LEMMA RequestsSafe == ASSUME MaxEdits = 0, Safe, [Next]_vars, Requests \/ UNCHANGED vars PROVE Recoverable'
<1>1. ~PublishReceipt /\ UNCHANGED <<src, store>>
  BY DEF Requests, Enter, Busy, PublishReceipt, Goto, vars, work
<1>2. Committed' = Committed /\ UNCHANGED <<folders, journal, receipt, staged, entry>>
  BY <1>1, SameReceipts DEF Safe, store
<1>3. CASE UNCHANGED work
  BY <1>1, <1>2, <1>3, GoOnSafe
     DEF Safe, Recoverable, AtStep, StageSteps, RollbackSteps, Named, StagedIn, work
<1>4. CASE ~UNCHANGED work
  <2>1. pc' = "recover" /\ todo' = folders
    BY <1>4 DEF Requests, Enter, Busy, vars
  <2>2. AtStep'
    BY <1>2, <2>1 DEF AtStep, StageSteps, RollbackSteps
  <2>3. QED
    BY <1>1, <2>2, GoOnSafe
<1>5. QED
  BY <1>3, <1>4

LEMMA RecoverableStep == ASSUME MaxEdits = 0, Safe, [Next]_vars PROVE Recoverable'
  BY NoOutside, RecoverySafe, RollbackSafe, DeleteSafe, FavoriteSafe, FailDeletionSafe, EndingSafe, RequestsSafe
     DEF Next, Work, Safe

\* Most steps keep that the deletion takes all there is.
LEMMA TakesFollow ==
  ASSUME Safe, [Next]_vars, ~PublishReceipt, nextv' # 0,
         pc' \in StageSteps => /\ pc \in StageSteps /\ tgt' = tgt /\ cur' = cur /\ entry' = entry
                               /\ \A f \in Files : src'[f] # 0 => src[f] # 0,
         pc' = "measure" => /\ pc = "measure" /\ tgt' = tgt /\ src' = src
                            /\ \A f \in pend : src[f] # 0 => f \in pend'
  PROVE  TakesAll'
<1>1. Flagged' = Flagged
  BY SameReceipts DEF Safe
<1>2. (pc = "measure" => \A f \in FilesOf(tgt) : src[f] # 0 => f \in pend)'
  BY <1>1 DEF Safe, TakesAll, FilesOf, OwnersOf
<1>3. (pc \in StageSteps => \A f \in FilesOf(tgt) : src[f] # 0 => f \in Named(cur))'
  BY <1>1 DEF Safe, TakesAll, FilesOf, OwnersOf, Named, StageSteps
<1>4. QED
  BY <1>2, <1>3 DEF TakesAll

LEMMA MeasuredTakesAll ==
  ASSUME Safe, [Next]_vars, DeleteLookup \/ (\E x \in TxIds : DeleteMkdir(x)) PROVE TakesAll'
<1>1. Release \/ (Flagged' = Flagged /\ src' = src /\ tgt' = tgt)
  BY SameReceipts DEF Safe, DeleteLookup, DeleteMkdir, PublishReceipt, Answer
<1>2. nextv' # 0
  BY DEF Safe, TakesAll, DeleteLookup, DeleteMkdir, world
<1>3. CASE Release
  BY <1>2, <1>3 DEF Release, TakesAll, StageSteps
<1>4. CASE ~Release /\ DeleteLookup
  <2>1. pend' = FilesOf(tgt) /\ pc' = "measure"
    BY <1>4 DEF DeleteLookup, Answer
  <2>2. QED
    BY <1>1, <1>2, <1>4, <2>1 DEF TakesAll, FilesOf, OwnersOf, StageSteps
<1>5. CASE ~Release /\ \E x \in TxIds : DeleteMkdir(x)
  <2>1. PICK x \in TxIds : DeleteMkdir(x)
    BY <1>5
  <2>2. pc = "measure" /\ pc' = "journal_tmp" /\ cur' = x
        /\ entry'[x] = [f \in Files |-> IF f \in Found THEN src[f] ELSE 0]
    BY <2>1 DEF DeleteMkdir, Safe, Owned, TypeOK
  <2>3. \A f \in FilesOf(tgt) : src[f] # 0 => f \in Found
    BY <2>2 DEF Safe, TakesAll, Found
  <2>4. (\A f \in FilesOf(tgt) : src[f] # 0 => f \in Named(cur))'
    BY <1>1, <1>5, <2>2, <2>3 DEF FilesOf, OwnersOf, Named
  <2>5. QED
    BY <1>2, <2>2, <2>4 DEF TakesAll
<1>6. QED
  BY <1>3, <1>4, <1>5

LEMMA TakesAllStep == ASSUME MaxEdits = 0, Safe, [Next]_vars PROVE TakesAll'
<1> DEFINE Follows == /\ ~PublishReceipt /\ nextv' # 0
                      /\ pc' \in StageSteps => /\ pc \in StageSteps /\ tgt' = tgt /\ cur' = cur /\ entry' = entry
                                               /\ \A f \in Files : src'[f] # 0 => src[f] # 0
                      /\ pc' = "measure" => /\ pc = "measure" /\ tgt' = tgt /\ src' = src
                                         /\ \A f \in pend : src[f] # 0 => f \in pend'
<1> HIDE DEF Follows
<1>1. Follows => TakesAll'
  BY TakesFollow DEF Follows
<1>2. nextv # 0 /\ nextv \in Nat /\ src \in [Files -> Nat]
  BY DEF Safe, TakesAll, Owned, TypeOK
<1>3. CASE UNCHANGED vars \/ Requests
  <2>1. Follows
    BY <1>2, <1>3 DEF Follows, vars, store, work, world, Requests, Enter, Busy, PublishReceipt, Goto, StageSteps
  <2>2. QED
    BY <1>1, <2>1
<1>4. CASE Recovery
  <2>1. Follows
    BY <1>2, <1>4 DEF Follows, Recovery, RecoverCommitted, RecoverJournaled, RecoverUnpublished, RecoverRefuses,
                RecoverDone, PublishReceipt, Goto, Answer, Release, StageSteps, world
  <2>2. QED
    BY <1>1, <2>1
<1>5. CASE Rollback
  <2>1. Follows
    BY <1>2, <1>5 DEF Follows, Rollback, RollbackValidate, RollbackMove, RollbackMoved, DropJournalTmp,
                DropReceiptTmp, DropJournal, DropFolder, PublishReceipt, Goto, Answer, Release, StageSteps, world
  <2>2. QED
    BY <1>1, <2>1
<1>6. CASE DeleteMeasure
  <2>1. Follows
    BY <1>2, <1>6 DEF Follows, DeleteMeasure, PublishReceipt, Answer, Release, StageSteps, world
  <2>2. QED
    BY <1>1, <2>1
<1>7. CASE WriteJournalTmp \/ PublishJournal \/ StageDone \/ WriteReceiptTmp \/ CleanUp
  <2>1. Follows
    BY <1>2, <1>7 DEF Follows, WriteJournalTmp, PublishJournal, StageDone, WriteReceiptTmp, CleanUp,
                PublishReceipt, Answer, Release, Goto, StageSteps, store, world
  <2>2. QED
    BY <1>1, <2>1
<1>8. CASE StageRename \/ \E f \in Files : StageCheck(f)
  <2>1. pc \in {"move", "rename"} /\ pc' \in {"move", "rename", "validate"} /\ UNCHANGED <<tgt, cur, entry, nextv>>
    BY <1>8 DEF StageCheck, StageRename, GiveUp, store, world
  <2>2. src' = src \/ src' = [src EXCEPT ![moving] = 0]
    BY <1>8 DEF StageCheck, StageRename
  <2>3. \A f \in Files : src'[f] # 0 => src[f] # 0
    BY <1>2, <2>2
  <2>4. QED
    BY <1>1, <1>2, <2>1, <2>3 DEF Follows, PublishReceipt, StageSteps
<1>9. CASE PublishReceipt
  BY <1>2, <1>9 DEF PublishReceipt, Goto, TakesAll, StageSteps, world
<1>10. CASE Favorite \/ FavoriteWritten \/ FailEarly \/ FailDeletion \/ FailRecovery \/ Crash
  <2>1. pc' \notin StageSteps /\ pc' # "measure"
    BY <1>10 DEF Favorite, FavoriteWritten, FailEarly, FailDeletion, FailRecovery, Crash, Answer, Release, GiveUp,
                 Goto, StageSteps
  <2>2. nextv' # 0
    BY <1>2, <1>10 DEF Favorite, FavoriteWritten, FailEarly, FailDeletion, FailRecovery, Crash, Fault
  <2>3. QED
    BY <2>1, <2>2 DEF TakesAll
<1>11. QED
  BY <1>3, <1>4, <1>5, <1>6, <1>7, <1>8, <1>9, <1>10, MeasuredTakesAll, NoOutside DEF Next, Work, Delete, Safe

\* At every moment each unfinished transaction holds its files, or their
\* places are free to take them back, and a deletion takes all it should.
THEOREM SafeAlways == ASSUME MaxEdits = 0 PROVE Spec => []Safe
<1>1. Init => Safe
  BY OwnedInit, ClaimsInit, SafeInit DEF Safe
<1>2. Safe /\ [Next]_vars => Safe'
  BY OwnedStep, ClaimsStep, RecoverableStep, TakesAllStep DEF Safe
<1>3. QED
  BY <1>1, <1>2, PTL DEF Spec
-----------------------------------------------------------------------------
(* What callers and operators can rely on.                                  *)

\* A receipt is published only when every file it names is in the folder.
THEOREM ReceiptsComplete == ASSUME MaxEdits = 0 PROVE Spec => []ReceiptComplete
<1>1. Safe => ReceiptComplete
  BY DEF Safe, Recoverable
<1>2. QED
  BY <1>1, SafeAlways, PTL

\* A mutation of the history never starts on top of a half-done deletion.
THEOREM MutationsAreClean == ASSUME MaxEdits = 0 PROVE Spec => []MutatesCleanHistory
<1>1. Safe => MutatesCleanHistory
  BY DEF Safe, Recoverable, AtStep, MutatesCleanHistory
<1>2. QED
  BY <1>1, SafeAlways, PTL

\* The answer a step gives, when it gives one.
LEMMA Answers ==
  ASSUME [Next]_vars, reply' # reply
  PROVE  \/ reply'.code \notin {"conflict", "deleted", "restored"}
         \/ \E t \in TxIds : RecoverRefuses(t)
         \/ RollbackValidate /\ Clash(cur)
         \/ \E f \in Files : RollbackMove(f) /\ src[f] # 0
         \/ DropFolder /\ undo = "failure" /\ reply'.code = "restored"
         \/ DeleteLookup /\ tgt \in Flagged /\ reply' = [code |-> "deleted", tgt |-> tgt]
         \/ DeleteMeasure /\ tgt \notin AllowEmpty /\ Found = {}
         \/ CleanUp /\ reply' = [code |-> "deleted", tgt |-> tgt]
<1>1. CASE UNCHANGED vars \/ Requests
  BY <1>1 DEF vars, Requests, Enter, Busy, NoReply
<1>2. CASE Recovery
  BY <1>2 DEF Recovery, RecoverCommitted, RecoverJournaled, RecoverUnpublished, RecoverDone, Answer, Goto
<1>3. CASE Rollback
  BY <1>3 DEF Rollback, RollbackValidate, RollbackMove, RollbackMoved, DropJournalTmp, DropReceiptTmp, DropJournal,
              DropFolder, Answer, Goto
<1>4. CASE Delete
  BY <1>4 DEF Delete, DeleteLookup, DeleteMeasure, DeleteMkdir, WriteJournalTmp, PublishJournal, StageCheck,
              StageRename, StageDone, WriteReceiptTmp, PublishReceipt, CleanUp, Answer, Goto, GiveUp
<1>5. CASE Favorite \/ FavoriteWritten \/ FailEarly \/ FailDeletion \/ FailRecovery \/ Crash \/ \E f \in Files : Outside(f)
  BY <1>5 DEF Favorite, FavoriteWritten, FailEarly, FailDeletion, FailRecovery, Crash, Outside, Answer, Goto, GiveUp, work
<1>6. QED
  BY <1>1, <1>2, <1>3, <1>4, <1>5 DEF Next, Work

LEMMA NoConflictStep == ASSUME Safe, NoConflict, [Next]_vars PROVE NoConflict'
<1>1. ~\E t \in TxIds : RecoverRefuses(t)
  BY NeverRefuses
<1>2. ~(RollbackValidate /\ Clash(cur))
  BY NoClash DEF RollbackValidate
<1>3. ~\E f \in Files : RollbackMove(f) /\ src[f] # 0
  BY PlaceIsFree DEF RollbackMove
<1>4. DeleteMeasure /\ tgt \notin AllowEmpty => Found # {}
  BY DEF DeleteMeasure, Safe, Recoverable, AtStep, Found
<1>5. QED
  BY <1>1, <1>2, <1>3, <1>4, Answers DEF NoConflict

\* Whatever a crash or an error leaves behind can be put back.
THEOREM NoConflicts == ASSUME MaxEdits = 0 PROVE Spec => []NoConflict
<1>1. Init => NoConflict
  BY DEF Init, NoReply, NoConflict
<1>2. Safe /\ NoConflict /\ [Next]_vars => NoConflict'
  BY NoConflictStep
<1>3. QED
  BY <1>1, <1>2, SafeAlways, PTL DEF Spec

LEMMA AckedStep == ASSUME Safe, AckedIsCommitted, [Next]_vars PROVE AckedIsCommitted'
<1>1. Flagged \subseteq Flagged'
  BY SameReceipts, NewReceipt DEF Safe
<1>2. CASE reply' = reply
  BY <1>1, <1>2 DEF AckedIsCommitted
<1>3. CASE reply' # reply /\ reply'.code = "deleted"
  <2>1. ~(\E t \in TxIds : RecoverRefuses(t)) /\ ~(RollbackValidate /\ Clash(cur))
        /\ ~(\E f \in Files : RollbackMove(f) /\ src[f] # 0)
    BY NeverRefuses, NoClash, PlaceIsFree DEF RollbackValidate, RollbackMove
  <2>2. DeleteMeasure /\ tgt \notin AllowEmpty => Found # {}
    BY DEF DeleteMeasure, Safe, Recoverable, AtStep, Found
  <2>3. CleanUp => tgt \in Flagged
    <3>1. ASSUME CleanUp PROVE cur \in Committed /\ target[cur] = tgt
      BY <3>1 DEF CleanUp, Safe, Owned, OwnsCurrent
    <3>2. QED
      BY <3>1 DEF Flagged, Covers
  <2>4. reply'.tgt = tgt /\ tgt \in Flagged
    BY <1>3, <2>1, <2>2, <2>3, Answers
  <2>5. QED
    BY <1>1, <2>4 DEF AckedIsCommitted
<1>4. QED
  BY <1>2, <1>3 DEF AckedIsCommitted

\* A caller that was told "deleted" holds a receipt.
THEOREM AcksAreCommitted == ASSUME MaxEdits = 0 PROVE Spec => []AckedIsCommitted
<1>1. Init => AckedIsCommitted
  BY DEF Init, NoReply, AckedIsCommitted
<1>2. Safe /\ AckedIsCommitted /\ [Next]_vars => AckedIsCommitted'
  BY AckedStep
<1>3. QED
  BY <1>1, <1>2, SafeAlways, PTL DEF Spec

LEMMA RestoredStep ==
  ASSUME Safe, [Next]_vars, reply' # reply, reply'.code = "restored"
  PROVE  \A f \in Named(cur) : src'[f] = entry[cur][f]
<1>1. DropFolder
  <2>1. ~(\E t \in TxIds : RecoverRefuses(t)) /\ ~(RollbackValidate /\ Clash(cur))
        /\ ~(\E f \in Files : RollbackMove(f) /\ src[f] # 0)
    BY NeverRefuses, NoClash, PlaceIsFree DEF RollbackValidate, RollbackMove
  <2>2. DeleteMeasure /\ tgt \notin AllowEmpty => Found # {}
    BY DEF DeleteMeasure, Safe, Recoverable, AtStep, Found
  <2>3. QED
    BY <2>1, <2>2, Answers
<1>2. pc = "drop_folder" /\ src' = src
  BY <1>1 DEF DropFolder
<1>3. Restorable(cur) /\ staged[cur] = NoFiles
  BY <1>2, CurrentIs DEF RollbackSteps, Safe, Recoverable, AtStep
<1>4. QED
  BY <1>2, <1>3 DEF Restorable, Named, NoFiles

\* A caller that was told "restored" finds every file back in its place.
THEOREM RestoredMeansRestored == ASSUME MaxEdits = 0 PROVE Spec => RestoredIsRestored
<1>1. Safe /\ [Next]_vars => [(reply' # reply /\ reply'.code = "restored")
                                => \A f \in Named(cur) : src'[f] = entry[cur][f]]_vars
  BY RestoredStep
<1>2. QED
  BY <1>1, SafeAlways, PTL DEF Spec, RestoredIsRestored
-----------------------------------------------------------------------------
(* The protocol implements HistoryVault: publishing the receipt is the one   *)
(* step of the vault, every other step of the protocol is invisible to it.   *)

Present == {f \in Files : src[f] # 0 \/ \E t \in folders \ Committed : staged[t][f] # 0}
Trashed == {f \in Files : \E t \in Committed : staged[t][f] # 0}

LEMMA SamePresent ==
  ASSUME Unfinished' = Unfinished \/ (Unfinished' = {} /\ \A t \in Unfinished : staged[t] = NoFiles),
         \A f \in Files : src'[f] = 0 <=> src[f] = 0,
         \A t \in Unfinished' : staged'[t] = staged[t]
  PROVE  Present' = Present
<1>1. CASE Unfinished' = Unfinished
  BY <1>1 DEF Present, Unfinished
<1>2. CASE Unfinished' = {} /\ \A t \in Unfinished : staged[t] = NoFiles
  BY <1>2 DEF Present, Unfinished, NoFiles
<1>3. QED
  BY <1>1, <1>2

\* A rename between a place and the unfinished transaction's folder.
LEMMA RenamePresent ==
  ASSUME Safe, Unfinished = {cur}, Unfinished' = {cur}, cur' = cur, cur \in TxIds, NEW g \in Files,
         src' = [src EXCEPT ![g] = staged[cur][g]], staged' = [staged EXCEPT ![cur][g] = src[g]]
  PROVE  Present' = Present
<1>1. src'[g] = staged[cur][g] /\ staged'[cur] = [staged[cur] EXCEPT ![g] = src[g]]
      /\ staged[cur] \in [Files -> Nat] /\ src \in [Files -> Nat]
  BY DEF Safe, Owned, TypeOK
<1>2. ASSUME NEW f \in Files PROVE src'[f] # 0 \/ staged'[cur][f] # 0 <=> src[f] # 0 \/ staged[cur][f] # 0
  BY <1>1
<1>3. QED
  BY <1>2 DEF Present, Unfinished

LEMMA InvisibleStep ==
  ASSUME MaxEdits = 0, Safe, [Next]_vars, ~PublishReceipt PROVE Present' = Present
<1>1. Committed' = Committed
  BY SameReceipts DEF Safe
<1>2. CASE UNCHANGED <<src, folders, staged>>
  BY <1>1, <1>2, SamePresent DEF Unfinished
<1>3. ASSUME NEW t \in TxIds, RecoverUnpublished(t) PROVE Present' = Present
  <2>1. staged[t] = NoFiles /\ UNCHANGED <<src, staged>> /\ t \notin Committed /\ t \in folders
        /\ folders' \in {folders, folders \ {t}}
    BY <1>3, NothingStaged DEF RecoverUnpublished, Safe, Owned, OwnsCurrent, Committed
  <2>2. Unfinished' = Unfinished \/ (Unfinished' = {} /\ Unfinished = {t})
    BY <1>1, <2>1 DEF Unfinished, Safe, Recoverable
  <2>3. QED
    BY <2>1, <2>2, SamePresent
<1>4. ASSUME NEW f \in Files, RollbackMove(f) PROVE Present' = Present
  <2>1. cur \in TxIds /\ Unfinished = {cur} /\ src[f] = 0
    BY <1>4, CurrentIs, PlaceIsFree DEF RollbackMove, RollbackSteps
  <2>2. src' = [src EXCEPT ![f] = staged[cur][f]] /\ staged' = [staged EXCEPT ![cur][f] = src[f]]
        /\ UNCHANGED <<folders, cur>>
    BY <1>4, <2>1 DEF RollbackMove
  <2>3. QED
    BY <1>1, <2>1, <2>2, RenamePresent DEF Unfinished
<1>5. ASSUME StageRename PROVE Present' = Present
  <2>1. cur \in TxIds /\ Unfinished = {cur} /\ moving \in Files
    BY <1>5, CurrentIs DEF StageRename, StageSteps, Safe, Owned, OwnsCurrent
  <2>2. CASE UNCHANGED <<src, staged>>
    BY <1>2, <1>5, <2>2 DEF StageRename
  <2>3. CASE ~UNCHANGED <<src, staged>>
    <3>1. src' = [src EXCEPT ![moving] = staged[cur][moving]] /\ staged' = [staged EXCEPT ![cur][moving] = src[moving]]
          /\ UNCHANGED <<folders, cur>>
      BY <1>5, <2>3 DEF StageRename
    <3>2. QED
      BY <1>1, <2>1, <3>1, RenamePresent DEF Unfinished
  <2>4. QED
    BY <2>2, <2>3
<1>6. ASSUME DropFolder PROVE Present' = Present
  <2>1. Unfinished = {cur} /\ staged[cur] = NoFiles /\ Unfinished' = {} /\ UNCHANGED <<src, staged>>
    BY <1>1, <1>6, CurrentIs DEF DropFolder, RollbackSteps, Safe, Recoverable, AtStep, Unfinished
  <2>2. QED
    BY <2>1, SamePresent
<1>7. ASSUME NEW x \in TxIds, DeleteMkdir(x) PROVE Present' = Present
  <2>1. Unfinished = {} /\ Unfinished' = {x} /\ staged[x] = NoFiles /\ UNCHANGED <<src, staged>>
    BY <1>1, <1>7 DEF DeleteMkdir, Safe, Owned, OwnsCurrent, Recoverable, AtStep, Unfinished
  <2>2. QED
    BY <2>1 DEF Present, Unfinished, NoFiles
<1>8. ASSUME Favorite PROVE Present' = Present
  <2>1. UNCHANGED <<folders, staged>>
    BY <1>8 DEF Favorite, store
  <2>2. CASE src' = src
    BY <1>2, <2>1, <2>2
  <2>3. CASE src' # src
    <3>1. Visible(tgt) /\ src' = [src EXCEPT ![Sidecar[tgt]] = nextv] /\ tgt \in Items
      BY <1>8, <2>3 DEF Favorite, Safe, Owned, OwnsCurrent
    <3>2. Sidecar[tgt] \in Files /\ src[Sidecar[tgt]] # 0 /\ nextv # 0
      BY <3>1, HistoryAssumption DEF Visible, Safe, TakesAll
    <3>3. \A f \in Files : src'[f] = 0 <=> src[f] = 0
      BY <3>1, <3>2 DEF Safe, Owned, TypeOK
    <3>4. QED
      BY <1>1, <2>1, <3>3, SamePresent DEF Unfinished
  <2>4. QED
    BY <2>2, <2>3
<1>9. CASE UNCHANGED vars \/ Requests
  BY <1>9, <1>2 DEF vars, store, Requests, Enter, Busy
<1>10. CASE Recovery
  BY <1>10, <1>2, <1>3 DEF Recovery, RecoverCommitted, RecoverJournaled, RecoverRefuses, RecoverDone, store
<1>11. CASE Rollback
  BY <1>11, <1>2, <1>4, <1>6
     DEF Rollback, RollbackValidate, RollbackMoved, DropJournalTmp, DropReceiptTmp, DropJournal, store
<1>12. CASE Delete
  BY <1>12, <1>2, <1>5, <1>7
     DEF Delete, DeleteLookup, DeleteMeasure, WriteJournalTmp, PublishJournal, StageCheck, StageDone,
         WriteReceiptTmp, CleanUp, store
<1>13. CASE FavoriteWritten \/ FailEarly \/ FailDeletion \/ FailRecovery \/ Crash
  BY <1>13, <1>2 DEF FavoriteWritten, FailEarly, FailDeletion, FailRecovery, Crash, store
<1>14. QED
  BY <1>8, <1>9, <1>10, <1>11, <1>12, <1>13, NoOutside DEF Next, Work, Safe

LEMMA SameTrash == ASSUME Safe, [Next]_vars, ~PublishReceipt PROVE Trashed' = Trashed
<1>1. Committed' = Committed /\ \A t \in Committed : staged'[t] = staged[t]
  BY SameReceipts DEF Safe
<1>2. QED
  BY <1>1 DEF Trashed

\* At the commit point the folder holds what there is of the owners it covers.
LEMMA CommitTakes ==
  ASSUME Safe, PublishReceipt
  PROVE  /\ tgt \in Targets /\ tgt \notin Flagged
         /\ StagedIn(cur) = {f \in Present : Owner[f] \in Covers(tgt) \ Flagged}
<1>1. pc = "receipt" /\ tgt \in Targets /\ tgt \notin Flagged /\ Named(cur) \subseteq FilesOf(tgt)
      /\ Named(cur) = StagedIn(cur) /\ \A f \in FilesOf(tgt) : src[f] # 0 => f \in Named(cur)
  BY DEF PublishReceipt, Safe, Owned, OwnsCurrent, Claims, Recoverable, AtStep, TakesAll, StageSteps
<1>2. cur \in folders \ Committed /\ Unfinished = {cur}
  BY <1>1, CurrentIs DEF StageSteps
<1>3. ASSUME NEW f \in StagedIn(cur) PROVE f \in Present /\ Owner[f] \in Covers(tgt) \ Flagged
  BY <1>1, <1>2, OwnersCovered, OwnersUnflagged DEF StagedIn, Present, FilesOf
<1>4. ASSUME NEW f \in Present, Owner[f] \in Covers(tgt) \ Flagged PROVE f \in StagedIn(cur)
  <2>1. f \in Files /\ Owner[f] \in Items
    BY HistoryAssumption DEF Present
  <2>2. f \in FilesOf(tgt)
    BY <1>4, <2>1, HistoryAssumption DEF FilesOf, OwnersOf, Covers
  <2>3. src[f] # 0 \/ f \in StagedIn(cur)
    BY <1>2 DEF Present, Unfinished, StagedIn
  <2>4. QED
    BY <1>1, <2>2, <2>3
<1>5. QED
  BY <1>1, <1>3, <1>4

LEMMA CommitMoves ==
  ASSUME Safe, PublishReceipt
  PROVE  Present' = Present \ StagedIn(cur) /\ Trashed' = Trashed \cup StagedIn(cur)
<1>1. /\ cur \in folders /\ cur \notin Committed /\ Committed' = Committed \cup {cur}
      /\ UNCHANGED <<src, folders, staged>> /\ pc = "receipt"
  BY NewReceipt DEF PublishReceipt, Safe
<1>2. Unfinished = {cur} /\ Unfinished' = {} /\ Restorable(cur)
  BY <1>1, CurrentIs DEF StageSteps, Unfinished
<1>3. \A f \in Files : staged[cur][f] # 0 => src[f] = 0
  BY <1>2 DEF Restorable
<1>4. Present' = {f \in Files : src[f] # 0} /\ Present = {f \in Files : src[f] # 0 \/ staged[cur][f] # 0}
  BY <1>1, <1>2 DEF Present, Unfinished
<1>5. QED
  BY <1>1, <1>3, <1>4 DEF Trashed, StagedIn

LEMMA VaultInit == Init => Vault!Init
  BY DEF Init, Vault!Init, Committed, Flagged

LEMMA VaultStep == ASSUME MaxEdits = 0, Safe, [Next]_vars PROVE [Vault!Next]_(Vault!vault)
<1>1. CASE PublishReceipt
  <2>1. Flagged' = Flagged \cup Covers(tgt)
    BY <1>1, NewReceipt DEF Safe
  <2>2. tgt \in Items \cup Batches /\ tgt \notin Flagged
        /\ StagedIn(cur) = {f \in Present : Owner[f] \in Covers(tgt) \ Flagged}
        /\ Present' = Present \ StagedIn(cur) /\ Trashed' = Trashed \cup StagedIn(cur)
    BY <1>1, CommitTakes, CommitMoves DEF Targets
  <2>3. Vault!Next
    BY <2>1, <2>2 DEF Vault!Next, Vault!DeleteNow, Vault!WithMembers, Covers, Present, Trashed
  <2>4. QED
    BY <2>3
<1>2. CASE ~PublishReceipt
  BY <1>2, InvisibleStep, SameTrash, SameReceipts DEF Vault!vault, Present, Trashed, Safe
<1>3. QED
  BY <1>1, <1>2

\* With crashes and I/O errors anywhere, a deletion is atomic.
THEOREM Atomic == ASSUME MaxEdits = 0 PROVE Spec => DeletionIsAtomic
<1>1. Safe /\ [Next]_vars => [Vault!Next]_(Vault!vault)
  BY VaultStep
<1>2. QED
  BY <1>1, VaultInit, SafeAlways, PTL DEF Spec, DeletionIsAtomic, Vault!Spec
=============================================================================
