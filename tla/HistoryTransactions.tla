------------------------ MODULE HistoryTransactions ------------------------
(***************************************************************************)
(* Recoverable deletion of history items                                   *)
(* (apps/dream-windows/server/history_transactions.py).                    *)
(*                                                                         *)
(* A deletion runs under one lock shared by every thread and process.  It  *)
(* creates a transaction folder, publishes a journal, renames each file of *)
(* the item into the folder and publishes a receipt: the receipt is the    *)
(* commit point.  Whoever takes the lock next first recovers: a folder     *)
(* with a receipt is kept for ever, one with only a journal is rolled      *)
(* back.  Every file-system call is a step of its own, so a crash or an    *)
(* I/O error can fall between any two of them.                             *)
(*                                                                         *)
(* Contents are abstracted to versions: a file is 0 when absent, and every *)
(* write gives it a version never used before, which stands for the        *)
(* device and inode the journal records; Size gives the size it records.   *)
(***************************************************************************)
EXTENDS Naturals, FiniteSets

CONSTANTS
    Items,        \* history items
    Batches,      \* batches of identity items, deleted under one receipt
    Files,        \* the files of all items
    Owner,        \* the item each file belongs to
    Sidecar,      \* the metadata file of each item
    Members,      \* the items of each batch
    AllowEmpty,   \* targets that may be deleted with no file left (tombstone)
    Threads,
    Process,      \* the service process each thread runs in
    TxIds,        \* transaction folders; MAX_TRANSACTIONS is their number
    Size,         \* size of each version of each file
    MaxSize,      \* the largest of these sizes
    MaxTrash,     \* MAX_TRASH_BYTES; sizes are in units of MAX_JOURNAL_BYTES
    None,         \* no thread, no target, no transaction
    MaxVersion, MaxFaults, MaxCrashes, MaxEdits   \* bounds of the exploration

Targets == Items \cup Batches

ASSUME HistoryAssumption ==
    /\ Owner \in [Files -> Items]
    /\ Sidecar \in [Items -> Files]
    /\ \A i \in Items : Owner[Sidecar[i]] = i
    /\ Members \in [Batches -> SUBSET Items]
    /\ Items \cap Batches = {}
    /\ Batches \subseteq AllowEmpty /\ AllowEmpty \subseteq Targets
    /\ None \notin Threads \cup Targets \cup TxIds \cup Files
    /\ MaxVersion \in Nat /\ MaxFaults \in Nat /\ MaxCrashes \in Nat /\ MaxEdits \in Nat
    /\ MaxTrash \in Nat /\ MaxSize \in Nat
    /\ Size \in [Files -> [1 .. (MaxVersion + MaxEdits + 1) -> 0 .. MaxSize]]

\* A history has finitely many files and at most MAX_TRANSACTIONS folders.
ASSUME HistoryFinite == IsFiniteSet(Files) /\ IsFiniteSet(TxIds)

VARIABLES
    src,       \* version of each file at its own place, 0 when absent
    folders,   \* transaction folders that exist
    journal,   \* "none", "tmp" (journal.json.tmp only) or "whole"
    receipt,   \* the same for committed.json
    target,    \* record: the item or batch of the transaction
    entry,     \* record: version of each file named, 0 when not named
    staged,    \* version of each file inside the folder, 0 when not there
    holder,    \* thread that holds the lock
    call, tgt, pc,   \* what it was asked, for which target, and where it is
    cur,       \* transaction it works on
    todo,      \* folders its recovery has not visited
    pend,      \* files it has still to move
    moving,    \* file it has checked and is about to stage
    undo,      \* why it rolls back: "recovery" or "failure"
    reply,     \* the last answer given to a caller
    nextv,     \* next unused version
    torn,      \* versions left by an interrupted rewrite, not readable as metadata
    faults, crashes, edits

store == <<folders, journal, receipt, target, entry, staged>>
work  == <<holder, call, tgt, pc, cur, todo, pend, moving, undo>>
world == <<nextv, torn, faults, crashes, edits>>
vars  == <<src, store, work, reply, world>>

Calls == {"none", "delete", "favorite", "recover"}
Marks == {"none", "tmp", "whole"}
Steps == {"idle", "recover", "lookup", "measure", "journal_tmp", "journal",
          "move", "rename", "receipt_tmp", "receipt", "cleanup", "favorite", "rewrite", "validate",
          "restore", "drop_tmp", "drop_receipt", "drop_journal", "drop_folder"}
Codes == {"none", "deleted", "not_found", "full", "busy", "restored", "conflict",
          "fault", "failed", "favorited", "recovered"}
NoFiles == [f \in Files |-> 0]
NoReply == [code |-> "none", tgt |-> None]

-----------------------------------------------------------------------------
(* What the records say.                                                    *)

Committed == {t \in folders : receipt[t] = "whole"}

\* Mutant: a batch's receipt does not report its members.
CoversItself(d) == {d}

\* The targets a receipt covers: its item, and for a batch its members too.
Covers(d) == IF d \in Batches THEN {d} \cup Members[d] ELSE {d}

\* Targets that receipts report deleted.
Flagged == UNION {Covers(target[t]) : t \in Committed}

\* The items whose files the deletion of d stages.
OwnersOf(d) == IF d \in Batches THEN Members[d] \ Flagged ELSE {d}
FilesOf(d) == {f \in Files : Owner[f] \in OwnersOf(d)}

\* An item the history scan lists: image and readable metadata exist.
Visible(i) == \A f \in Files : Owner[f] = i => src[f] # 0 /\ src[f] \notin torn

Named(t) == {f \in Files : entry[t][f] # 0}
StagedIn(t) == {f \in Files : staged[t][f] # 0}

\* What the trash holds: the files in it, unit by unit, and the records, each
\* with the one unit it may take.
TrashBytes == {b \in folders \X Files \X (1 .. MaxSize) :
                  staged[b[1]][b[2]] # 0 /\ b[3] <= Size[b[2]][staged[b[1]][b[2]]]}
Journals == {t \in folders : journal[t] # "none"}
Receipts == {t \in folders : receipt[t] # "none"}
TrashUse == Cardinality(TrashBytes) + Cardinality(Journals) + Cardinality(Receipts)

\* The files that were still there when a deletion looked, and their sizes.
Found == {f \in pend : src[f] # 0}
FoundBytes == {b \in Found \X (1 .. MaxSize) : b[2] <= Size[b[1]][src[b[1]]]}

\* There is a folder left and room for the files and for three records.
Fits == folders # TxIds /\ TrashUse + Cardinality(FoundBytes) + 3 <= MaxTrash

-----------------------------------------------------------------------------
Init ==
    /\ src \in [Files -> {0, 1}]
    /\ folders = {}
    /\ journal = [t \in TxIds |-> "none"]
    /\ receipt = [t \in TxIds |-> "none"]
    /\ target = [t \in TxIds |-> None]
    /\ entry = [t \in TxIds |-> NoFiles]
    /\ staged = [t \in TxIds |-> NoFiles]
    /\ holder = None /\ call = "none" /\ tgt = None /\ pc = "idle"
    /\ cur = None /\ todo = {} /\ pend = {} /\ moving = None /\ undo = "recovery"
    /\ reply = NoReply
    /\ nextv = 2 /\ torn = {} /\ faults = 0 /\ crashes = 0 /\ edits = 0

\* The lock is released and the local state of the call forgotten.
Release ==
    /\ holder' = None /\ call' = "none" /\ tgt' = None /\ pc' = "idle"
    /\ cur' = None /\ todo' = {} /\ pend' = {} /\ moving' = None /\ undo' = "recovery"

Answer(code) ==
    /\ Release
    /\ reply' = [code |-> code, tgt |-> tgt]

Goto(step) == pc' = step /\ UNCHANGED <<holder, call, tgt, cur, todo, pend, moving, undo, reply>>

-----------------------------------------------------------------------------
(* Taking the lock.  A second thread of the holder's process waits on the   *)
(* thread lock; a thread of another process is refused by the file lock.    *)

Enter(th, c, d) ==
    /\ holder = None
    /\ c = "recover" => d = None
    /\ c = "favorite" => d \in Items /\ nextv < MaxVersion
    /\ c = "delete" => d \in Targets
    /\ holder' = th /\ call' = c /\ tgt' = d /\ pc' = "recover" /\ todo' = folders
    /\ reply' = NoReply
    /\ UNCHANGED <<src, store, cur, pend, moving, undo, world>>

Busy(th) ==
    /\ holder # None /\ Process[holder] # Process[th]
    /\ reply' = [code |-> "busy", tgt |-> None]
    /\ UNCHANGED <<src, store, work, world>>

-----------------------------------------------------------------------------
(* _recover_locked: one folder after the other, in no particular order.     *)

\* A receipt wins over a leftover journal; unlinking the leftovers is optional.
RecoverCommitted(t) ==
    /\ pc = "recover" /\ t \in todo /\ receipt[t] = "whole"
    /\ \A f \in Named(t) : staged[t][f] = entry[t][f]
    /\ todo' = todo \ {t}
    /\ journal' \in {journal, [journal EXCEPT ![t] = "none"]}
    /\ UNCHANGED <<src, folders, receipt, target, entry, staged,
                   holder, call, tgt, pc, cur, pend, moving, undo, reply, world>>

\* Mutant: recovery looks for the journal before the receipt.
RecoverJournalFirst(t) ==
    /\ pc = "recover" /\ t \in todo /\ journal[t] = "whole"
    /\ cur' = t /\ undo' = "recovery" /\ pc' = "validate"
    /\ UNCHANGED <<src, store, holder, call, tgt, todo, pend, moving, reply, world>>


RecoverJournaled(t) ==
    /\ pc = "recover" /\ t \in todo /\ receipt[t] # "whole" /\ journal[t] = "whole"
    /\ cur' = t /\ undo' = "recovery" /\ pc' = "validate"
    /\ UNCHANGED <<src, store, holder, call, tgt, todo, pend, moving, reply, world>>

\* Mutant: the empty folder of an unpublished transaction is left behind.
RecoverTmpOnly(t) ==
    /\ pc = "recover" /\ t \in todo
    /\ receipt[t] = "none" /\ journal[t] # "whole" /\ StagedIn(t) = {}
    /\ journal' = [journal EXCEPT ![t] = "none"] /\ todo' = todo \ {t}
    /\ UNCHANGED <<src, folders, receipt, target, entry, staged,
                   holder, call, tgt, pc, cur, pend, moving, undo, reply, world>>

\* Only a half-published journal, or nothing at all: no move can have begun.
RecoverUnpublished(t) ==
    /\ pc = "recover" /\ t \in todo
    /\ receipt[t] = "none" /\ journal[t] # "whole" /\ StagedIn(t) = {}
    /\ IF journal[t] = "tmp"
       THEN /\ journal' = [journal EXCEPT ![t] = "none"]
            /\ UNCHANGED <<folders, target, entry, todo>>
       ELSE /\ folders' = folders \ {t} /\ todo' = todo \ {t}
            /\ target' = [target EXCEPT ![t] = None]
            /\ entry' = [entry EXCEPT ![t] = NoFiles]
            /\ UNCHANGED journal
    /\ UNCHANGED <<src, receipt, staged, holder, call, tgt, pc, cur, pend, moving, undo, reply, world>>

\* A committed folder whose files are gone or changed, or files that no
\* journal explains: kept for inspection, and the recovery fails.
Unexplained(t) ==
    \/ receipt[t] = "whole" /\ \E f \in Named(t) : staged[t][f] # entry[t][f]
    \/ receipt[t] # "whole" /\ journal[t] # "whole" /\ (receipt[t] # "none" \/ StagedIn(t) # {})

RecoverRefuses(t) ==
    /\ pc = "recover" /\ t \in todo /\ Unexplained(t)
    /\ Answer("conflict")
    /\ UNCHANGED <<src, store, world>>

\* Mutant: recovery stops before it has seen every folder.
RecoverOne ==
    /\ pc = "recover"
    /\ \/ call = "recover" /\ Answer("recovered")
       \/ call = "delete" /\ Goto("lookup")
       \/ call = "favorite" /\ Goto("favorite")
    /\ UNCHANGED <<src, store, world>>


RecoverDone ==
    /\ pc = "recover" /\ todo = {}
    /\ \/ call = "recover" /\ Answer("recovered")
       \/ call = "delete" /\ Goto("lookup")
       \/ call = "favorite" /\ Goto("favorite")
    /\ UNCHANGED <<src, store, world>>

-----------------------------------------------------------------------------
(* _rollback, from recovery or from a failed deletion.                      *)

\* A staged copy needs its own identity and a free place to go back to; a
\* file that was never staged must still be where it was.
Clash(t) == \E f \in Named(t) :
    IF staged[t][f] # 0 THEN src[f] # 0 \/ staged[t][f] # entry[t][f] ELSE src[f] = 0

RollbackValidate ==
    /\ pc = "validate"
    /\ \/ /\ Clash(cur)
          /\ Answer("conflict")
       \/ /\ ~Clash(cur)
          /\ pend' = Named(cur) \cap StagedIn(cur) /\ pc' = "restore"
          /\ UNCHANGED <<holder, call, tgt, cur, todo, moving, undo, reply>>
    /\ UNCHANGED <<src, store, world>>

\* Mutant: the move overwrites whatever is at the original place.
OverwritingMove(f) ==
    /\ pc = "restore" /\ f \in pend
    /\ src' = [src EXCEPT ![f] = staged[cur][f]]
    /\ staged' = [staged EXCEPT ![cur][f] = 0]
    /\ pend' = pend \ {f}
    /\ UNCHANGED <<holder, call, tgt, pc, cur, todo, moving, undo, reply>>
    /\ UNCHANGED <<folders, journal, receipt, target, entry, world>>

\* Renames refuse to overwrite a file that appeared in the meantime.
RollbackMove(f) ==
    /\ pc = "restore" /\ f \in pend
    /\ \/ /\ src[f] # 0
          /\ Answer("conflict")
          /\ UNCHANGED <<src, staged>>
       \/ /\ src[f] = 0
          /\ src' = [src EXCEPT ![f] = staged[cur][f]]
          /\ staged' = [staged EXCEPT ![cur][f] = 0]
          /\ pend' = pend \ {f}
          /\ UNCHANGED <<holder, call, tgt, pc, cur, todo, moving, undo, reply>>
    /\ UNCHANGED <<folders, journal, receipt, target, entry, world>>

RollbackMoved ==
    /\ pc = "restore" /\ pend = {}
    /\ Goto("drop_tmp")
    /\ UNCHANGED <<src, store, world>>

\* Mutant: the journal is unlinked first, before a half-written receipt.
DropJournalFirst ==
    /\ pc = "drop_tmp"
    /\ journal' = [journal EXCEPT ![cur] = "none"]
    /\ Goto("drop_receipt")
    /\ UNCHANGED <<src, folders, receipt, target, entry, staged, world>>


DropJournalTmp ==
    /\ pc = "drop_tmp"
    /\ journal' = IF journal[cur] = "tmp" THEN [journal EXCEPT ![cur] = "none"] ELSE journal
    /\ Goto("drop_receipt")
    /\ UNCHANGED <<src, folders, receipt, target, entry, staged, world>>

\* The order of the two unlinks: the half-written receipt goes before the journal.
DropReceiptTmp ==
    /\ pc = "drop_receipt"
    /\ receipt' = [receipt EXCEPT ![cur] = "none"]
    /\ Goto("drop_journal")
    /\ UNCHANGED <<src, folders, journal, target, entry, staged, world>>

DropJournal ==
    /\ pc = "drop_journal"
    /\ journal' = [journal EXCEPT ![cur] = "none"]
    /\ Goto("drop_folder")
    /\ UNCHANGED <<src, folders, receipt, target, entry, staged, world>>

\* rmdir refuses a folder that still holds something.
DropFolder ==
    /\ pc = "drop_folder"
    /\ receipt[cur] = "none" /\ StagedIn(cur) = {}
    /\ folders' = folders \ {cur}
    /\ target' = [target EXCEPT ![cur] = None]
    /\ entry' = [entry EXCEPT ![cur] = NoFiles]
    /\ \/ /\ undo = "recovery"
          /\ pc' = "recover" /\ todo' = todo \ {cur} /\ cur' = None
          /\ UNCHANGED <<holder, call, tgt, pend, moving, undo, reply>>
       \/ /\ undo = "failure"
          /\ Answer("restored")
    /\ UNCHANGED <<src, journal, receipt, staged, world>>

-----------------------------------------------------------------------------
(* delete_history_files, after recovery.                                    *)

\* Mutant: the idempotency lookup is dropped.
LookupAgain ==
    /\ pc = "lookup"
    /\ \/ tgt \notin AllowEmpty /\ ~Visible(tgt) /\ Answer("not_found")
       \/ /\ tgt \in AllowEmpty \/ Visible(tgt)
          /\ pend' = FilesOf(tgt) /\ pc' = "measure"
          /\ UNCHANGED <<holder, call, tgt, cur, todo, moving, undo, reply>>
    /\ UNCHANGED <<src, store, world>>

\* Idempotency, then the resolver: a plain item must be listed by the scan;
\* an identity record or a batch may have lost some or all of its files.
DeleteLookup ==
    /\ pc = "lookup"
    /\ \/ tgt \in Flagged /\ Answer("deleted")
       \/ tgt \notin Flagged /\ tgt \notin AllowEmpty /\ ~Visible(tgt) /\ Answer("not_found")
       \/ /\ tgt \notin Flagged
          /\ tgt \in AllowEmpty \/ Visible(tgt)
          /\ pend' = FilesOf(tgt) /\ pc' = "measure"
          /\ UNCHANGED <<holder, call, tgt, cur, todo, moving, undo, reply>>
    /\ UNCHANGED <<src, store, world>>

\* Nothing left is a success without a receipt unless a tombstone is allowed.
DeleteMeasure ==
    /\ pc = "measure"
    /\ \/ Found = {} /\ tgt \notin AllowEmpty /\ Answer("deleted")
       \/ /\ Found # {} \/ tgt \in AllowEmpty
          /\ ~Fits /\ Answer("full")
    /\ UNCHANGED <<src, store, world>>

\* Mutant: the budget counts only what the trash already holds.
MkdirUsedOnly(t) ==
    /\ pc = "measure" /\ t \in TxIds \ folders
    /\ Found # {} \/ tgt \in AllowEmpty
    /\ TrashUse + 3 <= MaxTrash
    /\ folders' = folders \cup {t} /\ cur' = t /\ pc' = "journal_tmp" /\ pend' = Found
    /\ target' = [target EXCEPT ![t] = tgt]
    /\ entry' = [entry EXCEPT ![t] = [f \in Files |-> IF f \in Found THEN src[f] ELSE 0]]
    /\ UNCHANGED <<src, journal, receipt, staged, holder, call, tgt, todo, moving, undo, reply, world>>

\* The files that exist are the ones to stage.  They are looked at once, for
\* the budget and for the record, which keeps the version each had then.
DeleteMkdir(t) ==
    /\ pc = "measure" /\ t \in TxIds \ folders
    /\ Found # {} \/ tgt \in AllowEmpty
    /\ Fits
    /\ folders' = folders \cup {t} /\ cur' = t /\ pc' = "journal_tmp" /\ pend' = Found
    /\ target' = [target EXCEPT ![t] = tgt]
    /\ entry' = [entry EXCEPT ![t] = [f \in Files |-> IF f \in Found THEN src[f] ELSE 0]]
    /\ UNCHANGED <<src, journal, receipt, staged, holder, call, tgt, todo, moving, undo, reply, world>>

WriteJournalTmp ==
    /\ pc = "journal_tmp"
    /\ journal' = [journal EXCEPT ![cur] = "tmp"]
    /\ Goto("journal")
    /\ UNCHANGED <<src, folders, receipt, target, entry, staged, world>>

PublishJournal ==
    /\ pc = "journal"
    /\ journal' = [journal EXCEPT ![cur] = "whole"]
    /\ Goto("move")
    /\ UNCHANGED <<src, folders, receipt, target, entry, staged, world>>

\* Mutant: a failed deletion jumps to a step that does not exist.
GiveUpToNowhere ==
    /\ undo' = "failure" /\ pc' = "rollback" /\ pend' = {} /\ moving' = None
    /\ UNCHANGED <<holder, call, tgt, cur, todo, reply>>

\* The deletion gives up and rolls its transaction back.
GiveUp ==
    /\ undo' = "failure" /\ pc' = "validate" /\ pend' = {} /\ moving' = None
    /\ UNCHANGED <<holder, call, tgt, cur, todo, reply>>

\* The file must still be the one that was measured.
StageCheck(f) ==
    /\ pc = "move" /\ f \in pend
    /\ \/ src[f] # entry[cur][f] /\ GiveUp
       \/ /\ src[f] = entry[cur][f]
          /\ moving' = f /\ pc' = "rename"
          /\ UNCHANGED <<holder, call, tgt, cur, todo, pend, undo, reply>>
    /\ UNCHANGED <<src, store, world>>

\* The check and the rename are two calls: another program may come between.
StageRename ==
    /\ pc = "rename"
    /\ \/ /\ src[moving] = 0 /\ GiveUp
          /\ UNCHANGED <<src, staged>>
       \/ /\ src[moving] # 0 /\ staged[cur][moving] = 0
          /\ staged' = [staged EXCEPT ![cur][moving] = src[moving]]
          /\ src' = [src EXCEPT ![moving] = 0]
          /\ pend' = pend \ {moving} /\ moving' = None /\ pc' = "move"
          /\ UNCHANGED <<holder, call, tgt, cur, todo, undo, reply>>
    /\ UNCHANGED <<folders, journal, receipt, target, entry, world>>

\* Mutant: the receipt is written while files are still to be moved.
StageTooEarly ==
    /\ pc = "move"
    /\ Goto("receipt_tmp")
    /\ UNCHANGED <<src, store, world>>


StageDone ==
    /\ pc = "move" /\ pend = {}
    /\ Goto("receipt_tmp")
    /\ UNCHANGED <<src, store, world>>

\* Mutant: the temporary receipt is never published under its name.
WriteReceiptOnly ==
    /\ pc = "receipt_tmp"
    /\ receipt' = [receipt EXCEPT ![cur] = "tmp"]
    /\ Goto("cleanup")
    /\ UNCHANGED <<src, folders, journal, target, entry, staged, world>>


WriteReceiptTmp ==
    /\ pc = "receipt_tmp"
    /\ receipt' = [receipt EXCEPT ![cur] = "tmp"]
    /\ Goto("receipt")
    /\ UNCHANGED <<src, folders, journal, target, entry, staged, world>>

\* The commit point.
PublishReceipt ==
    /\ pc = "receipt"
    /\ receipt' = [receipt EXCEPT ![cur] = "whole"]
    /\ Goto("cleanup")
    /\ UNCHANGED <<src, folders, journal, target, entry, staged, world>>

\* _cleanup_committed: the leftover journal may stay behind.
CleanUp ==
    /\ pc = "cleanup"
    /\ journal' \in {journal, [journal EXCEPT ![cur] = "none"]}
    /\ Answer("deleted")
    /\ UNCHANGED <<src, folders, receipt, target, entry, staged, world>>

-----------------------------------------------------------------------------
(* favorite_history: read, modify and write the metadata under the lock.    *)

\* The file is truncated in place and then written.
Favorite ==
    /\ pc = "favorite"
    /\ \/ /\ tgt \in Flagged \/ ~Visible(tgt)
          /\ Answer("not_found")
          /\ UNCHANGED <<src, nextv, torn>>
       \/ /\ tgt \notin Flagged /\ Visible(tgt)
          /\ src' = [src EXCEPT ![Sidecar[tgt]] = nextv]
          /\ torn' = torn \cup {nextv} /\ nextv' = nextv + 1
          /\ Goto("rewrite")
    /\ UNCHANGED <<store, faults, crashes, edits>>

FavoriteWritten ==
    /\ pc = "rewrite"
    /\ torn' = torn \ {src[Sidecar[tgt]]}
    /\ Answer("favorited")
    /\ UNCHANGED <<src, store, nextv, faults, crashes, edits>>

-----------------------------------------------------------------------------
(* I/O errors, process exits and other programs.                            *)

Fault == faults < MaxFaults /\ faults' = faults + 1 /\ UNCHANGED <<nextv, torn, crashes, edits>>

\* Before the journal is begun an error leaves every file alone; a folder
\* that was made stays behind, empty.
FailEarly ==
    /\ pc \in {"lookup", "measure", "journal_tmp", "favorite", "rewrite"}
    /\ Fault /\ Answer("failed")
    /\ UNCHANGED <<src, store>>

\* Between the journal and the receipt an error rolls back.  The error may
\* leave a temporary record behind.  Once the receipt is published an error
\* in the directory sync is ignored: the next step is the clean-up anyway.
FailDeletion ==
    /\ pc \in {"journal_tmp", "journal", "move", "rename", "receipt_tmp", "receipt"}
    /\ Fault /\ GiveUp
    /\ \/ UNCHANGED <<journal, receipt>>
       \/ /\ pc = "journal_tmp" /\ journal' = [journal EXCEPT ![cur] = "tmp"]
          /\ UNCHANGED receipt
       \/ /\ pc = "receipt_tmp" /\ receipt' = [receipt EXCEPT ![cur] = "tmp"]
          /\ UNCHANGED journal
    /\ UNCHANGED <<src, folders, target, entry, staged>>

\* Mutant: a rollback that failed half-way reports the files restored.
FailRestored ==
    /\ pc \in {"recover", "validate", "restore", "drop_tmp", "drop_receipt",
               "drop_journal", "drop_folder"}
    /\ Fault /\ Answer(IF pc = "recover" THEN "fault" ELSE "restored")
    /\ UNCHANGED <<src, store>>

\* A recovery or a rollback that fails keeps what is left for the next one.
FailRecovery ==
    /\ pc \in {"recover", "validate", "restore", "drop_tmp", "drop_receipt",
               "drop_journal", "drop_folder"}
    /\ Fault /\ Answer("fault")
    /\ UNCHANGED <<src, store>>

\* The process of the lock holder exits: the system releases the file lock.
Crash ==
    /\ holder # None /\ crashes < MaxCrashes
    /\ crashes' = crashes + 1 /\ Release
    /\ UNCHANGED <<src, store, reply, nextv, torn, faults, edits>>

\* Another program changes, recreates or removes a file; it knows no lock.
Outside(f) ==
    /\ edits < MaxEdits /\ edits' = edits + 1
    /\ \/ src' = [src EXCEPT ![f] = nextv] /\ nextv' = nextv + 1
       \/ src[f] # 0 /\ src' = [src EXCEPT ![f] = 0] /\ UNCHANGED nextv
    /\ UNCHANGED <<store, work, reply, torn, faults, crashes>>

-----------------------------------------------------------------------------
Recovery ==
    \/ \E t \in TxIds : RecoverCommitted(t) \/ RecoverJournaled(t)
                        \/ RecoverUnpublished(t) \/ RecoverRefuses(t)
    \/ RecoverDone

Rollback ==
    \/ RollbackValidate
    \/ \E f \in Files : RollbackMove(f)
    \/ RollbackMoved \/ DropJournalTmp \/ DropReceiptTmp \/ DropJournal \/ DropFolder

Delete ==
    \/ DeleteLookup \/ DeleteMeasure
    \/ \E t \in TxIds : DeleteMkdir(t)
    \/ WriteJournalTmp \/ PublishJournal
    \/ \E f \in Files : StageCheck(f)
    \/ StageRename \/ StageDone \/ WriteReceiptTmp \/ PublishReceipt \/ CleanUp

\* What the thread inside the lock does next.
Work == Recovery \/ Rollback \/ Delete \/ Favorite \/ FavoriteWritten

Requests ==
    \E th \in Threads, d \in Targets \cup {None}, c \in Calls \ {"none"} :
        Enter(th, c, d) \/ Busy(th)

Next ==
    \/ Requests
    \/ Work
    \/ FailEarly \/ FailDeletion \/ FailRecovery \/ Crash
    \/ \E f \in Files : Outside(f)

Spec == Init /\ [][Next]_vars

\* A call inside the lock runs on, and service starts keep running recovery.
Starts == \E th \in Threads : Enter(th, "recover", None)
FairSpec == Spec /\ WF_vars(Work) /\ SF_vars(Starts)
-----------------------------------------------------------------------------
(* Properties.                                                              *)

Replies == [code : Codes, tgt : Targets \cup {None}]

\* Every variable has its type.
TypeOK ==
    /\ src \in [Files -> Nat]
    /\ folders \in SUBSET TxIds
    /\ journal \in [TxIds -> Marks] /\ receipt \in [TxIds -> Marks]
    /\ target \in [TxIds -> Targets \cup {None}]
    /\ entry \in [TxIds -> [Files -> Nat]] /\ staged \in [TxIds -> [Files -> Nat]]
    /\ holder \in Threads \cup {None} /\ call \in Calls /\ tgt \in Targets \cup {None}
    /\ pc \in Steps /\ cur \in TxIds \cup {None}
    /\ todo \in SUBSET TxIds /\ pend \in SUBSET Files
    /\ moving \in Files \cup {None} /\ undo \in {"recovery", "failure"}
    /\ reply \in Replies
    /\ nextv \in Nat /\ torn \in SUBSET Nat /\ faults \in Nat /\ crashes \in Nat /\ edits \in Nat

\* A receipt is published only once every file it names is in the folder, and
\* the folder keeps them (history_transactions.py:494 after the moves, 310).
ReceiptComplete == \A t \in Committed : staged[t] = entry[t]

\* A step leaves the receipt of t and what its folder holds as they are.
Kept(t) ==
    /\ t \in Committed'
    /\ target'[t] = target[t] /\ entry'[t] = entry[t] /\ staged'[t] = staged[t]

\* "Committed trash" is never evicted, rolled back or changed, whatever
\* crashes, fails or is recovered later (the module's first line, 308-312).
ReceiptsForever == [][\A t \in Committed : Kept(t)]_vars

\* Without other programs, recovery and rollback never meet a conflict: what
\* any interrupted or failed deletion leaves behind can be put back (281-322).
NoConflict == reply.code # "conflict"

\* A caller told "deleted" holds a receipt that survives restarts (430, 507).
AckedIsCommitted == reply.code = "deleted" => reply.tgt \in Flagged

\* A caller told that the files were restored finds every one of them back
\* in its own place, as it was measured (504-506).
RestoredIsRestored ==
    [][(reply' # reply /\ reply'.code = "restored")
          => \A f \in Named(cur) : src'[f] = entry[cur][f]]_vars

\* A mutation of the history never starts on top of a half-done deletion:
\* after recovery every folder left holds a receipt (426, 396).
MutatesCleanHistory ==
    pc \in {"lookup", "measure", "favorite", "rewrite"} => folders = Committed

\* An item or batch is deleted by at most one receipt, and a file is in the
\* trash of at most one of them (430, 436).
OneReceipt ==
    \A s, t \in Committed : s # t => /\ target[s] # target[t]
                                     /\ Named(s) \cap Named(t) = {}

\* Of the files in the trash, what their records measured.
Measured == {b \in TrashBytes : b[3] <= Size[b[2]][entry[b[1]][b[2]]]}

\* The trash outgrows its budget by no more than what another program adds to
\* a file between its measurement and its rename: the code measures once and
\* compares at once (463-473), and moves the files afterwards (489).
TrashBounded == Cardinality(Measured) + Cardinality(Journals) + Cardinality(Receipts) <= MaxTrash

\* The contents that exist of each file, at its own place or in a folder.
Contents == [f \in Files |-> ({src[f]} \cup {staged[t][f] : t \in folders}) \ {0}]

\* No step of a deletion, a rollback or a recovery loses or overwrites a
\* content, even while other programs change, recreate or remove files (265).
NeverDiscards == [][(pc # "favorite" /\ edits' = edits) => Contents' = Contents]_vars

\* Every interrupted deletion is eventually undone or found committed, as
\* each service start runs recovery (runtime.py:37), unless another program
\* has put a file in the way (265).
InterruptedResolved == (folders # Committed) ~> (folders = Committed \/ edits > 0)

\* The promise of HistoryVault: files of a deletion in progress are still in
\* the history, since a crash or an error would put them back.
Vault == INSTANCE HistoryVault WITH
    present <- {f \in Files : \/ src[f] # 0
                              \/ \E t \in folders \ Committed : staged[t][f] # 0},
    trashed <- {f \in Files : \E t \in Committed : staged[t][f] # 0},
    gone <- Flagged
DeletionIsAtomic == Vault!Spec
-----------------------------------------------------------------------------
(* The inductive invariants behind these properties.                        *)

StageSteps == {"journal_tmp", "journal", "move", "rename", "receipt_tmp", "receipt"}
RollbackSteps == {"validate", "restore", "drop_tmp", "drop_receipt", "drop_journal", "drop_folder"}

\* A folder that does not exist holds nothing, and the transaction being
\* staged or rolled back is one without a receipt.
OwnsCurrent ==
    /\ \A t \in TxIds \ folders : journal[t] = "none" /\ receipt[t] = "none" /\ staged[t] = NoFiles
    /\ todo \subseteq folders
    /\ pc \in StageSteps \cup RollbackSteps => cur \in folders /\ receipt[cur] # "whole"
    /\ pc \in StageSteps => target[cur] = tgt
    /\ pc = "drop_folder" => journal[cur] = "none"
    /\ pc = "cleanup" => cur \in Committed /\ target[cur] = tgt
    /\ pc = "rename" => moving \in Files
    /\ call = "favorite" \/ pc \in {"favorite", "rewrite"} => tgt \in Items
    /\ call = "delete" \/ pc \in {"lookup", "measure"} \cup StageSteps => tgt \in Targets

\* A file named by an unfinished transaction is in exactly one place, with
\* the version that was measured, and staging starts after the journal.
Restorable(t) ==
    /\ \A f \in Files : \/ entry[t][f] = 0 /\ staged[t][f] = 0
                        \/ entry[t][f] # 0 /\ staged[t][f] = 0 /\ src[f] = entry[t][f]
                        \/ entry[t][f] # 0 /\ staged[t][f] = entry[t][f] /\ src[f] = 0
    /\ journal[t] # "whole" => receipt[t] = "none" /\ staged[t] = NoFiles

\* What each step of the thread in the lock relies on.
AtStep ==
    /\ pc = "recover" => folders \ Committed \subseteq todo
    /\ pc \in {"lookup", "measure", "favorite", "rewrite", "cleanup"} => folders = Committed
    /\ pc \in StageSteps \cup RollbackSteps => folders \ Committed = {cur}
    /\ pc \in RollbackSteps /\ undo = "recovery" => cur \in todo
    /\ pc \in {"journal_tmp", "journal"} => staged[cur] = NoFiles
    /\ pc \in {"journal_tmp", "journal", "move", "rename", "receipt_tmp"} => receipt[cur] = "none"
    /\ pc \in {"move", "rename", "receipt_tmp", "receipt"} => journal[cur] = "whole"
    /\ pc \in {"journal_tmp", "journal", "move", "rename"} => pend = Named(cur) \ StagedIn(cur)
    /\ pc = "rename" => moving \in pend
    /\ pc \in {"receipt_tmp", "receipt"} => Named(cur) = StagedIn(cur)
    /\ pc = "restore" => pend = StagedIn(cur)
    /\ pc \in {"drop_tmp", "drop_receipt", "drop_journal", "drop_folder"} => staged[cur] = NoFiles
    /\ pc \in {"drop_journal", "drop_folder"} => receipt[cur] = "none"
    /\ pc = "measure" /\ tgt \notin AllowEmpty => \E f \in pend : src[f] # 0

\* A deletion takes only files of owners that no receipt covers yet, and each
\* receipt names only files of the owners it covers.
Claims ==
    /\ \A t \in Committed : \A f \in Named(t) : Owner[f] \in Covers(target[t])
    /\ pc = "measure" => tgt \notin Flagged /\ pend \subseteq FilesOf(tgt)
    /\ pc \in StageSteps => tgt \notin Flagged /\ Named(cur) \subseteq FilesOf(tgt)

\* It takes all that are there.
TakesAll ==
    /\ nextv # 0
    /\ pc = "measure" => \A f \in FilesOf(tgt) : src[f] # 0 => f \in pend
    /\ pc \in StageSteps => \A f \in FilesOf(tgt) : src[f] # 0 => f \in Named(cur)

\* What the records measured of the files in the trash, and of the files the
\* deletion has still to move.
Held == {b \in TxIds \X Files \X (1 .. MaxSize) :
            staged[b[1]][b[2]] # 0 /\ b[3] <= Size[b[2]][staged[b[1]][b[2]]]
                                  /\ b[3] <= Size[b[2]][entry[b[1]][b[2]]]}
Planned == {b \in {cur} \X pend \X (1 .. MaxSize) : b[3] <= Size[b[2]][entry[b[1]][b[2]]]}

\* The budget is checked before the folder is made, for every file the
\* deletion will stage and for its records: they have room all along.
RoomForAll ==
    /\ Cardinality(Held) + Cardinality(Journals) + Cardinality(Receipts) <= MaxTrash
    /\ pc \in StageSteps
          => Cardinality(Held \cup Planned) + Cardinality(Journals \cup {cur})
                + Cardinality(Receipts \cup {cur}) <= MaxTrash
    /\ pc = "rename" => moving \in pend

\* Between any two steps a single unfinished transaction can be put back.
Recoverable ==
    /\ edits = 0
    /\ \A s, t \in folders \ Committed : s = t
    /\ \A t \in folders \ Committed : Restorable(t)
    /\ ReceiptComplete
    /\ AtStep
=============================================================================
