---------------------------- MODULE PeerTransfer ----------------------------
(***************************************************************************)
(* A project that one manager takes over from another                      *)
(* (api/manager_peers_api.py).                                             *)
(*                                                                         *)
(* A push is sent by its manager and received here; a pull is fetched from *)
(* here.  Either way the archive is unpacked beside the destination        *)
(* folder, an old project is renamed to a backup, the new one is renamed   *)
(* into its place, and the manifest is saved.  A journal names each phase  *)
(* before the step it announces.  Whatever fails is undone; a manager that *)
(* dies in between reads journal, disk and manifest at its next start and  *)
(* settles what it finds, before it runs a project.                        *)
(*                                                                         *)
(* One destination, a project id with its folder, and several transfers to *)
(* it.  A directory is known by its identity (device and inode), here the  *)
(* transfer and the attempt that unpacked it; identities are not reused.   *)
(* `copy' is `reject' under another id, and a cancelled transfer is treated *)
(* as a failed one.  Nobody else touches the folder.                       *)
(***************************************************************************)
EXTENDS Naturals, FiniteSets

CONSTANTS
    Transfers,    \* transfer ids
    Old, None,    \* the project that was there before; no directory
    Requests,     \* what the transfers may ask for: way, policy, start
    MaxAttempts,  \* bound: attempts of one transfer
    MaxTroubles   \* bound: operations that fail, and ends of a manager

Ways == {"push", "pull"}
Policies == {"reject", "replace"}

ASSUME RequestsAssumption ==
    Requests \subseteq [Transfers -> [way : Ways, policy : Policies, start : BOOLEAN]]
ASSUME BoundsAssumption ==
    MaxAttempts \in Nat /\ MaxTroubles \in Nat
Unpacked == Transfers \X (1..MaxAttempts)
ASSUME IdentitiesAssumption == Old # None /\ Old \notin Unpacked /\ None \notin Unpacked

VARIABLES
    ask,          \* what each transfer asks for
    target,       \* what the destination folder is
    backup,       \* what each transfer's backup folder is
    aside,        \* what each transfer's quarantine folder is
    listed,       \* the manifest names the project
    running,      \* the project runs
    journal,      \* the durable entries of receipts and pulls
    run,          \* the attempts under way
    manager,      \* the receiving manager: down, reconciling, or up
    todo,         \* entries that the reconciliation has not looked at
    mem,          \* the entries as the reconciliation has changed them
    sender,       \* the sending managers of pushes
    troubles

folders == <<target, backup, aside>>
recovery == <<manager, todo, mem>>
vars == <<ask, folders, listed, running, journal, run, recovery, sender, troubles>>

Directories == Unpacked \cup {Old, None}
Statuses ==
    {"none", "active", "error", "complete", "applied_pending_start", "recovery_required"}
(* The phases that are told apart: `extracting' is also claimed and         *)
(* validated, `downloading' also queued, and a settled entry keeps its last.*)
Phases ==
    {"none", "downloading", "extracting", "backing_up", "backup_created", "installing",
     "installed", "committing_manifest", "manifest_committed", "starting"}
Entries ==
    [status : Statuses, phase : Phases, backupId : Directories, installedId : Directories]
NoEntry == [status |-> "none", phase |-> "none", backupId |-> None, installedId |-> None]

(* Where an attempt is: what it waits for, what it writes to the journal   *)
(* or does next, or how far it has unwound.                                *)
Awaits == {"download", "unpack", "start", "start applied"}
Notes == {"backing_up", "backup_created", "installing", "installed", "committing_manifest",
          "manifest_committed", "starting"}
Before == {"move out", "move in", "save manifest"} \cup (Notes \ {"manifest_committed", "starting"})
Undoing == {"undo install", "undo backup", "give up", "settle"}
After == {"manifest_committed", "starting", "receipt", "settle committed"}
Runs == [at : {"idle"} \cup Awaits \cup Before \cup Undoing \cup After,
         attempt : 0..MaxAttempts]

Pushes == {t \in Transfers : ask[t].way = "push"}
Pulls == Transfers \ Pushes
Stage(t) == <<t, run[t].attempt>>
Replaces(t) == ask[t].policy = "replace"

(* Between two awaits a coroutine has the event loop, and with it the      *)
(* locks of the destination, to itself.                                    *)
Busy == \E t \in Transfers : run[t].at \notin Awaits \cup {"idle"}
Serving == manager = "up" /\ ~Busy

Goes(t, place) == run' = [run EXCEPT ![t].at = place]
(* _journal_update, _pull_journal_update: nothing changes an entry that an *)
(* administrator has to look at.                                           *)
Update(t, entry) ==
    journal' = IF journal[t].status = "recovery_required" THEN journal
               ELSE [journal EXCEPT ![t] = entry]
(* _save_receipt, _save_pull_receipt: the receipt replaces the entry.      *)
Receipt == [NoEntry EXCEPT !.status = "complete"]
CanFail == troubles < MaxTroubles /\ troubles' = troubles + 1

(* The answer of receive_transfer reaches a sender that still waits for it.*)
Reply(t, answer) ==
    sender' = IF sender[t].state = "posted" /\ sender[t].reply = "none"
              THEN [sender EXCEPT ![t].reply = answer] ELSE sender

-----------------------------------------------------------------------------
(* Claiming a transfer id: receive_transfer and begin_pull.                *)

MayClaim(t) == IF Replaces(t) THEN listed /\ ~running ELSE ~listed /\ target = None

Claims(t, place, entry) ==
    /\ run[t].attempt < MaxAttempts
    /\ run' = [run EXCEPT ![t].at = place, ![t].attempt = @ + 1]
    /\ journal' = [journal EXCEPT ![t] = entry]

Arrives(t, answer) ==
    sender' = [sender EXCEPT ![t].state = "posted", ![t].reply = answer]

(* A request with an id that is settled, under way or given up.            *)
ReceiveKnown(t) ==
    /\ Serving /\ sender[t].state = "posting"
    /\ journal[t].status \in {"complete", "active", "recovery_required"}
    /\ Arrives(t, IF journal[t].status = "complete" THEN "ok" ELSE "refused")
    /\ UNCHANGED <<ask, folders, listed, running, journal, run, recovery, troubles>>

ReceiveNew(t) ==
    /\ Serving /\ sender[t].state = "posting"
    /\ journal[t].status \in {"none", "error"}
    /\ \/ /\ MayClaim(t)
          /\ Claims(t, "unpack", [NoEntry EXCEPT !.status = "active", !.phase = "extracting"])
          /\ Arrives(t, "none")
       \/ /\ ~MayClaim(t)
          /\ Arrives(t, "refused")
          /\ UNCHANGED <<journal, run>>
    /\ UNCHANGED <<ask, folders, listed, running, recovery, troubles>>

(* The entry of a pull is merged into what an earlier attempt left.        *)
PullEntryMutant(t) == [journal[t] EXCEPT !.phase = "downloading"]
PullEntry(t) == [journal[t] EXCEPT !.status = "active", !.phase = "downloading"]
BeginPull(t) ==
    /\ Serving /\ t \in Pulls /\ run[t].at = "idle"
    /\ journal[t].status \in {"none", "error", "active"}
    /\ MayClaim(t)
    /\ Claims(t, "download", PullEntry(t))
    /\ UNCHANGED <<ask, folders, listed, running, recovery, sender, troubles>>

(* A retry of what was installed and not started: only where the folder is *)
(* still the one that was installed, which is looked at before the start is*)
(* waited for.                                                             *)
StillApplied(t) == listed /\ target = journal[t].installedId
RetryStart(t) ==
    /\ Serving /\ run[t].at = "idle"
    /\ journal[t].status = "applied_pending_start"
    /\ t \in Pushes => sender[t].state = "posting"
    /\ \/ /\ StillApplied(t)
          /\ Goes(t, "start applied")
          /\ IF t \in Pushes THEN Arrives(t, "none") ELSE UNCHANGED sender
       \/ t \in Pushes /\ Arrives(t, "refused") /\ UNCHANGED run
    /\ UNCHANGED <<ask, folders, listed, running, journal, recovery, troubles>>

CanRun == listed /\ target # None
StartApplied(t) ==
    /\ Serving /\ run[t].at = "start applied"
    /\ \/ /\ CanRun /\ running' = TRUE
          /\ journal' = [journal EXCEPT ![t] = Receipt]
          /\ Reply(t, "ok")
       \/ Reply(t, "refused") /\ UNCHANGED <<running, journal>>
    /\ Goes(t, "idle")
    /\ UNCHANGED <<ask, folders, listed, recovery, troubles>>

-----------------------------------------------------------------------------
(* An attempt: _run_pull and _stage_and_install.                           *)

Downloaded(t) ==
    /\ Serving /\ run[t].at = "download"
    /\ Update(t, [journal[t] EXCEPT !.phase = "extracting"])
    /\ Goes(t, "unpack")
    /\ UNCHANGED <<ask, folders, listed, running, recovery, sender, troubles>>

(* The archive is refused, a lock is not had, the token is revoked, or the *)
(* transfer is cancelled: by request, by the deadline or a lost connection.*)
Stops(t) ==
    /\ Serving /\ run[t].at \in {"download", "unpack"}
    /\ Goes(t, "settle")
    /\ UNCHANGED <<ask, folders, listed, running, journal, recovery, sender, troubles>>

(* The archive is unpacked and valid, and the locks are had: what the      *)
(* request was checked against is checked again.                           *)
MayInstallMutant(t) ==  \* trusts the check that the claim made
    IF Replaces(t) THEN listed /\ target # None /\ backup[t] = None ELSE ~listed
MayInstall(t) ==
    IF Replaces(t) THEN listed /\ ~running /\ target # None /\ backup[t] = None ELSE ~listed
Enter(t) ==
    /\ Serving /\ run[t].at = "unpack"
    /\ IF MayInstall(t)
       THEN Goes(t, IF Replaces(t) THEN "backing_up" ELSE "installing")
       ELSE Goes(t, "settle")
    /\ UNCHANGED <<ask, folders, listed, running, journal, recovery, sender, troubles>>

(* The journal says what comes next, with the identity of what will move.  *)
Noted(t, phase) ==
    [journal[t] EXCEPT
        !.phase = phase,
        !.backupId = IF phase = "backing_up" THEN target ELSE @,
        !.installedId = IF phase \in {"installing", "installed"} THEN Stage(t) ELSE @]
Following(t) ==
    CASE run[t].at = "backing_up" -> "move out"
      [] run[t].at = "backup_created" -> "installing"
      [] run[t].at = "installing" -> "move in"
      [] run[t].at = "installed" -> "committing_manifest"
      [] run[t].at = "committing_manifest" -> "save manifest"
      [] run[t].at = "manifest_committed" -> IF ask[t].start THEN "starting" ELSE "receipt"
      [] run[t].at = "starting" -> "start"
Note(t) ==
    /\ run[t].at \in Notes
    /\ Update(t, Noted(t, run[t].at))
    /\ Goes(t, Following(t))
    /\ UNCHANGED <<ask, folders, listed, running, recovery, sender, troubles>>

MoveOut(t) ==
    /\ run[t].at = "move out"
    /\ backup' = [backup EXCEPT ![t] = target]
    /\ target' = None
    /\ Goes(t, "backup_created")
    /\ UNCHANGED <<ask, aside, listed, running, journal, recovery, sender, troubles>>

(* Where something is in the way, the rename refuses.                      *)
FirstUndone(t) ==
    IF target = Stage(t) THEN "undo install"
    ELSE IF backup[t] # None THEN "undo backup" ELSE "settle"
MoveIn(t) ==
    /\ run[t].at = "move in"
    /\ IF target = None
       THEN target' = Stage(t) /\ Goes(t, "installed")
       ELSE UNCHANGED target /\ Goes(t, FirstUndone(t))
    /\ UNCHANGED <<ask, backup, aside, listed, running, journal, recovery, sender, troubles>>

SaveManifest(t) ==
    /\ run[t].at = "save manifest"
    /\ listed' = TRUE
    /\ Goes(t, "manifest_committed")
    /\ UNCHANGED <<ask, folders, running, journal, recovery, sender, troubles>>

(* An operation before the commit fails, or the token is revoked.          *)
Fails(t) ==
    /\ run[t].at \in Before /\ CanFail
    /\ Goes(t, FirstUndone(t))
    /\ UNCHANGED <<ask, folders, listed, running, journal, recovery, sender>>

(* After it, a failure is one of reporting.                                *)
FailsLate(t) ==
    /\ CanFail
    /\ \/ /\ run[t].at \in {"manifest_committed", "receipt"}
          /\ Goes(t, "settle committed")
       \/ /\ run[t].at = "starting" \* the thumbnail of a replaced project, or the start
          /\ \/ Replaces(t) /\ Goes(t, "settle committed")
             \/ Goes(t, "receipt")
    /\ UNCHANGED <<ask, folders, listed, running, journal, recovery, sender>>

UndoInstall(t) ==
    /\ run[t].at = "undo install"
    /\ \/ /\ target' = None
          /\ Goes(t, IF backup[t] # None THEN "undo backup" ELSE "settle")
          /\ UNCHANGED troubles
       \/ CanFail /\ Goes(t, "give up") /\ UNCHANGED target
    /\ UNCHANGED <<ask, backup, aside, listed, running, journal, recovery, sender>>

UndoBackup(t) ==
    /\ run[t].at = "undo backup"
    /\ \/ /\ target' = backup[t]
          /\ backup' = [backup EXCEPT ![t] = None]
          /\ Goes(t, "settle")
          /\ UNCHANGED troubles
       \/ CanFail /\ Goes(t, "give up") /\ UNCHANGED <<target, backup>>
    /\ UNCHANGED <<ask, aside, listed, running, journal, recovery, sender>>

GiveUp(t) ==
    /\ run[t].at = "give up"
    /\ \/ Update(t, [journal[t] EXCEPT !.status = "recovery_required"]) /\ UNCHANGED troubles
       \/ CanFail /\ UNCHANGED journal
    /\ Goes(t, "settle")
    /\ UNCHANGED <<ask, folders, listed, running, recovery, sender>>

(* The last write; its failure is passed over.                             *)
Settle(t) ==
    /\ run[t].at = "settle"
    /\ \/ Update(t, [journal[t] EXCEPT !.status = "error"]) /\ UNCHANGED troubles
       \/ CanFail /\ UNCHANGED journal
    /\ Goes(t, "idle")
    /\ Reply(t, "refused")
    /\ UNCHANGED <<ask, folders, listed, running, recovery>>

(* _journal_committed_outcome, _pull_journal_committed_outcome.            *)
CommittedOutcome(t) ==
    IF ask[t].start THEN Update(t, [journal[t] EXCEPT !.status = "applied_pending_start"])
    ELSE journal' = [journal EXCEPT ![t] = Receipt]
SettleCommitted(t) ==
    /\ run[t].at = "settle committed"
    /\ \/ CommittedOutcome(t) /\ UNCHANGED troubles
       \/ CanFail /\ UNCHANGED journal
    /\ Goes(t, "idle")
    /\ Reply(t, "refused")
    /\ UNCHANGED <<ask, folders, listed, running, recovery>>

(* The start takes as long as the project needs; the locks are released,   *)
(* and the attempt may be cancelled.                                       *)
Start(t) ==
    /\ Serving /\ run[t].at = "start"
    /\ running' \in {running, CanRun}
    /\ Goes(t, "receipt") \/ Goes(t, "settle committed")
    /\ UNCHANGED <<ask, folders, listed, journal, recovery, sender, troubles>>

WriteReceipt(t) ==
    /\ run[t].at = "receipt"
    /\ journal' = [journal EXCEPT ![t] = Receipt]
    /\ Goes(t, "idle")
    /\ Reply(t, "ok")
    /\ UNCHANGED <<ask, folders, listed, running, recovery, troubles>>

(* Starts and stops of others take the operation lock.                     *)
UserSwitches ==
    /\ Serving /\ (~running => CanRun)
    /\ running' = ~running
    /\ UNCHANGED <<ask, folders, listed, journal, run, recovery, sender, troubles>>

-----------------------------------------------------------------------------
(* A manager that ends, and reconcile_transfer_journals at its next start. *)

Crash ==
    /\ manager # "down" /\ CanFail
    /\ manager' = "down"
    /\ todo' = {}
    /\ mem' = [t \in Transfers |-> NoEntry]
    /\ run' = [t \in Transfers |-> [run[t] EXCEPT !.at = "idle"]]
    /\ UNCHANGED <<ask, folders, listed, running, journal, sender>>

Interrupted(transfers) == {t \in transfers : journal[t].status = "active"}
Boot ==
    /\ manager = "down"
    /\ manager' = "receipts"
    /\ todo' = Interrupted(Pushes)
    /\ mem' = journal
    /\ UNCHANGED <<ask, folders, listed, running, journal, run, sender, troubles>>

NeverMoved(t) == mem[t].phase = "extracting"
(* The destination is looked at where the manifest names it and an install *)
(* was announced; a folder that is not there cannot be.                    *)
Looks(t) == ~NeverMoved(t) /\ listed /\ mem[t].installedId # None
CommittedMutant(t) ==  \* trusts the phase, which is written after the manifest
    Looks(t) /\ target = mem[t].installedId /\ mem[t].phase \in {"manifest_committed", "starting"}
Committed(t) == Looks(t) /\ target = mem[t].installedId
CannotLook(t) == Looks(t) /\ target = None
BackupIsProven(t) == backup[t] = mem[t].backupId
BackupOnly(t) ==
    /\ target = None /\ ~CannotLook(t) /\ mem[t].backupId # None /\ BackupIsProven(t)
    /\ mem[t].phase \in {"backing_up", "backup_created", "installing"}
NotYetBackedUp(t) ==
    /\ mem[t].phase = "backing_up"
    /\ target # None /\ target = mem[t].backupId /\ backup[t] = None
NotYetInstalled(t) ==
    /\ mem[t].phase = "installing"
    /\ target = None /\ ~CannotLook(t) /\ mem[t].backupId = None
InstalledOnly(t) ==
    /\ mem[t].phase \in {"installing", "installed", "committing_manifest"}
    /\ ~Committed(t) /\ target # None /\ target = mem[t].installedId
    /\ mem[t].backupId # None => BackupIsProven(t)
    /\ aside[t] = None

(* _reconcile_install_journal, for one entry.                              *)
Reconciles(t, status) ==
    /\ manager \in {"receipts", "pulls"} /\ t \in todo
    /\ todo' = todo \ {t}
    /\ mem' = [mem EXCEPT ![t].status = status]
    /\ UNCHANGED <<ask, listed, running, journal, run, manager, sender>>

ReconcileUntouched(t) ==
    /\ NeverMoved(t) \/ NotYetBackedUp(t) \/ NotYetInstalled(t)
    /\ ~Committed(t)
    /\ Reconciles(t, "error")
    /\ UNCHANGED <<folders, troubles>>

ReconcileCommitted(t) ==
    /\ Committed(t)
    /\ Reconciles(t, IF ask[t].start THEN "applied_pending_start" ELSE "complete")
    /\ UNCHANGED <<folders, troubles>>

RestoreBackup(t) ==
    /\ BackupOnly(t)
    /\ Reconciles(t, "error")
    /\ target' = backup[t]
    /\ backup' = [backup EXCEPT ![t] = None]
    /\ UNCHANGED <<aside, troubles>>

Quarantine(t) ==
    /\ InstalledOnly(t)
    /\ Reconciles(t, "error")
    /\ aside' = [aside EXCEPT ![t] = target]
    /\ target' = backup[t]
    /\ backup' = [backup EXCEPT ![t] = None]
    /\ UNCHANGED troubles

(* What cannot be proven is left to an administrator, and so is what could *)
(* be and then failed.                                                     *)
Unproven(t) ==
    ~(NeverMoved(t) \/ Committed(t) \/ BackupOnly(t) \/ NotYetBackedUp(t)
      \/ NotYetInstalled(t) \/ InstalledOnly(t))
RequireRecovery(t) ==
    /\ \/ Unproven(t) /\ UNCHANGED troubles
       \/ (BackupOnly(t) \/ InstalledOnly(t)) /\ CanFail
    /\ Reconciles(t, "recovery_required")
    /\ UNCHANGED folders

(* The journal of receipts is written when all its entries are resolved,   *)
(* then that of pulls; then projects are resumed.                          *)
WriteReceipts ==
    /\ manager = "receipts" /\ todo = {}
    /\ journal' = [t \in Transfers |-> IF t \in Pushes THEN mem[t] ELSE journal[t]]
    /\ manager' = "pulls"
    /\ todo' = Interrupted(Pulls)
    /\ UNCHANGED <<ask, folders, listed, running, run, mem, sender, troubles>>

WritePulls ==
    /\ manager = "pulls" /\ todo = {}
    /\ journal' = mem
    /\ manager' = "up"
    /\ mem' = [t \in Transfers |-> NoEntry]
    /\ running' \in {FALSE, running /\ CanRun}
    /\ UNCHANGED <<ask, folders, listed, run, todo, sender, troubles>>

-----------------------------------------------------------------------------
(* The sending manager of a push: begin_transfer and _send_transfer.       *)

SenderBegins(t) ==
    /\ t \in Pushes
    /\ sender[t].saved # "complete" /\ sender[t].state \notin {"posting", "posted", "complete"}
    /\ sender' = [sender EXCEPT ![t].state = "posting", ![t].saved = "active", ![t].reply = "none"]
    /\ UNCHANGED <<ask, folders, listed, running, journal, run, recovery, troubles>>

SenderEnds(t, status) ==
    /\ sender' = [sender EXCEPT ![t].state = status, ![t].saved = status,
                                ![t].reply = "none",
                                ![t].asks = @ \/ status # "complete"]
    /\ UNCHANGED <<ask, folders, listed, running, journal, run, recovery, troubles>>

SenderAnswered(t) ==
    /\ sender[t].state = "posted" /\ sender[t].reply # "none"
    /\ SenderEnds(t, IF sender[t].reply = "ok" THEN "complete" ELSE "error")

(* Packing fails, the answer does not come, or the operator cancels.       *)
SenderGivesUp(t) ==
    /\ sender[t].state \in {"posting", "posted"}
    /\ SenderEnds(t, "error")

ProvesCommitMutant == {"complete", "applied_pending_start", "active"}
ProvesCommit == {"complete", "applied_pending_start"}
(* _reconcile_terminal_state_with_receiver: the question may stay          *)
(* unanswered, and a retry may have begun before it is.                    *)
SenderAsks(t) ==
    /\ sender[t].asks
    /\ LET proven == manager = "up" /\ journal[t].status \in ProvesCommit
       IN  sender' = [sender EXCEPT
                         ![t].saved = IF proven THEN "complete" ELSE @,
                         ![t].state = IF proven /\ @ = "error" THEN "complete" ELSE @,
                         ![t].asks = FALSE]
    /\ UNCHANGED <<ask, folders, listed, running, journal, run, recovery, troubles>>

SenderRestarts(t) ==
    /\ sender[t].state # "none" /\ CanFail
    /\ sender' = [sender EXCEPT ![t].state = "none", ![t].reply = "none", ![t].asks = FALSE,
                                ![t].saved = IF @ = "active" THEN "error" ELSE @]
    /\ UNCHANGED <<ask, folders, listed, running, journal, run, recovery>>

-----------------------------------------------------------------------------
Init ==
    /\ ask \in Requests
    /\ target \in {Old, None}
    /\ listed = (target = Old)
    /\ running \in BOOLEAN /\ (running => listed)
    /\ backup = [t \in Transfers |-> None]
    /\ aside = [t \in Transfers |-> None]
    /\ journal = [t \in Transfers |-> NoEntry]
    /\ run = [t \in Transfers |-> [at |-> "idle", attempt |-> 0]]
    /\ manager = "up" /\ todo = {} /\ mem = [t \in Transfers |-> NoEntry]
    /\ sender = [t \in Transfers |->
                    [state |-> "none", saved |-> "none", reply |-> "none", asks |-> FALSE]]
    /\ troubles = 0

Attempt(t) ==
    \/ Downloaded(t) \/ Stops(t) \/ Enter(t) \/ Note(t)
    \/ MoveOut(t) \/ MoveIn(t) \/ SaveManifest(t) \/ Fails(t) \/ FailsLate(t)
    \/ UndoInstall(t) \/ UndoBackup(t) \/ GiveUp(t) \/ Settle(t) \/ SettleCommitted(t)
    \/ Start(t) \/ WriteReceipt(t) \/ StartApplied(t)
Request(t) == ReceiveKnown(t) \/ ReceiveNew(t) \/ BeginPull(t) \/ RetryStart(t)
Reconcile(t) ==
    \/ ReconcileUntouched(t) \/ ReconcileCommitted(t) \/ RestoreBackup(t) \/ Quarantine(t)
    \/ RequireRecovery(t)
Sender(t) ==
    \/ SenderBegins(t) \/ SenderAnswered(t) \/ SenderGivesUp(t) \/ SenderAsks(t)
    \/ SenderRestarts(t)
Next ==
    \/ \E t \in Transfers : Request(t) \/ Attempt(t) \/ Reconcile(t) \/ Sender(t)
    \/ UserSwitches \/ Crash \/ Boot \/ WriteReceipts \/ WritePulls

Spec == Init /\ [][Next]_vars

-----------------------------------------------------------------------------
AtWork == (Awaits \ {"start applied"}) \cup Before \cup After

(* Every variable has its type, and an attempt that has not come to its    *)
(* outcome is active in the journal, so that a restart will look at it.    *)
TypeOK ==
    /\ ask \in Requests
    /\ target \in Directories
    /\ backup \in [Transfers -> Directories] /\ aside \in [Transfers -> Directories]
    /\ listed \in BOOLEAN /\ running \in BOOLEAN
    /\ journal \in [Transfers -> Entries] /\ mem \in [Transfers -> Entries]
    /\ run \in [Transfers -> Runs]
    /\ manager \in {"down", "receipts", "pulls", "up"}
    /\ todo \subseteq Transfers
    /\ sender \in [Transfers ->
         [state : {"none", "posting", "posted", "complete", "error"},
          saved : {"none", "active", "complete", "error"},
          reply : {"none", "ok", "refused"}, asks : BOOLEAN]]
    /\ troubles \in 0..MaxTroubles
    /\ \A t \in Transfers : run[t].at \in AtWork => journal[t].status = "active"

Backups == {backup[t] : t \in Transfers}
Installs(t) == {n \in 1..MaxAttempts : <<t, n>> \in {target} \cup Backups}
Settled ==
    /\ manager = "up" /\ ~Busy
    /\ \A t \in Transfers : journal[t].status # "recovery_required"

(* Where no transfer is at work and none waits for an administrator, the   *)
(* manifest names the project exactly if its folder is there: an install   *)
(* happens as a whole or not at all (_stage_and_install, and               *)
(* _reconcile_install_journal after a crash), and at most once however     *)
(* often the transfer is retried.  A project that runs is never moved.     *)
(* (Up to two failures: an operation, its undoing and the word of it to    *)
(* the journal may all fail, and then nothing waits for an administrator.) *)
ProjectInPlace ==
    /\ Settled /\ troubles <= 2 => (listed <=> target # None)
    /\ \A t \in Transfers : Cardinality(Installs(t)) <= 1
    /\ running => CanRun

(* A project that was in place, and the one that it replaced, stay on disk *)
(* as the project or as a backup, whatever fails and whenever the manager  *)
(* dies.  An install that is not committed is none yet.                    *)
Uncommitted ==
    \E t \in Transfers : target = Stage(t) /\ run[t].at \in Before \cup Undoing
Kept == (Backups \cup IF listed /\ ~Uncommitted THEN {target} ELSE {}) \ {None}
NothingIsLost == [][Kept \subseteq ({target} \cup Backups)']_vars

(* A verdict is true of the disk when it is given: what the journal or the *)
(* sender reports as installed has been, and an attempt that failed or was *)
(* cancelled left neither its directory nor the old project in a backup.   *)
(* (Up to two failures: where an operation, its undoing and the word of it *)
(* to the journal fail, the last journal entry says that it was undone.)   *)
Verdict(t, statuses) == journal[t].status \notin statuses /\ journal'[t].status \in statuses
VerdictsAreTrue ==
    [][\A t \in Transfers :
         /\ \/ Verdict(t, {"complete", "applied_pending_start"})
            \/ sender[t].saved # "complete" /\ sender'[t].saved = "complete"
            => Installs(t)' # {}
         /\ Verdict(t, {"error"}) /\ troubles <= 2 =>
               /\ run[t].attempt \notin Installs(t)'
               /\ Installs(t)' = {} => backup'[t] = None]_vars
=============================================================================
