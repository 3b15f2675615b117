----------------------------- MODULE PeerProofs -----------------------------
(***************************************************************************)
(* No project is lost to a transfer, for any transfers to a destination,   *)
(* any attempts, failures and crashes.                                     *)
(*                                                                         *)
(* An attempt that holds the event loop knows what the destination folder  *)
(* is, because at most one attempt holds it, and none does while a manager *)
(* is down or reconciles: what is moved away to be undone is then the      *)
(* attempt's own directory, and a backup is never renamed onto another.    *)
(* The second part is about where things are: what the journal has to say  *)
(* of an attempt that is in between, so that a restart does not take the   *)
(* disk for settled, and why a retry cannot install twice.  The third is   *)
(* about what the journal and the sender are told of it.                   *)
(***************************************************************************)
EXTENDS PeerTransfer, FiniteSetTheorems, TLAPS

Quiet == Awaits \cup {"idle"}

(* Where the attempts are, and what that says of the folders.              *)
RunsOK ==
    /\ run \in [Transfers -> Runs]
    /\ \A t, u \in Transfers : t # u => run[t].at \in Quiet \/ run[u].at \in Quiet
    /\ manager # "up" => \A t \in Transfers : run[t].at = "idle"
    /\ \A t \in Transfers :
         run[t].at \in {"download", "unpack"} \cup Before => run[t].attempt # 0

FolderOK(t) ==
    /\ ~Replaces(t) => backup[t] = None
    /\ run[t].at \in {"backing_up", "move out"} => Replaces(t) /\ backup[t] = None
    /\ run[t].at \in {"backup_created", "installing", "move in"} /\ backup[t] # None
         => target = None
    /\ run[t].at \in {"installed", "committing_manifest", "save manifest", "undo install"}
         => target = Stage(t)
    /\ run[t].at = "undo backup" => target = None
FoldersOK == \A t \in Transfers : FolderOK(t)

Held == {"idle"} \cup Awaits \cup Before \cup Undoing \cup After

-----------------------------------------------------------------------------
(* An attempt goes on: it was the one that held the event loop, or nobody  *)
(* did, or it waits from here.                                             *)
LEMMA GoesOn ==
    ASSUME RunsOK, NEW t \in Transfers, NEW place \in Held, Goes(t, place),
           manager = "up", manager' = manager,
           run[t].at \notin Quiet \/ ~Busy \/ place \in Quiet,
           place \in {"download", "unpack"} \cup Before => run[t].attempt # 0
    PROVE  /\ RunsOK'
           /\ run'[t].at = place /\ run'[t].attempt = run[t].attempt
           /\ \A u \in Transfers \ {t} : run'[u] = run[u]
<1>1. run' \in [Transfers -> Runs]
  BY DEF RunsOK, Goes, Runs, Held
<1>2. /\ run'[t].at = place /\ run'[t].attempt = run[t].attempt
      /\ \A u \in Transfers \ {t} : run'[u] = run[u]
  BY DEF RunsOK, Goes, Runs
<1>3. \A u, v \in Transfers : u # v => run'[u].at \in Quiet \/ run'[v].at \in Quiet
  BY <1>2 DEF RunsOK, Busy, Quiet
<1>4. \A u \in Transfers :
         run'[u].at \in {"download", "unpack"} \cup Before => run'[u].attempt # 0
  BY <1>2 DEF RunsOK
<1> QED BY <1>1, <1>2, <1>3, <1>4 DEF RunsOK

(* Whoever is at work has the manager up, and the others wait.             *)
LEMMA Alone ==
    ASSUME RunsOK, NEW t \in Transfers, run[t].at \notin Quiet
    PROVE  manager = "up" /\ \A u \in Transfers \ {t} : run[u].at \in Quiet
BY DEF RunsOK, Quiet

(* A claim begins an attempt, one more than the last.                      *)
LEMMA ClaimGoesOn ==
    ASSUME RunsOK, NEW t \in Transfers, NEW place \in {"download", "unpack"}, NEW entry,
           Claims(t, place, entry), manager = "up", manager' = manager
    PROVE  RunsOK' /\ run'[t].at = place /\ \A u \in Transfers \ {t} : run'[u] = run[u]
<1>1. MaxAttempts \in Nat BY BoundsAssumption
<1> DEFINE claimed == [at |-> place, attempt |-> run[t].attempt + 1]
<1>2. run[t] \in Runs /\ run[t].attempt \in 0..MaxAttempts
  BY DEF RunsOK, Runs
<1>3. run[t].attempt + 1 \in 0..MaxAttempts /\ run[t].attempt + 1 # 0
  BY <1>1, <1>2 DEF Claims
<1>4. run' = [run EXCEPT ![t] = claimed]
  BY <1>2 DEF Claims, Runs, RunsOK
<1>5. claimed \in Runs
  BY <1>3 DEF Runs, Awaits
<1>6. run' \in [Transfers -> Runs] /\ run'[t] = claimed /\ \A u \in Transfers \ {t} : run'[u] = run[u]
  BY <1>4, <1>5 DEF RunsOK
<1>7. run'[t].at = place /\ run'[t].attempt # 0
  BY <1>3, <1>6
<1>8. \A u, v \in Transfers : u # v => run'[u].at \in Quiet \/ run'[v].at \in Quiet
  BY <1>6, <1>7 DEF RunsOK, Quiet, Awaits
<1>9. \A u \in Transfers :
         run'[u].at \in {"download", "unpack"} \cup Before => run'[u].attempt # 0
  BY <1>6, <1>7 DEF RunsOK
<1> HIDE DEF claimed
<1> QED BY <1>6, <1>7, <1>8, <1>9 DEF RunsOK

-----------------------------------------------------------------------------
(* The folders under a step of one attempt.                                *)
Keeps == Kept \subseteq ({target} \cup Backups)'

LEMMA Unmoved ==
    ASSUME FoldersOK, UNCHANGED <<ask, target, backup>>, NEW t \in Transfers,
           \A u \in Transfers \ {t} : run'[u] = run[u],
           FolderOK(t)'
    PROVE  FoldersOK' /\ Keeps
<1>1. \A u \in Transfers \ {t} : FolderOK(u)'
  BY DEF FoldersOK, FolderOK, Replaces, Stage
<1> QED BY <1>1 DEF FoldersOK, Keeps, Kept, Backups

LEMMA MovedAlone ==
    ASSUME FoldersOK, ask' = ask, NEW t \in Transfers,
           \A u \in Transfers \ {t} :
               run[u].at \in Quiet /\ run'[u] = run[u] /\ backup'[u] = backup[u],
           FolderOK(t)'
    PROVE  FoldersOK'
<1>1. \A u \in Transfers \ {t} : FolderOK(u)'
  BY DEF FoldersOK, FolderOK, Replaces, Quiet, Awaits
<1> QED BY <1>1 DEF FoldersOK

(* The steps that leave the folders alone.                                 *)
LEMMA DownloadedKeeps ==
    ASSUME RunsOK, FoldersOK, NEW t \in Transfers, Downloaded(t) \/ Stops(t)
    PROVE  RunsOK' /\ FoldersOK' /\ Keeps
<1> DEFINE place == IF Downloaded(t) THEN "unpack" ELSE "settle"
<1>1. Goes(t, place) /\ manager = "up" /\ manager' = manager /\ ~Busy
  BY DEF Downloaded, Stops, Serving, recovery
<1>2. place \in Held /\ (place = "unpack" => run[t].attempt # 0)
  BY DEF Held, Awaits, Undoing, Downloaded, RunsOK
<1>3. place \notin Before /\ place # "download"
  BY DEF Before, Notes
<1>4. /\ RunsOK' /\ run'[t].at = place
      /\ \A u \in Transfers \ {t} : run'[u] = run[u]
  <2> HIDE DEF place
  <2> QED BY <1>1, <1>2, <1>3, GoesOn
<1>5. FolderOK(t)' /\ UNCHANGED <<ask, target, backup>>
  BY <1>4 DEF FolderOK, FoldersOK, Replaces, Downloaded, Stops, folders
<1> QED BY <1>4, <1>5, Unmoved

LEMMA EnterKeeps ==
    ASSUME RunsOK, FoldersOK, NEW t \in Transfers, Enter(t)
    PROVE  RunsOK' /\ FoldersOK' /\ Keeps
<1> DEFINE place == IF ~MayInstall(t) THEN "settle"
                    ELSE IF Replaces(t) THEN "backing_up" ELSE "installing"
<1>1. Goes(t, place) /\ manager = "up" /\ manager' = manager /\ ~Busy /\ run[t].attempt # 0
  BY DEF Enter, Serving, recovery, RunsOK
<1>2. place \in Held
  BY DEF Held, Before, Notes, Undoing
<1>3. /\ RunsOK' /\ run'[t].at = place
      /\ \A u \in Transfers \ {t} : run'[u] = run[u]
  <2> HIDE DEF place
  <2> QED BY <1>1, <1>2, GoesOn
<1>4. UNCHANGED <<ask, target, backup>>
  BY DEF Enter, folders
<1>5. FolderOK(t)'
  BY <1>3, <1>4 DEF FolderOK, FoldersOK, Replaces, MayInstall
<1> QED BY <1>3, <1>4, <1>5, Unmoved

LEMMA NoteKeeps ==
    ASSUME RunsOK, FoldersOK, NEW t \in Transfers, Note(t)
    PROVE  RunsOK' /\ FoldersOK' /\ Keeps
<1> DEFINE place == Following(t)
<1>1. /\ run[t].at \notin Quiet /\ Goes(t, place) /\ UNCHANGED <<ask, target, backup, manager>>
      /\ run[t].at \in Notes
  BY DEF Note, Notes, Quiet, Awaits, folders, recovery
<1>2. manager = "up"
  BY <1>1, Alone
<1>3. /\ run[t].at = "backing_up" => place = "move out"
      /\ run[t].at = "backup_created" => place = "installing"
      /\ run[t].at = "installing" => place = "move in"
      /\ run[t].at = "installed" => place = "committing_manifest"
      /\ run[t].at = "committing_manifest" => place = "save manifest"
      /\ run[t].at = "manifest_committed" => place \in {"starting", "receipt"}
      /\ run[t].at = "starting" => place = "start"
  BY DEF Following
<1>4. place \in Held /\ (place \in {"download", "unpack"} \cup Before => run[t].attempt # 0)
  BY <1>1, <1>3 DEF Held, Notes, Before, After, Awaits, RunsOK
<1> HIDE DEF place
<1>5. /\ RunsOK' /\ run'[t].at = place /\ run'[t].attempt = run[t].attempt
      /\ \A u \in Transfers \ {t} : run'[u] = run[u]
  BY <1>1, <1>2, <1>4, GoesOn
<1>6. FolderOK(t)'
  BY <1>1, <1>3, <1>5 DEF FolderOK, FoldersOK, Replaces, Stage, Notes
<1> QED BY <1>1, <1>5, <1>6, Unmoved

LEMMA FailsKeeps ==
    ASSUME RunsOK, FoldersOK, NEW t \in Transfers, Fails(t)
    PROVE  RunsOK' /\ FoldersOK' /\ Keeps
<1> DEFINE place == FirstUndone(t)
<1>1. /\ run[t].at \notin Quiet /\ Goes(t, place) /\ UNCHANGED <<ask, target, backup, manager>>
      /\ run[t].at \in Before
  BY DEF Fails, Before, Notes, Quiet, Awaits, folders, recovery
<1>2. manager = "up"
  BY <1>1, Alone
<1>3. place \in Held /\ place \notin {"download", "unpack"} \cup Before
  BY DEF FirstUndone, Held, Undoing, Before, Notes
<1>4. place = "undo backup" => target = None
  BY <1>1 DEF FirstUndone, FoldersOK, FolderOK, Before, Notes
<1>5. place = "undo install" => target = Stage(t)
  BY DEF FirstUndone
<1>6. place \notin {"backing_up", "move out", "backup_created", "installing", "move in",
                    "installed", "committing_manifest", "save manifest"}
  BY DEF FirstUndone
<1> HIDE DEF place
<1>7. /\ RunsOK' /\ run'[t].at = place /\ run'[t].attempt = run[t].attempt
      /\ \A u \in Transfers \ {t} : run'[u] = run[u]
  BY <1>1, <1>2, <1>3, GoesOn
<1>8. FolderOK(t)'
  BY <1>1, <1>4, <1>5, <1>6, <1>7 DEF FolderOK, FoldersOK, Replaces, Stage
<1> QED BY <1>1, <1>7, <1>8, Unmoved

(* What comes after the commit, and what ends an attempt, says nothing of  *)
(* the folders.                                                            *)
Elsewhere == (Held \ {"download", "unpack", "undo install", "undo backup"}) \ Before

LEMMA ElsewhereKeeps ==
    ASSUME RunsOK, FoldersOK, NEW t \in Transfers, NEW place \in Elsewhere, Goes(t, place),
           run[t].at \notin Quiet \/ (Serving /\ run[t].at # "idle"),
           UNCHANGED <<ask, target, backup, manager>>
    PROVE  RunsOK' /\ FoldersOK' /\ Keeps
<1>1. manager = "up" /\ place \in Held /\ place \notin {"download", "unpack"} \cup Before
  BY Alone DEF Serving, Elsewhere
<1>2. /\ RunsOK' /\ run'[t].at = place
      /\ \A u \in Transfers \ {t} : run'[u] = run[u]
  BY <1>1, GoesOn DEF Serving
<1>3. FolderOK(t)'
  BY <1>2 DEF FolderOK, FoldersOK, Replaces, Elsewhere, Before, Notes
<1> QED BY <1>2, <1>3, Unmoved

LEMMA FailsLateKeeps ==
    ASSUME RunsOK, FoldersOK, NEW t \in Transfers, FailsLate(t)
    PROVE  RunsOK' /\ FoldersOK' /\ Keeps
<1>1. /\ run[t].at \notin Quiet /\ UNCHANGED <<ask, target, backup, manager>>
      /\ Goes(t, "settle committed") \/ Goes(t, "receipt")
  BY DEF FailsLate, Quiet, Awaits, folders, recovery
<1>2. {"settle committed", "receipt"} \subseteq Elsewhere
  BY DEF Elsewhere, Held, After, Before, Notes
<1> QED BY <1>1, <1>2, ElsewhereKeeps

LEMMA SettlesKeeps ==
    ASSUME RunsOK, FoldersOK, NEW t \in Transfers,
           GiveUp(t) \/ Settle(t) \/ SettleCommitted(t) \/ WriteReceipt(t)
    PROVE  RunsOK' /\ FoldersOK' /\ Keeps
<1>1. /\ run[t].at \notin Quiet /\ UNCHANGED <<ask, target, backup, manager>>
      /\ Goes(t, "settle") \/ Goes(t, "idle")
  BY DEF GiveUp, Settle, SettleCommitted, WriteReceipt, Quiet, Awaits, folders, recovery
<1>2. {"settle", "idle"} \subseteq Elsewhere
  BY DEF Elsewhere, Held, Undoing, Before, Notes
<1> QED BY <1>1, <1>2, ElsewhereKeeps

LEMMA StartsKeeps ==
    ASSUME RunsOK, FoldersOK, NEW t \in Transfers, Start(t) \/ StartApplied(t)
    PROVE  RunsOK' /\ FoldersOK' /\ Keeps
<1>1. /\ Serving /\ run[t].at # "idle" /\ UNCHANGED <<ask, target, backup, manager>>
      /\ Goes(t, "receipt") \/ Goes(t, "settle committed") \/ Goes(t, "idle")
  BY DEF Start, StartApplied, folders, recovery
<1>2. {"receipt", "settle committed", "idle"} \subseteq Elsewhere
  BY DEF Elsewhere, Held, After, Before, Notes
<1> QED BY <1>1, <1>2, ElsewhereKeeps

LEMMA SaveManifestKeeps ==
    ASSUME RunsOK, FoldersOK, NEW t \in Transfers, SaveManifest(t)
    PROVE  RunsOK' /\ FoldersOK' /\ Keeps
<1>1. /\ run[t].at \notin Quiet /\ UNCHANGED <<ask, target, backup, manager>>
      /\ Goes(t, "manifest_committed")
  BY DEF SaveManifest, Quiet, Awaits, folders, recovery
<1>2. "manifest_committed" \in Elsewhere
  BY DEF Elsewhere, Held, After, Before, Notes
<1> QED BY <1>1, <1>2, ElsewhereKeeps

-----------------------------------------------------------------------------
(* The steps of an attempt that move a folder.                             *)

(* Where the attempt goes, when it has the event loop.                     *)
LEMMA MovesOn ==
    ASSUME RunsOK, NEW t \in Transfers, NEW place \in Held, Goes(t, place),
           run[t].at \notin Quiet, manager' = manager,
           place \in {"download", "unpack"} \cup Before => run[t].attempt # 0
    PROVE  /\ RunsOK'
           /\ run'[t].at = place /\ run'[t].attempt = run[t].attempt
           /\ \A u \in Transfers \ {t} : run[u].at \in Quiet /\ run'[u] = run[u]
<1>1. manager = "up" /\ \A u \in Transfers \ {t} : run[u].at \in Quiet
  BY Alone
<1> QED BY <1>1, GoesOn

LEMMA MoveOutKeeps ==
    ASSUME TypeOK, RunsOK, FoldersOK, NEW t \in Transfers, MoveOut(t)
    PROVE  RunsOK' /\ FoldersOK' /\ Keeps
<1>1. /\ run[t].at = "move out" /\ run[t].at \notin Quiet /\ Goes(t, "backup_created")
      /\ UNCHANGED <<ask, manager>>
      /\ target' = None /\ backup' = [backup EXCEPT ![t] = target]
  BY DEF MoveOut, Quiet, Awaits, recovery
<1>2. "backup_created" \in Held /\ run[t].attempt # 0
  BY <1>1 DEF Held, Before, Notes, RunsOK
<1>3. /\ RunsOK' /\ run'[t].at = "backup_created" /\ run'[t].attempt = run[t].attempt
      /\ \A u \in Transfers \ {t} : run[u].at \in Quiet /\ run'[u] = run[u]
  BY <1>1, <1>2, MovesOn
<1>4. /\ backup'[t] = target /\ \A u \in Transfers \ {t} : backup'[u] = backup[u]
      /\ backup[t] = None /\ Replaces(t)
  BY <1>1 DEF TypeOK, FoldersOK, FolderOK
<1>5. FolderOK(t)'
  BY <1>1, <1>3, <1>4 DEF FolderOK, Replaces
<1>6. Keeps
  BY <1>1, <1>4 DEF Keeps, Kept, Backups
<1> QED BY <1>1, <1>3, <1>4, <1>5, <1>6, MovedAlone

LEMMA MoveInKeeps ==
    ASSUME TypeOK, RunsOK, FoldersOK, NEW t \in Transfers, MoveIn(t)
    PROVE  RunsOK' /\ FoldersOK' /\ Keeps
<1> DEFINE place == IF target = None THEN "installed" ELSE FirstUndone(t)
<1>1. /\ run[t].at = "move in" /\ run[t].at \notin Quiet /\ Goes(t, place)
      /\ UNCHANGED <<ask, manager, backup>>
      /\ target' = IF target = None THEN Stage(t) ELSE target
  BY DEF MoveIn, Quiet, Awaits, recovery
<1>2. /\ place = IF target = None THEN "installed"
                 ELSE IF target = Stage(t) THEN "undo install" ELSE "settle"
      /\ run[t].attempt # 0
  BY <1>1 DEF FirstUndone, FoldersOK, FolderOK, RunsOK, Before
<1>3. place \in Held
  BY <1>2 DEF Held, Before, Notes, Undoing
<1> HIDE DEF place
<1>4. /\ RunsOK' /\ run'[t].at = place /\ run'[t].attempt = run[t].attempt
      /\ \A u \in Transfers \ {t} : run[u].at \in Quiet /\ run'[u] = run[u]
  BY <1>1, <1>2, <1>3, MovesOn
<1>5. FolderOK(t)'
  BY <1>1, <1>2, <1>4 DEF FolderOK, FoldersOK, Replaces, Stage
<1>6. Keeps
  BY <1>1 DEF Keeps, Kept, Backups
<1> QED BY <1>1, <1>4, <1>5, <1>6, MovedAlone

LEMMA UndoInstallKeeps ==
    ASSUME TypeOK, RunsOK, FoldersOK, NEW t \in Transfers, UndoInstall(t)
    PROVE  RunsOK' /\ FoldersOK' /\ Keeps
<1>1. /\ run[t].at = "undo install" /\ run[t].at \notin Quiet
      /\ UNCHANGED <<ask, manager, backup>>
  BY DEF UndoInstall, Quiet, Awaits, recovery
<1>2. target = Stage(t)
  BY <1>1 DEF FoldersOK, FolderOK
<1>3. CASE target' = target /\ Goes(t, "give up")
  <2>1. "give up" \in Elsewhere
    BY DEF Elsewhere, Held, Undoing, Before, Notes
  <2> QED BY <1>1, <1>3, <2>1, ElsewhereKeeps
<1>4. CASE target' = None /\ Goes(t, IF backup[t] # None THEN "undo backup" ELSE "settle")
  <2> DEFINE place == IF backup[t] # None THEN "undo backup" ELSE "settle"
  <2>1. place \in Held /\ place \notin {"download", "unpack"} \cup Before
    BY DEF Held, Undoing, Before, Notes
  <2>2. place \notin {"backing_up", "move out", "backup_created", "installing", "move in",
                      "installed", "committing_manifest", "save manifest", "undo install"}
    OBVIOUS
  <2>3. Goes(t, place) BY <1>4
  <2> HIDE DEF place
  <2>4. /\ RunsOK' /\ run'[t].at = place /\ run'[t].attempt = run[t].attempt
        /\ \A u \in Transfers \ {t} : run[u].at \in Quiet /\ run'[u] = run[u]
    BY <1>1, <2>1, <2>3, MovesOn
  <2>5. FolderOK(t)'
    BY <1>1, <1>4, <2>2, <2>4 DEF FolderOK, FoldersOK, Replaces
  <2>6. Uncommitted
    BY <1>1, <1>2 DEF Uncommitted, Undoing
  <2>7. Keeps
    BY <1>1, <2>6 DEF Keeps, Kept, Backups
  <2> QED BY <1>1, <2>4, <2>5, <2>7, MovedAlone
<1> QED BY <1>3, <1>4 DEF UndoInstall

LEMMA UndoBackupKeeps ==
    ASSUME TypeOK, RunsOK, FoldersOK, NEW t \in Transfers, UndoBackup(t)
    PROVE  RunsOK' /\ FoldersOK' /\ Keeps
<1>1. /\ run[t].at = "undo backup" /\ run[t].at \notin Quiet
      /\ UNCHANGED <<ask, manager>>
  BY DEF UndoBackup, Quiet, Awaits, recovery
<1>2. target = None
  BY <1>1 DEF FoldersOK, FolderOK
<1>3. CASE UNCHANGED <<target, backup>> /\ Goes(t, "give up")
  <2>1. "give up" \in Elsewhere
    BY DEF Elsewhere, Held, Undoing, Before, Notes
  <2> QED BY <1>1, <1>3, <2>1, ElsewhereKeeps
<1>4. CASE /\ target' = backup[t] /\ backup' = [backup EXCEPT ![t] = None]
           /\ Goes(t, "settle")
  <2>1. "settle" \in Held /\ "settle" \notin {"download", "unpack"} \cup Before
    BY DEF Held, Undoing, Before, Notes
  <2>2. /\ RunsOK' /\ run'[t].at = "settle"
        /\ \A u \in Transfers \ {t} : run[u].at \in Quiet /\ run'[u] = run[u]
    BY <1>1, <1>4, <2>1, MovesOn
  <2>3. backup'[t] = None /\ \A u \in Transfers \ {t} : backup'[u] = backup[u]
    BY <1>4 DEF TypeOK
  <2>4. FolderOK(t)'
    BY <2>2, <2>3 DEF FolderOK
  <2>5. Keeps
    BY <1>2, <1>4, <2>3 DEF Keeps, Kept, Backups
  <2> QED BY <1>1, <2>2, <2>3, <2>4, <2>5, MovedAlone
<1> QED BY <1>3, <1>4 DEF UndoBackup

-----------------------------------------------------------------------------
(* The requests.                                                           *)

LEMMA Untouched ==
    ASSUME RunsOK, FoldersOK, UNCHANGED <<ask, target, backup, run, manager>>
    PROVE  RunsOK' /\ FoldersOK' /\ Keeps
BY DEF RunsOK, FoldersOK, FolderOK, Replaces, Stage, Keeps, Kept, Backups

LEMMA ClaimKeeps ==
    ASSUME RunsOK, FoldersOK, NEW t \in Transfers, NEW place \in {"download", "unpack"},
           NEW entry, Claims(t, place, entry), manager = "up",
           UNCHANGED <<ask, target, backup, manager>>
    PROVE  RunsOK' /\ FoldersOK' /\ Keeps
<1>1. RunsOK' /\ run'[t].at = place /\ \A u \in Transfers \ {t} : run'[u] = run[u]
  BY ClaimGoesOn
<1>2. FolderOK(t)'
  BY <1>1 DEF FolderOK, FoldersOK, Replaces
<1> QED BY <1>1, <1>2, Unmoved

LEMMA RequestKeeps ==
    ASSUME RunsOK, FoldersOK, NEW t \in Transfers, Request(t)
    PROVE  RunsOK' /\ FoldersOK' /\ Keeps
<1>1. manager = "up" /\ ~Busy /\ UNCHANGED <<ask, target, backup, manager>>
  BY DEF Request, ReceiveKnown, ReceiveNew, BeginPull, RetryStart, Serving, folders, recovery
<1>2. CASE run' = run
  BY <1>1, <1>2, Untouched
<1>3. CASE Goes(t, "start applied")
  <2>1. "start applied" \in Held /\ "start applied" \in Quiet
        /\ "start applied" \notin {"download", "unpack"} \cup Before
    BY DEF Held, Awaits, Quiet, Before, Notes
  <2>2. RunsOK' /\ run'[t].at = "start applied" /\ \A u \in Transfers \ {t} : run'[u] = run[u]
    BY <1>1, <1>3, <2>1, GoesOn
  <2>3. FolderOK(t)'
    BY <1>1, <2>2 DEF FolderOK, FoldersOK, Replaces
  <2> QED BY <1>1, <2>2, <2>3, Unmoved
<1>4. CASE Claims(t, "unpack", [NoEntry EXCEPT !.status = "active", !.phase = "extracting"])
  BY <1>1, <1>4, ClaimKeeps
<1>5. CASE Claims(t, "download", PullEntry(t))
  BY <1>1, <1>5, ClaimKeeps
<1> QED BY <1>2, <1>3, <1>4, <1>5 DEF Request, ReceiveKnown, ReceiveNew, BeginPull, RetryStart

LEMMA AttemptKeeps ==
    ASSUME TypeOK, RunsOK, FoldersOK, NEW t \in Transfers, Attempt(t)
    PROVE  RunsOK' /\ FoldersOK' /\ Keeps
BY DownloadedKeeps, EnterKeeps, NoteKeeps, FailsKeeps, FailsLateKeeps, SettlesKeeps, StartsKeeps,
   SaveManifestKeeps, MoveOutKeeps, MoveInKeeps, UndoInstallKeeps, UndoBackupKeeps
   DEF Attempt

-----------------------------------------------------------------------------
(* A restart: nothing is at work, so only what a backup is for may change. *)
LEMMA Resting ==
    ASSUME RunsOK, FoldersOK, manager # "up" \/ \A u \in Transfers : run'[u].at = "idle",
           run' \in [Transfers -> Runs], \A u \in Transfers : run'[u].at = run[u].at \/ run'[u].at = "idle",
           \A u \in Transfers : run'[u].attempt = run[u].attempt,
           ask' = ask, \A u \in Transfers : backup'[u] \in {backup[u], None}
    PROVE  RunsOK' /\ FoldersOK'
<1>1. \A u \in Transfers : run'[u].at = "idle"
  BY DEF RunsOK
<1>2. RunsOK'
  BY <1>1 DEF RunsOK, Quiet, Before, Notes
<1>3. FoldersOK'
  BY <1>1 DEF FoldersOK, FolderOK, Replaces
<1> QED BY <1>2, <1>3

LEMMA CrashKeeps ==
    ASSUME TypeOK, RunsOK, FoldersOK, Crash
    PROVE  RunsOK' /\ FoldersOK' /\ Keeps
<1>1. /\ \A u \in Transfers : run'[u].at = "idle" /\ run'[u].attempt = run[u].attempt
      /\ run' \in [Transfers -> Runs]
      /\ UNCHANGED <<ask, target, backup, listed>>
  BY DEF Crash, RunsOK, Runs, folders
<1>2. Keeps
  BY <1>1 DEF Keeps, Kept, Backups
<1> QED BY <1>1, <1>2, Resting

LEMMA RestartKeeps ==
    ASSUME RunsOK, FoldersOK, Boot \/ WriteReceipts \/ WritePulls
    PROVE  RunsOK' /\ FoldersOK' /\ Keeps
<1>1. manager # "up" /\ UNCHANGED <<ask, target, backup, run>>
  BY DEF Boot, WriteReceipts, WritePulls, folders
<1>2. Keeps
  BY <1>1 DEF Keeps, Kept, Backups
<1> QED BY <1>1, <1>2, Resting DEF RunsOK

(* An installed directory is only set aside where it is not committed.     *)
LEMMA ReconcileKeeps ==
    ASSUME TypeOK, RunsOK, FoldersOK, NEW t \in Transfers, Reconcile(t)
    PROVE  RunsOK' /\ FoldersOK' /\ Keeps
<1>1. manager # "up" /\ UNCHANGED <<ask, run, listed>>
  BY DEF Reconcile, ReconcileUntouched, ReconcileCommitted, RestoreBackup, Quarantine,
         RequireRecovery, Reconciles
<1>2. CASE UNCHANGED <<target, backup>>
  <2>1. Keeps BY <1>2 DEF Keeps, Kept, Backups
  <2> QED BY <1>1, <1>2, <2>1, Resting DEF RunsOK
<1>3. CASE target' = backup[t] /\ backup' = [backup EXCEPT ![t] = None] /\ (target = None \/ ~listed)
  <2>1. backup'[t] = None /\ \A u \in Transfers \ {t} : backup'[u] = backup[u]
    BY <1>3 DEF TypeOK
  <2>2. Keeps BY <1>1, <1>3, <2>1 DEF Keeps, Kept, Backups
  <2> QED BY <1>1, <2>1, <2>2, Resting DEF RunsOK
<1>4. CASE ReconcileUntouched(t) \/ ReconcileCommitted(t) \/ RequireRecovery(t)
  BY <1>2, <1>4 DEF ReconcileUntouched, ReconcileCommitted, RequireRecovery, folders
<1>5. CASE RestoreBackup(t)
  BY <1>3, <1>5 DEF RestoreBackup, BackupOnly
<1>6. CASE Quarantine(t)
  BY <1>3, <1>6 DEF Quarantine, InstalledOnly, Committed, Looks, NeverMoved
<1> QED BY <1>4, <1>5, <1>6 DEF Reconcile

LEMMA SenderLeaves ==
    ASSUME NEW t, Sender(t)
    PROVE  /\ UNCHANGED <<ask, folders, listed, running, journal, run, recovery>>
           /\ troubles' = troubles \/ CanFail
BY DEF Sender, SenderBegins, SenderAnswered, SenderGivesUp, SenderEnds, SenderAsks,
       SenderRestarts

LEMMA NextKeeps ==
    ASSUME TypeOK, RunsOK, FoldersOK, Next
    PROVE  RunsOK' /\ FoldersOK' /\ Keeps
<1>1. ASSUME NEW t \in Transfers, Sender(t) PROVE RunsOK' /\ FoldersOK' /\ Keeps
  BY <1>1, SenderLeaves, Untouched DEF folders, recovery
<1>2. CASE UserSwitches
  BY <1>2, Untouched DEF UserSwitches, folders, recovery
<1> QED BY <1>1, <1>2, RequestKeeps, AttemptKeeps, ReconcileKeeps, CrashKeeps, RestartKeeps DEF Next

-----------------------------------------------------------------------------
(* Types.  An entry is written whole, or one of its fields.                *)

LEMMA EntryTyped ==
    ASSUME NEW e \in Entries
    PROVE  /\ \A s \in Statuses : [e EXCEPT !.status = s] \in Entries
           /\ \A p \in Phases : /\ [e EXCEPT !.phase = p] \in Entries
                               /\ [e EXCEPT !.phase = p].status = e.status
           /\ [e EXCEPT !.status = "active", !.phase = "downloading"] \in Entries
           /\ [e EXCEPT !.status = "active", !.phase = "downloading"].status = "active"
BY DEF Entries, Statuses, Phases

LEMMA NoEntryTyped ==
    NoEntry \in Entries /\ Receipt \in Entries
    /\ [NoEntry EXCEPT !.status = "active", !.phase = "extracting"] \in Entries
    /\ [NoEntry EXCEPT !.status = "active", !.phase = "extracting"].status = "active"
BY DEF NoEntry, Receipt, Entries, Statuses, Phases, Directories

(* What a step writes is an entry of its transfer, and active where the    *)
(* attempt is at work.                                                     *)
ActiveOK == \A t \in Transfers : run[t].at \in AtWork => journal[t].status = "active"

LEMMA UpdateTyped ==
    ASSUME journal \in [Transfers -> Entries], NEW t \in Transfers, NEW e \in Entries,
           Update(t, e)
    PROVE  /\ journal' \in [Transfers -> Entries]
           /\ \A u \in Transfers \ {t} : journal'[u] = journal[u]
           /\ journal[t].status = "active" => journal'[t] = e
BY DEF Update, Entries

LEMMA ActiveGoesOn ==
    ASSUME ActiveOK, NEW t \in Transfers,
           \A u \in Transfers \ {t} : run'[u] = run[u] /\ journal'[u] = journal[u],
           run'[t].at \in AtWork => journal'[t].status = "active"
    PROVE  ActiveOK'
BY DEF ActiveOK

LEMMA NotedTyped ==
    ASSUME TypeOK, RunsOK, NEW t \in Transfers, run[t].at \in Notes
    PROVE  /\ Noted(t, run[t].at) \in Entries
           /\ Noted(t, run[t].at).status = journal[t].status
<1>1. journal[t] \in Entries /\ target \in Directories /\ run[t].at \in Phases
  BY DEF TypeOK, Notes, Phases
<1>2. run[t].at \in {"installing", "installed"} => Stage(t) \in Directories
  <2>1. run[t] \in Runs
    BY DEF RunsOK
  <2>2. run[t].attempt \in 0..MaxAttempts
    BY <2>1 DEF Runs
  <2>3. run[t].at \in {"installing", "installed"} => run[t].attempt # 0
    BY DEF RunsOK, Before, Notes
  <2>4. run[t].attempt # 0 => run[t].attempt \in 1..MaxAttempts
    BY <2>2, BoundsAssumption
  <2> QED BY <2>3, <2>4 DEF Stage, Directories, Unpacked
<1>3. \E b, i \in Directories :
         Noted(t, run[t].at) = [journal[t] EXCEPT !.phase = run[t].at, !.backupId = b, !.installedId = i]
  <2>1. journal[t].backupId \in Directories /\ journal[t].installedId \in Directories
    BY <1>1 DEF Entries
  <2> DEFINE b == IF run[t].at = "backing_up" THEN target ELSE journal[t].backupId
             i == IF run[t].at \in {"installing", "installed"} THEN Stage(t) ELSE journal[t].installedId
  <2>2. b \in Directories /\ i \in Directories
    BY <1>1, <1>2, <2>1
  <2>3. Noted(t, run[t].at) = [journal[t] EXCEPT !.phase = run[t].at, !.backupId = b, !.installedId = i]
    BY <1>1 DEF Noted, Entries
  <2> QED BY <2>2, <2>3
<1> QED BY <1>1, <1>3 DEF Entries

(* The sender of a push, and the bound of the troubles.                    *)
SenderStates ==
    [state : {"none", "posting", "posted", "complete", "error"},
     saved : {"none", "active", "complete", "error"},
     reply : {"none", "ok", "refused"}, asks : BOOLEAN]
SenderTyped == sender \in [Transfers -> SenderStates]

LEMMA ReplyTyped ==
    ASSUME SenderTyped, NEW t \in Transfers, NEW answer \in {"none", "ok", "refused"},
           Reply(t, answer) \/ Arrives(t, answer)
    PROVE  SenderTyped'
BY DEF SenderTyped, SenderStates, Reply, Arrives

LEMMA SenderBecomes ==
    ASSUME SenderTyped, NEW t \in Transfers, NEW s \in SenderStates,
           sender' = [sender EXCEPT ![t] = s]
    PROVE  SenderTyped'
BY DEF SenderTyped

LEMMA SenderStepTyped ==
    ASSUME SenderTyped, NEW t \in Transfers, Sender(t)
    PROVE  SenderTyped'
<1>1. sender[t] \in SenderStates
  BY DEF SenderTyped
<1>2. CASE SenderBegins(t)
  <2> DEFINE s == [sender[t] EXCEPT !.state = "posting", !.saved = "active", !.reply = "none"]
  <2>1. s \in SenderStates
    BY <1>1 DEF SenderStates
  <2>2. sender' = [sender EXCEPT ![t] = s]
    BY <1>2 DEF SenderBegins, SenderTyped
  <2> QED BY <2>1, <2>2, SenderBecomes
<1>3. ASSUME NEW status \in {"complete", "error"}, SenderEnds(t, status) PROVE SenderTyped'
  <2> DEFINE a == sender[t].asks \/ status # "complete"
             s == [sender[t] EXCEPT !.state = status, !.saved = status, !.reply = "none", !.asks = a]
  <2>1. a \in BOOLEAN
    BY Zenon
  <2>2. sender' = [sender EXCEPT ![t] = s]
    <3>1. sender' = [sender EXCEPT ![t].state = status, ![t].saved = status,
                                   ![t].reply = "none", ![t].asks = a]
      BY <1>3, Zenon DEF SenderEnds
    <3> HIDE DEF a
    <3> QED BY <3>1 DEF SenderTyped
  <2> HIDE DEF a
  <2>3. s \in SenderStates
    BY <1>1, <2>1 DEF SenderStates
  <2> QED BY <2>2, <2>3, SenderBecomes
<1>4. CASE SenderAsks(t)
  <2> DEFINE proven == manager = "up" /\ journal[t].status \in ProvesCommit
             saved == IF proven THEN "complete" ELSE sender[t].saved
             state == IF proven /\ sender[t].state = "error" THEN "complete" ELSE sender[t].state
             s == [sender[t] EXCEPT !.saved = saved, !.state = state, !.asks = FALSE]
  <2>1. s \in SenderStates
    BY <1>1 DEF SenderStates
  <2>2. sender' = [sender EXCEPT ![t] = s]
    BY <1>4 DEF SenderAsks, SenderTyped
  <2> QED BY <2>1, <2>2, SenderBecomes
<1>5. CASE SenderRestarts(t)
  <2> DEFINE saved == IF sender[t].saved = "active" THEN "error" ELSE sender[t].saved
             s == [sender[t] EXCEPT !.state = "none", !.reply = "none", !.asks = FALSE, !.saved = saved]
  <2>1. s \in SenderStates
    BY <1>1 DEF SenderStates
  <2>2. sender' = [sender EXCEPT ![t] = s]
    BY <1>5 DEF SenderRestarts, SenderTyped
  <2> QED BY <2>1, <2>2, SenderBecomes
<1> QED BY <1>2, <1>3, <1>4, <1>5 DEF Sender, SenderAnswered, SenderGivesUp

LEMMA TroublesTyped ==
    ASSUME troubles \in 0..MaxTroubles, CanFail \/ troubles' = troubles
    PROVE  troubles' \in 0..MaxTroubles
BY BoundsAssumption DEF CanFail

-----------------------------------------------------------------------------
(* The parts of the type invariant under each kind of step.                *)
PlainOK ==
    /\ ask \in Requests /\ listed \in BOOLEAN /\ running \in BOOLEAN
    /\ manager \in {"down", "receipts", "pulls", "up"} /\ todo \subseteq Transfers
    /\ troubles \in 0..MaxTroubles
DirsOK ==
    /\ target \in Directories
    /\ backup \in [Transfers -> Directories] /\ aside \in [Transfers -> Directories]
EntriesOK == journal \in [Transfers -> Entries] /\ mem \in [Transfers -> Entries]

LEMMA Parts ==
    TypeOK <=> PlainOK /\ DirsOK /\ EntriesOK /\ SenderTyped /\ ActiveOK /\ run \in [Transfers -> Runs]
BY DEF TypeOK, PlainOK, DirsOK, EntriesOK, SenderTyped, SenderStates, ActiveOK

(* A request leaves all but the journal, its attempt and its sender.       *)
LEMMA RequestTyped ==
    ASSUME TypeOK, RunsOK, NEW t \in Transfers, Request(t)
    PROVE  PlainOK' /\ DirsOK' /\ EntriesOK' /\ SenderTyped' /\ ActiveOK'
<1>1. UNCHANGED <<ask, folders, listed, running, recovery, troubles>>
  BY DEF Request, ReceiveKnown, ReceiveNew, BeginPull, RetryStart
<1>2. PlainOK' /\ DirsOK' /\ (mem \in [Transfers -> Entries])'
  BY <1>1, Parts DEF PlainOK, DirsOK, EntriesOK, folders, recovery
<1>3. SenderTyped'
  <2>1. SenderTyped BY Parts
  <2>2. CASE \E answer \in {"none", "ok", "refused"} : Arrives(t, answer)
    BY <2>1, <2>2, ReplyTyped
  <2>3. CASE sender' = sender
    BY <2>1, <2>3 DEF SenderTyped
  <2> QED BY <2>2, <2>3 DEF Request, ReceiveKnown, ReceiveNew, BeginPull, RetryStart
<1>4. ActiveOK /\ journal \in [Transfers -> Entries] /\ run \in [Transfers -> Runs]
  BY Parts DEF EntriesOK
<1>5. CASE journal' = journal /\ run' = run
  BY <1>2, <1>3, <1>4, <1>5 DEF ActiveOK, EntriesOK
<1>6. CASE journal' = journal /\ Goes(t, "start applied")
  <2>1. "start applied" \notin AtWork
    BY DEF AtWork, Awaits, Before, After, Notes
  <2>2. run'[t].at = "start applied" /\ \A u \in Transfers \ {t} : run'[u] = run[u]
    BY <1>4, <1>6 DEF Goes, Runs
  <2> QED BY <1>2, <1>3, <1>4, <1>6, <2>1, <2>2, ActiveGoesOn DEF EntriesOK
<1>7. ASSUME NEW place \in {"download", "unpack"}, NEW entry \in Entries,
             entry.status = "active", Claims(t, place, entry)
      PROVE  EntriesOK' /\ ActiveOK'
  <2>1. /\ journal' \in [Transfers -> Entries] /\ journal'[t] = entry
        /\ \A u \in Transfers \ {t} : journal'[u] = journal[u] /\ run'[u] = run[u]
    BY <1>4, <1>7 DEF Claims
  <2> QED BY <1>2, <1>4, <1>7, <2>1, ActiveGoesOn DEF EntriesOK
<1>8. CASE Claims(t, "unpack", [NoEntry EXCEPT !.status = "active", !.phase = "extracting"])
  BY <1>2, <1>3, <1>7, <1>8, NoEntryTyped
<1>9. CASE Claims(t, "download", PullEntry(t))
  <2>1. PullEntry(t) \in Entries /\ PullEntry(t).status = "active"
    BY <1>4, EntryTyped DEF PullEntry
  <2> QED BY <1>2, <1>3, <1>7, <1>9, <2>1
<1> QED BY <1>5, <1>6, <1>8, <1>9 DEF Request, ReceiveKnown, ReceiveNew, BeginPull, RetryStart

(* An attempt leaves the request, the reconciliation, and quarantines.     *)
LEMMA AttemptPlain ==
    ASSUME TypeOK, NEW t \in Transfers, Attempt(t)
    PROVE  PlainOK' /\ aside' = aside /\ mem' = mem
<1>1. UNCHANGED <<ask, aside, recovery>>
  BY DEF Attempt, Downloaded, Stops, Enter, Note, MoveOut, MoveIn, SaveManifest, Fails, FailsLate,
         UndoInstall, UndoBackup, GiveUp, Settle, SettleCommitted, Start, WriteReceipt,
         StartApplied, folders
<1>2. CanFail \/ troubles' = troubles
  BY DEF Attempt, Downloaded, Stops, Enter, Note, MoveOut, MoveIn, SaveManifest, Fails, FailsLate,
         UndoInstall, UndoBackup, GiveUp, Settle, SettleCommitted, Start, WriteReceipt,
         StartApplied
<1>3. troubles' \in 0..MaxTroubles
  BY <1>2, TroublesTyped DEF TypeOK
<1>4. listed' = listed \/ listed' = TRUE
  BY DEF Attempt, Downloaded, Stops, Enter, Note, MoveOut, MoveIn, SaveManifest, Fails, FailsLate,
         UndoInstall, UndoBackup, GiveUp, Settle, SettleCommitted, Start, WriteReceipt,
         StartApplied
<1>5. listed \in BOOLEAN /\ running \in BOOLEAN
  BY DEF TypeOK
<1>6. CanRun \in BOOLEAN
  BY Zenon, <1>5 DEF CanRun
<1>7. running' = running \/ running' = TRUE \/ running' = CanRun
  BY Zenon DEF Attempt, Downloaded, Stops, Enter, Note, MoveOut, MoveIn, SaveManifest, Fails, FailsLate,
         UndoInstall, UndoBackup, GiveUp, Settle, SettleCommitted, Start, WriteReceipt,
         StartApplied
<1>8. listed' \in BOOLEAN /\ running' \in BOOLEAN
  BY Zenon, <1>4, <1>5, <1>6, <1>7
<1> QED BY <1>1, <1>3, <1>8, Parts DEF PlainOK, recovery

LEMMA AttemptDirs ==
    ASSUME TypeOK, RunsOK, NEW t \in Transfers, Attempt(t)
    PROVE  DirsOK'
<1>1. DirsOK /\ None \in Directories
  BY Parts DEF Directories
<1>2. CASE MoveOut(t)
  BY <1>1, <1>2 DEF DirsOK, MoveOut
<1>3. CASE MoveIn(t)
  <2>1. run[t] \in Runs /\ run[t].attempt # 0
    BY <1>3 DEF RunsOK, MoveIn, Before
  <2>2. run[t].attempt \in 0..MaxAttempts
    BY <2>1 DEF Runs
  <2>3. run[t].attempt \in 1..MaxAttempts
    BY <2>1, <2>2, BoundsAssumption
  <2>4. Stage(t) \in Directories
    BY <2>3 DEF Stage, Directories, Unpacked
  <2> QED BY <1>1, <1>3, <2>4 DEF DirsOK, MoveIn
<1>4. CASE UndoInstall(t)
  BY <1>1, <1>4 DEF DirsOK, UndoInstall
<1>5. CASE UndoBackup(t)
  BY <1>1, <1>5 DEF DirsOK, UndoBackup
<1>6. CASE UNCHANGED folders
  BY <1>1, <1>6 DEF DirsOK, folders
<1> QED BY <1>2, <1>3, <1>4, <1>5, <1>6 DEF Attempt, Downloaded, Stops, Enter, Note, SaveManifest,
         Fails, FailsLate, GiveUp, Settle, SettleCommitted, Start, WriteReceipt, StartApplied

LEMMA AttemptSender ==
    ASSUME TypeOK, NEW t \in Transfers, Attempt(t)
    PROVE  SenderTyped'
<1>1. SenderTyped BY Parts
<1>2. CASE sender' = sender
  BY <1>1, <1>2 DEF SenderTyped
<1>3. CASE Reply(t, "ok") \/ Reply(t, "refused")
  BY <1>1, <1>3, ReplyTyped
<1> QED BY <1>2, <1>3 DEF Attempt, Downloaded, Stops, Enter, Note, MoveOut, MoveIn, SaveManifest, Fails,
         FailsLate, UndoInstall, UndoBackup, GiveUp, Settle, SettleCommitted, Start, WriteReceipt,
         StartApplied

(* The journal under a step of an attempt: an entry stays active until the *)
(* attempt has its outcome.                                                *)
LEMMA EntryGoesOn ==
    ASSUME TypeOK, NEW t \in Transfers, NEW place, Goes(t, place), mem' = mem,
           journal' \in [Transfers -> Entries],
           \A u \in Transfers \ {t} : journal'[u] = journal[u],
           place \in AtWork => journal'[t].status = "active"
    PROVE  EntriesOK' /\ ActiveOK'
<1>1. ActiveOK /\ run \in [Transfers -> Runs] /\ (mem \in [Transfers -> Entries])'
  BY Parts DEF EntriesOK
<1>2. run'[t].at = place /\ \A u \in Transfers \ {t} : run'[u] = run[u]
  BY <1>1 DEF Goes, Runs
<1> QED BY <1>1, <1>2, ActiveGoesOn DEF EntriesOK

LEMMA EntryLeft ==
    ASSUME TypeOK, NEW t \in Transfers, NEW place, Goes(t, place), mem' = mem,
           journal' = journal, run[t].at \in AtWork \/ place \notin AtWork
    PROVE  EntriesOK' /\ ActiveOK'
BY EntryGoesOn DEF TypeOK

LEMMA EntryUpdated ==
    ASSUME TypeOK, NEW t \in Transfers, NEW place, Goes(t, place), mem' = mem,
           NEW e \in Entries, Update(t, e),
           place \in AtWork => run[t].at \in AtWork /\ e.status = "active"
    PROVE  EntriesOK' /\ ActiveOK'
<1>1. journal \in [Transfers -> Entries] /\ (run[t].at \in AtWork => journal[t].status = "active")
  BY DEF TypeOK
<1>2. /\ journal' \in [Transfers -> Entries]
      /\ \A u \in Transfers \ {t} : journal'[u] = journal[u]
      /\ journal[t].status = "active" => journal'[t] = e
  BY <1>1, UpdateTyped
<1> QED BY <1>1, <1>2, EntryGoesOn

LEMMA AttemptEntries ==
    ASSUME TypeOK, RunsOK, NEW t \in Transfers, Attempt(t)
    PROVE  EntriesOK' /\ ActiveOK'
<1>1. mem' = mem
  BY AttemptPlain
<1>2. journal[t] \in Entries /\ (run[t].at \in AtWork => journal[t].status = "active")
  BY DEF TypeOK
<1> DEFINE Ends == {"undo install", "undo backup", "give up", "settle", "idle"}
<1>3. \A place \in Ends : place \notin AtWork
  BY DEF AtWork, Awaits, Before, After, Notes
<1>4. CASE journal' = journal /\ \E place \in Ends : Goes(t, place)
  BY <1>1, <1>3, <1>4, EntryLeft
<1>5. CASE journal' = journal /\ run[t].at \in AtWork /\ \E place : Goes(t, place)
  BY <1>1, <1>5, EntryLeft
<1>6. ASSUME NEW s \in Statuses, Update(t, [journal[t] EXCEPT !.status = s]),
             NEW place \in Ends, Goes(t, place)
      PROVE  EntriesOK' /\ ActiveOK'
  <2>1. [journal[t] EXCEPT !.status = s] \in Entries
    BY <1>2, EntryTyped
  <2> QED BY <1>1, <1>3, <1>6, <2>1, EntryUpdated
<1>7. CASE journal' = [journal EXCEPT ![t] = Receipt] /\ Goes(t, "idle")
  <2>1. /\ journal' \in [Transfers -> Entries]
        /\ \A u \in Transfers \ {t} : journal'[u] = journal[u]
    BY <1>7, NoEntryTyped DEF TypeOK
  <2> QED BY <1>1, <1>3, <1>7, <2>1, EntryGoesOn
<1>8. CASE Downloaded(t)
  <2>1. run[t].at \in AtWork
    BY <1>8 DEF Downloaded, AtWork, Awaits
  <2>2. [journal[t] EXCEPT !.phase = "extracting"] \in Entries
        /\ [journal[t] EXCEPT !.phase = "extracting"].status = journal[t].status
    BY <1>2, EntryTyped DEF Phases
  <2> QED BY <1>1, <1>2, <1>8, <2>1, <2>2, EntryUpdated DEF Downloaded
<1>9. CASE Note(t)
  <2>1. run[t].at \in AtWork
    BY <1>9 DEF Note, AtWork, Before, After, Notes
  <2> QED BY <1>1, <1>2, <1>9, <2>1, NotedTyped, EntryUpdated DEF Note
<1>10. CASE GiveUp(t) \/ Settle(t)
  <2>1. "recovery_required" \in Statuses /\ "error" \in Statuses /\ "settle" \in Ends /\ "idle" \in Ends
    BY DEF Statuses
  <2> HIDE DEF Ends
  <2> QED BY <1>4, <1>6, <1>10, <2>1 DEF GiveUp, Settle
<1>11. CASE SettleCommitted(t)
  <2>1. "applied_pending_start" \in Statuses /\ "idle" \in Ends
    BY DEF Statuses
  <2> HIDE DEF Ends
  <2> QED BY <1>4, <1>6, <1>7, <1>11, <2>1 DEF SettleCommitted, CommittedOutcome
<1>12. CASE WriteReceipt(t) \/ StartApplied(t)
  <2>1. "idle" \in Ends OBVIOUS
  <2> HIDE DEF Ends
  <2> QED BY <1>4, <1>7, <1>12, <2>1 DEF WriteReceipt, StartApplied
<1>13. CASE UndoInstall(t) \/ UndoBackup(t)
  BY <1>4, <1>13 DEF UndoInstall, UndoBackup
<1>14. CASE Stops(t) \/ Enter(t) \/ MoveOut(t) \/ MoveIn(t) \/ SaveManifest(t) \/ Fails(t)
            \/ FailsLate(t) \/ Start(t)
  <2>1. run[t].at \in AtWork
    BY <1>14 DEF Stops, Enter, MoveOut, MoveIn, SaveManifest, Fails, FailsLate, Start, AtWork, Awaits,
                 Before, After
  <2>2. journal' = journal /\ \E place : Goes(t, place)
    BY <1>14 DEF Stops, Enter, MoveOut, MoveIn, SaveManifest, Fails, FailsLate, Start
  <2> QED BY <1>5, <2>1, <2>2
<1> QED BY <1>8, <1>9, <1>10, <1>11, <1>12, <1>13, <1>14 DEF Attempt

(* The reconciliation, and the steps of the manager as a whole.            *)
LEMMA ReconcileTyped ==
    ASSUME TypeOK, NEW t \in Transfers, Reconcile(t)
    PROVE  PlainOK' /\ DirsOK' /\ EntriesOK' /\ SenderTyped' /\ ActiveOK'
<1>1. /\ UNCHANGED <<ask, listed, running, journal, run, manager, sender>>
      /\ todo' = todo \ {t} /\ \E s \in Statuses : mem' = [mem EXCEPT ![t].status = s]
  BY DEF Reconcile, ReconcileUntouched, ReconcileCommitted, RestoreBackup, Quarantine,
         RequireRecovery, Reconciles, Statuses
<1>2. CanFail \/ troubles' = troubles
  BY DEF Reconcile, ReconcileUntouched, ReconcileCommitted, RestoreBackup, Quarantine,
         RequireRecovery
<1>3. troubles' \in 0..MaxTroubles
  BY <1>2, TroublesTyped DEF TypeOK
<1>4. PlainOK' /\ SenderTyped' /\ ActiveOK'
  BY <1>1, <1>3, Parts DEF PlainOK, SenderTyped, ActiveOK
<1>5. EntriesOK'
  BY <1>1, Parts DEF EntriesOK, Entries
<1>6. DirsOK /\ None \in Directories
  BY Parts DEF Directories
<1>7. DirsOK'
  BY <1>6 DEF DirsOK, Reconcile, ReconcileUntouched, ReconcileCommitted, RestoreBackup, Quarantine,
              RequireRecovery, folders
<1> QED BY <1>4, <1>5, <1>7

LEMMA ManagerTyped ==
    ASSUME TypeOK, RunsOK, UserSwitches \/ Crash \/ Boot \/ WriteReceipts \/ WritePulls
    PROVE  PlainOK' /\ DirsOK' /\ EntriesOK' /\ SenderTyped' /\ ActiveOK'
<1>1. UNCHANGED <<ask, folders, listed, sender>>
  BY DEF UserSwitches, Crash, Boot, WriteReceipts, WritePulls
<1>2. DirsOK' /\ SenderTyped'
  BY <1>1, Parts DEF DirsOK, SenderTyped, folders
<1>3. listed \in BOOLEAN /\ running \in BOOLEAN
  BY DEF TypeOK
<1>4. running' \in BOOLEAN
  BY Zenon, <1>3 DEF UserSwitches, Crash, Boot, WriteReceipts, WritePulls
<1>5. troubles' \in 0..MaxTroubles
  <2>1. CanFail \/ troubles' = troubles
    BY DEF UserSwitches, Crash, Boot, WriteReceipts, WritePulls
  <2> QED BY <2>1, TroublesTyped DEF TypeOK
<1>6. PlainOK'
  <2>1. PlainOK
    BY Parts
  <2>2. todo' \subseteq Transfers /\ manager' \in {"down", "receipts", "pulls", "up"}
    BY <2>1 DEF PlainOK, UserSwitches, Crash, Boot, WriteReceipts, WritePulls, recovery, Interrupted,
                Pushes, Pulls
  <2> QED BY <1>1, <1>4, <1>5, <2>1, <2>2 DEF PlainOK
<1>7. EntriesOK'
  BY Parts, NoEntryTyped DEF EntriesOK, UserSwitches, Crash, Boot, WriteReceipts, WritePulls, recovery
<1>8. ActiveOK'
  <2>1. CASE run' = run /\ journal' = journal
    BY <2>1, Parts DEF ActiveOK
  <2>2. CASE \A u \in Transfers : run'[u].at = "idle"
    BY <2>2 DEF ActiveOK, AtWork, Awaits, Before, After, Notes
  <2>3. Crash => \A u \in Transfers : run'[u].at = "idle"
    BY DEF Crash, RunsOK, Runs
  <2>4. WriteReceipts \/ WritePulls => \A u \in Transfers : run'[u].at = "idle"
    BY DEF WriteReceipts, WritePulls, RunsOK
  <2> QED BY <2>1, <2>2, <2>3, <2>4 DEF UserSwitches, Boot
<1> QED BY <1>2, <1>6, <1>7, <1>8

LEMMA SenderTypes ==
    ASSUME TypeOK, NEW t \in Transfers, Sender(t)
    PROVE  PlainOK' /\ DirsOK' /\ EntriesOK' /\ SenderTyped' /\ ActiveOK'
<1>1. /\ UNCHANGED <<ask, folders, listed, running, journal, run, recovery>>
      /\ troubles' = troubles \/ CanFail
  BY SenderLeaves
<1>2. troubles' \in 0..MaxTroubles
  BY <1>1, TroublesTyped DEF TypeOK
<1>3. SenderTyped'
  BY Parts, SenderStepTyped
<1> QED BY <1>1, <1>2, <1>3, Parts DEF PlainOK, DirsOK, EntriesOK, ActiveOK, folders, recovery

LEMMA NextTyped ==
    ASSUME TypeOK, RunsOK, FoldersOK, Next
    PROVE  TypeOK'
<1>1. (run \in [Transfers -> Runs])'
  BY NextKeeps DEF RunsOK
<1>2. PlainOK' /\ DirsOK' /\ EntriesOK' /\ SenderTyped' /\ ActiveOK'
  <2>1. ASSUME NEW t \in Transfers, Attempt(t)
        PROVE  PlainOK' /\ DirsOK' /\ EntriesOK' /\ SenderTyped' /\ ActiveOK'
    BY <2>1, AttemptPlain, AttemptDirs, AttemptSender, AttemptEntries
  <2> QED BY <2>1, RequestTyped, ReconcileTyped, SenderTypes, ManagerTyped DEF Next
<1>3. TypeOK' <=> (PlainOK /\ DirsOK /\ EntriesOK /\ SenderTyped /\ ActiveOK /\ run \in [Transfers -> Runs])'
  BY Parts, PTL
<1> QED BY <1>1, <1>2, <1>3

-----------------------------------------------------------------------------
IInv == TypeOK /\ RunsOK /\ FoldersOK

LEMMA InitInv == Init => IInv
<1> SUFFICES ASSUME Init PROVE IInv
  OBVIOUS
<1>1. /\ ask \in Requests /\ target \in {Old, None} /\ listed \in BOOLEAN /\ running \in BOOLEAN
      /\ backup = [t \in Transfers |-> None] /\ aside = [t \in Transfers |-> None]
      /\ journal = [t \in Transfers |-> NoEntry] /\ mem = [t \in Transfers |-> NoEntry]
      /\ run = [t \in Transfers |-> [at |-> "idle", attempt |-> 0]]
      /\ manager = "up" /\ todo = {} /\ troubles = 0
  BY Zenon DEF Init
<1>2. run \in [Transfers -> Runs]
  BY <1>1, BoundsAssumption DEF Runs
<1>3. \A t \in Transfers : run[t].at = "idle" /\ "idle" \notin AtWork /\ "idle" \in Quiet
  BY <1>1 DEF AtWork, Awaits, Before, After, Notes, Quiet
<1>4. SenderTyped
  BY DEF Init, SenderTyped, SenderStates
<1>5. PlainOK /\ DirsOK /\ EntriesOK /\ ActiveOK
  BY <1>1, <1>3, NoEntryTyped, BoundsAssumption DEF PlainOK, DirsOK, EntriesOK, ActiveOK, Directories
<1>6. RunsOK
  BY <1>1, <1>2, <1>3 DEF RunsOK, Before, Notes
<1>7. FoldersOK
  BY <1>1, <1>3 DEF FoldersOK, FolderOK
<1> QED BY <1>2, <1>4, <1>5, <1>6, <1>7, Parts DEF IInv

(* Stuttering, and every step, keeps the invariant and what is kept.       *)
LEMMA StepInv == IInv /\ [Next]_vars => IInv' /\ [Kept \subseteq ({target} \cup Backups)']_vars
<1> SUFFICES ASSUME IInv, [Next]_vars
             PROVE  IInv' /\ [Kept \subseteq ({target} \cup Backups)']_vars
  OBVIOUS
<1>1. CASE Next
  BY <1>1, NextKeeps, NextTyped DEF IInv, Keeps
<1>2. CASE UNCHANGED vars
  <2>1. UNCHANGED <<ask, target, backup, aside, listed, running, journal, run, manager, todo, mem,
                    sender, troubles>>
    BY <1>2 DEF vars, folders, recovery
  <2>2. RunsOK' /\ FoldersOK'
    BY <2>1, Untouched DEF IInv
  <2>3. TypeOK'
    BY <2>1 DEF IInv, TypeOK
  <2> QED BY <1>2, <2>2, <2>3 DEF IInv
<1> QED BY <1>1, <1>2

(* Every variable has its type, and an attempt that has not come to its    *)
(* outcome is active in the journal (receive_transfer, _run_pull).         *)
THEOREM TransferTypeCorrect == Spec => []TypeOK
<1>1. IInv => TypeOK
  BY DEF IInv
<1> QED BY <1>1, InitInv, StepInv, PTL DEF Spec

(* A committed project and every backup of one stay on disk, as the        *)
(* project or as a backup, through every step of every transfer, failure,  *)
(* crash and reconciliation (_stage_and_install, _reconcile_install_journal). *)
THEOREM ProjectsAreKept == Spec => NothingIsLost
BY InitInv, StepInv, PTL DEF Spec, NothingIsLost

-----------------------------------------------------------------------------
(* A project that runs is never moved: whoever has the locks for a         *)
(* replacement has seen that it does not run, and nobody starts it until   *)
(* they are released; an install has seen that it is not listed.           *)
Undone == {"undo install", "undo backup", "give up"}
Installing == Before \cup Undone

PlaceOK(t) ==
    /\ run[t].at \in Installing => (listed <=> Replaces(t))
    /\ run[t].at \in Installing /\ Replaces(t) => ~running
    /\ run[t].at \in {"backing_up", "move out"} => target # None
    /\ run[t].at = "start applied" => journal[t].status = "applied_pending_start"
RunsInPlace == running => CanRun
PlaceInv ==
    /\ \A t \in Transfers : PlaceOK(t)
    /\ \A t \in Transfers : backup[t] # None => listed
    /\ RunsInPlace

(* Where an attempt goes, and that the others wait meanwhile.              *)
LEMMA Going ==
    ASSUME TypeOK, NEW t \in Transfers, NEW place, Goes(t, place)
    PROVE  /\ run'[t].at = place /\ run'[t].attempt = run[t].attempt
           /\ \A u \in Transfers \ {t} : run'[u] = run[u]
BY DEF TypeOK, Goes, Runs

LEMMA OthersWait ==
    ASSUME RunsOK, NEW t \in Transfers, Request(t) \/ Attempt(t)
    PROVE  \A u \in Transfers \ {t} : run[u].at \in Quiet /\ run'[u] = run[u]
<1>1. run[t].at \notin Quiet \/ ~Busy
  BY DEF Request, ReceiveKnown, ReceiveNew, BeginPull, RetryStart, Attempt, Downloaded, Stops, Enter,
         Note, MoveOut, MoveIn, SaveManifest, Fails, FailsLate, UndoInstall, UndoBackup, GiveUp, Settle,
         SettleCommitted, Start, WriteReceipt, StartApplied, Serving, Quiet, Awaits, Before, Notes
<1>2. \A u \in Transfers \ {t} : run[u].at \in Quiet
  BY <1>1, Alone DEF Busy, Quiet
<1>3. run' = run \/ \E r : run' = [run EXCEPT ![t] = r]
  <2>1. ASSUME NEW place, Goes(t, place) PROVE \E r : run' = [run EXCEPT ![t] = r]
    BY <2>1 DEF Goes
  <2>2. ASSUME NEW place, NEW entry, Claims(t, place, entry)
        PROVE  \E r : run' = [run EXCEPT ![t] = r]
    <3>1. run' = [run EXCEPT ![t] = [run[t] EXCEPT !.at = place, !.attempt = @ + 1]]
      BY <2>2 DEF Claims, RunsOK, Runs
    <3> QED BY <3>1
  <2>3. run' = run \/ (\E place : Goes(t, place)) \/ (\E place, entry : Claims(t, place, entry))
    BY DEF Request, ReceiveKnown, ReceiveNew, BeginPull, RetryStart, Attempt, Downloaded, Stops, Enter,
         Note, MoveOut, MoveIn, SaveManifest, Fails, FailsLate, UndoInstall, UndoBackup, GiveUp, Settle,
         SettleCommitted, Start, WriteReceipt, StartApplied
  <2> QED BY <2>1, <2>2, <2>3
<1>4. \A u \in Transfers \ {t} : run'[u] = run[u]
  BY <1>3 DEF RunsOK
<1> QED BY <1>2, <1>4

(* Only the entry of a transfer changes under its own steps.               *)
LEMMA OwnEntry ==
    ASSUME TypeOK, NEW t \in Transfers, Request(t) \/ Attempt(t)
    PROVE  \A u \in Transfers \ {t} : journal'[u] = journal[u]
<1>1. journal' = journal \/ \E e : journal' = [journal EXCEPT ![t] = e]
  BY DEF Request, ReceiveKnown, ReceiveNew, BeginPull, RetryStart, Attempt, Downloaded, Stops, Enter,
         Note, MoveOut, MoveIn, SaveManifest, Fails, FailsLate, UndoInstall, UndoBackup, GiveUp, Settle,
         SettleCommitted, CommittedOutcome, Start, WriteReceipt, StartApplied, Update, Claims
<1> QED BY <1>1 DEF TypeOK

(* A waiting attempt has nothing to lose to the step of another.           *)
LEMMA WaitingPlace ==
    ASSUME PlaceInv, NEW u \in Transfers, run[u].at \in Quiet, run'[u].at = run[u].at,
           journal'[u] = journal[u]
    PROVE  PlaceOK(u)'
<1>1. run'[u].at \notin Installing /\ run'[u].at \notin {"backing_up", "move out"}
  BY DEF Quiet, Awaits, Installing, Before, Notes, Undone
<1>2. run'[u].at = "start applied" => journal'[u].status = "applied_pending_start"
  BY DEF PlaceInv, PlaceOK
<1> QED BY <1>1, <1>2 DEF PlaceOK

(* An attempt that is elsewhere.                                           *)
Outside == Held \ (Installing \cup {"start applied"})
LEMMA OutsidePlace ==
    ASSUME NEW t \in Transfers, run'[t].at \in Outside
    PROVE  PlaceOK(t)'
<1>1. run'[t].at \notin Installing /\ run'[t].at \notin {"backing_up", "move out"}
      /\ run'[t].at # "start applied"
  BY DEF Outside, Installing, Undone, Before, Notes
<1> QED BY <1>1 DEF PlaceOK

LEMMA OutsidePlaces ==
    /\ {"idle", "download", "unpack", "start", "settle", "manifest_committed", "starting", "receipt",
        "settle committed"} \subseteq Outside
    /\ {"backing_up", "move out", "backup_created", "installing", "move in", "installed",
        "committing_manifest", "save manifest", "undo install", "undo backup", "give up"}
         = Installing
BY DEF Outside, Held, Awaits, Before, Notes, Undoing, After, Undone, Installing

LEMMA PlaceUnmoved ==
    ASSUME TypeOK, RunsOK, PlaceInv, NEW t \in Transfers, Request(t) \/ Attempt(t),
           UNCHANGED <<target, backup, listed, running>>, PlaceOK(t)'
    PROVE  PlaceInv'
<1>1. \A u \in Transfers \ {t} : PlaceOK(u)'
  BY OthersWait, OwnEntry, WaitingPlace
<1> QED BY <1>1 DEF PlaceInv, RunsInPlace, CanRun

(* Steps that leave the folders alone.                                     *)
LEMMA RequestPlaces ==
    ASSUME TypeOK, RunsOK, PlaceInv, NEW t \in Transfers, Request(t)
    PROVE  PlaceInv'
<1>1. UNCHANGED <<target, backup, listed, running, manager>>
  BY DEF Request, ReceiveKnown, ReceiveNew, BeginPull, RetryStart, folders, recovery
<1>2. CASE run' = run /\ journal' = journal
  BY <1>1, <1>2, PlaceUnmoved DEF PlaceInv, PlaceOK, Replaces, Request, ReceiveKnown, ReceiveNew, BeginPull, RetryStart
<1>3. ASSUME NEW place \in {"download", "unpack"}, NEW entry, Claims(t, place, entry)
      PROVE  PlaceOK(t)'
  <2>1. run'[t].at = place
    BY <1>1, <1>3, ClaimGoesOn DEF Request, ReceiveKnown, ReceiveNew, BeginPull, RetryStart, Serving
  <2> QED BY <2>1, OutsidePlace, OutsidePlaces
<1>4. CASE Goes(t, "start applied") /\ journal' = journal /\ journal[t].status = "applied_pending_start"
  <2>1. run'[t].at = "start applied"
    BY <1>4, Going
  <2> QED BY <1>1, <1>4, <2>1, PlaceUnmoved DEF PlaceOK, Installing, Undone, Before, Notes
<1>5. ReceiveKnown(t) \/ BeginPull(t) \/ RetryStart(t) \/ ReceiveNew(t)
  BY DEF Request
<1>6. CASE ReceiveKnown(t)
  BY <1>2, <1>6 DEF ReceiveKnown
<1>7. CASE ReceiveNew(t)
  BY <1>1, <1>2, <1>3, <1>7, PlaceUnmoved DEF ReceiveNew
<1>8. CASE BeginPull(t)
  BY <1>1, <1>3, <1>8, PlaceUnmoved DEF BeginPull
<1>9. CASE RetryStart(t)
  BY <1>2, <1>4, <1>9 DEF RetryStart
<1> QED BY <1>5, <1>6, <1>7, <1>8, <1>9

LEMMA OutsideStep ==
    ASSUME TypeOK, RunsOK, PlaceInv, NEW t \in Transfers, Attempt(t),
           UNCHANGED <<target, backup, listed, running>>, NEW place \in Outside, Goes(t, place)
    PROVE  PlaceInv'
BY Going, OutsidePlace, PlaceUnmoved

LEMMA EnterPlaces ==
    ASSUME TypeOK, RunsOK, PlaceInv, NEW t \in Transfers, Enter(t)
    PROVE  PlaceInv'
<1>1. UNCHANGED <<ask, target, backup, listed, running>> /\ Attempt(t)
  BY DEF Enter, folders, Attempt
<1>2. CASE Goes(t, "settle")
  BY <1>1, <1>2, OutsideStep, OutsidePlaces
<1>3. CASE Goes(t, "backing_up") /\ MayInstall(t) /\ Replaces(t)
  <2>1. run'[t].at = "backing_up"
    BY <1>3, Going
  <2>2. PlaceOK(t)'
    BY <1>1, <1>3, <2>1 DEF PlaceOK, MayInstall, Replaces
  <2> QED BY <1>1, <2>2, PlaceUnmoved
<1>4. CASE Goes(t, "installing") /\ MayInstall(t) /\ ~Replaces(t)
  <2>1. run'[t].at = "installing"
    BY <1>4, Going
  <2>2. PlaceOK(t)'
    BY <1>1, <1>4, <2>1 DEF PlaceOK, MayInstall, Replaces
  <2> QED BY <1>1, <2>2, PlaceUnmoved
<1> QED BY <1>2, <1>3, <1>4 DEF Enter

LEMMA NotePlaces ==
    ASSUME TypeOK, RunsOK, PlaceInv, NEW t \in Transfers, Note(t)
    PROVE  PlaceInv'
<1>1. UNCHANGED <<ask, target, backup, listed, running>> /\ Attempt(t) /\ run[t].at \in Notes
  BY DEF Note, folders, Attempt
<1> DEFINE place == Following(t)
<1>2. /\ Goes(t, place)
      /\ run[t].at = "backing_up" => place = "move out"
      /\ run[t].at = "backup_created" => place = "installing"
      /\ run[t].at = "installing" => place = "move in"
      /\ run[t].at = "installed" => place = "committing_manifest"
      /\ run[t].at = "committing_manifest" => place = "save manifest"
      /\ run[t].at \in {"manifest_committed", "starting"} => place \in {"starting", "receipt", "start"}
  BY DEF Note, Following
<1> HIDE DEF place
<1>3. CASE run[t].at \in {"manifest_committed", "starting"}
  BY <1>1, <1>2, <1>3, OutsideStep, OutsidePlaces
<1>4. CASE run[t].at \in {"backing_up", "backup_created", "installing", "installed", "committing_manifest"}
  <2>1. run'[t].at = place
    BY <1>2, Going
  <2>2. PlaceOK(t)
    BY DEF PlaceInv
  <2>3. run[t].at \in Installing
    BY <1>4, OutsidePlaces
  <2>4. place # "start applied" /\ (place \in {"backing_up", "move out"} => run[t].at = "backing_up")
    BY <1>2, <1>4
  <2>6. PlaceOK(t)'
    BY <1>1, <2>1, <2>2, <2>3, <2>4 DEF PlaceOK, Replaces
  <2> QED BY <1>1, <2>6, PlaceUnmoved
<1> QED BY <1>1, <1>3, <1>4 DEF Notes

LEMMA FailsPlaces ==
    ASSUME TypeOK, RunsOK, PlaceInv, NEW t \in Transfers, Fails(t) \/ GiveUp(t)
    PROVE  PlaceInv'
<1>1. UNCHANGED <<ask, target, backup, listed, running>> /\ Attempt(t)
  BY DEF Fails, GiveUp, folders, Attempt
<1>2. CASE Goes(t, "settle")
  BY <1>1, <1>2, OutsideStep, OutsidePlaces
<1>3. CASE Fails(t) /\ ~Goes(t, "settle")
  <2>1. PICK place \in {"undo install", "undo backup", "give up"} : Goes(t, place)
    BY <1>3 DEF Fails, FirstUndone
  <2>2. run'[t].at = place /\ run[t].at \in Before
    BY <1>3, <2>1, Going DEF Fails
  <2>3. PlaceOK(t)
    BY DEF PlaceInv
  <2>6. PlaceOK(t)'
    BY <1>1, <2>1, <2>2, <2>3 DEF PlaceOK, Replaces, Installing, Undone
  <2> QED BY <1>1, <2>6, PlaceUnmoved
<1> QED BY <1>2, <1>3 DEF GiveUp

(* The other steps of an attempt that end it, or come after the commit.    *)
LEMMA LatePlaces ==
    ASSUME TypeOK, RunsOK, PlaceInv, NEW t \in Transfers,
           \/ Downloaded(t) \/ Stops(t) \/ FailsLate(t) \/ Settle(t) \/ SettleCommitted(t)
           \/ WriteReceipt(t)
    PROVE  PlaceInv'
<1>1. UNCHANGED <<target, backup, listed, running>> /\ Attempt(t)
  BY DEF Downloaded, Stops, FailsLate, Settle, SettleCommitted, WriteReceipt, folders, Attempt
<1>2. \E place \in {"unpack", "settle", "settle committed", "receipt", "idle"} : Goes(t, place)
  BY DEF Downloaded, Stops, FailsLate, Settle, SettleCommitted, WriteReceipt
<1> QED BY <1>1, <1>2, OutsideStep, OutsidePlaces

(* Steps that move a folder, that list the project, or that start it.      *)
LEMMA PlaceMoved ==
    ASSUME TypeOK, RunsOK, PlaceInv, NEW t \in Transfers, Attempt(t), PlaceOK(t)',
           \A u \in Transfers : backup'[u] # None => listed',
           RunsInPlace'
    PROVE  PlaceInv'
<1>1. \A u \in Transfers \ {t} : PlaceOK(u)'
  BY OthersWait, OwnEntry, WaitingPlace
<1> QED BY <1>1 DEF PlaceInv

LEMMA MoveOutPlaces ==
    ASSUME TypeOK, RunsOK, FoldersOK, PlaceInv, NEW t \in Transfers, MoveOut(t)
    PROVE  PlaceInv'
<1>1. PlaceOK(t) /\ FolderOK(t) /\ Attempt(t) /\ run[t].at = "move out" /\ run[t].at \in Installing
  BY OutsidePlaces DEF PlaceInv, FoldersOK, Attempt, MoveOut
<1>2. /\ run'[t].at = "backup_created" /\ UNCHANGED <<ask, listed, running>>
      /\ \A u \in Transfers \ {t} : backup'[u] = backup[u]
  BY Going DEF MoveOut, TypeOK
<1>3. Replaces(t) /\ listed /\ ~running
  BY <1>1 DEF PlaceOK, FolderOK
<1>4. PlaceOK(t)'
  BY <1>2, <1>3 DEF PlaceOK, Replaces
<1>5. RunsInPlace'
  BY <1>2, <1>3 DEF RunsInPlace
<1> QED BY <1>1, <1>2, <1>3, <1>4, <1>5, PlaceMoved DEF PlaceInv

LEMMA MoveInPlaces ==
    ASSUME TypeOK, RunsOK, PlaceInv, NEW t \in Transfers, MoveIn(t)
    PROVE  PlaceInv'
<1>1. PlaceOK(t) /\ Attempt(t) /\ run[t].at = "move in" /\ run[t].at \in Installing
  BY OutsidePlaces DEF PlaceInv, Attempt, MoveIn
<1>2. PICK place \in {"installed", "undo install", "undo backup", "settle"} : Goes(t, place)
  BY DEF MoveIn, FirstUndone
<1>3. /\ run'[t].at = place /\ UNCHANGED <<ask, listed, running, backup>>
  BY <1>2, Going DEF MoveIn
<1>4. PlaceOK(t)'
  BY <1>1, <1>3, OutsidePlaces DEF PlaceOK, Replaces
<1>5. RunsInPlace'
  <2>1. target' # None \/ ~running
    BY IdentitiesAssumption DEF MoveIn, PlaceInv, RunsInPlace, CanRun
  <2> QED BY <1>3, <2>1 DEF PlaceInv, RunsInPlace, CanRun
<1> QED BY <1>1, <1>3, <1>4, <1>5, PlaceMoved DEF PlaceInv

LEMMA SaveManifestPlaces ==
    ASSUME TypeOK, RunsOK, PlaceInv, NEW t \in Transfers, SaveManifest(t)
    PROVE  PlaceInv'
<1>1. Attempt(t) /\ run'[t].at = "manifest_committed" /\ listed' = TRUE /\ running' = running /\ target' = target
  BY Going DEF SaveManifest, Attempt, folders
<1>2. PlaceOK(t)'
  BY <1>1, OutsidePlace, OutsidePlaces
<1>3. RunsInPlace'
  BY <1>1 DEF PlaceInv, RunsInPlace, CanRun
<1> QED BY <1>1, <1>2, <1>3, PlaceMoved

LEMMA UndoPlaces ==
    ASSUME TypeOK, RunsOK, FoldersOK, PlaceInv, NEW t \in Transfers, UndoInstall(t) \/ UndoBackup(t)
    PROVE  PlaceInv'
<1>1. PlaceOK(t) /\ FolderOK(t) /\ Attempt(t) /\ run[t].at \in Installing
  BY OutsidePlaces DEF PlaceInv, FoldersOK, Attempt, UndoInstall, UndoBackup
<1>2. PICK place \in {"undo backup", "settle", "give up"} : Goes(t, place)
  BY DEF UndoInstall, UndoBackup
<1>3. /\ run'[t].at = place /\ UNCHANGED <<ask, listed, running>>
      /\ \A u \in Transfers : backup'[u] = None \/ backup'[u] = backup[u]
  BY <1>2, Going DEF UndoInstall, UndoBackup, TypeOK
<1>4. PlaceOK(t)'
  BY <1>1, <1>3, OutsidePlaces DEF PlaceOK, Replaces
<1>5. ~running
  BY <1>1 DEF PlaceOK, PlaceInv, RunsInPlace, CanRun
<1>6. RunsInPlace'
  BY <1>3, <1>5 DEF RunsInPlace
<1> QED BY <1>1, <1>3, <1>4, <1>6, PlaceMoved DEF PlaceInv

LEMMA StartPlaces ==
    ASSUME TypeOK, RunsOK, PlaceInv, NEW t \in Transfers, Start(t) \/ StartApplied(t)
    PROVE  PlaceInv'
<1>1. Attempt(t) /\ UNCHANGED <<target, backup, listed>>
  BY DEF Start, StartApplied, Attempt, folders
<1>2. \E place \in {"receipt", "settle committed", "idle"} : Goes(t, place)
  BY DEF Start, StartApplied
<1>3. PlaceOK(t)'
  BY <1>2, Going, OutsidePlace, OutsidePlaces
<1>4. running' = running \/ running' = CanRun \/ (CanRun /\ running' = TRUE)
  BY Zenon DEF Start, StartApplied
<1>5. RunsInPlace'
  BY <1>1, <1>4 DEF PlaceInv, RunsInPlace, CanRun
<1> QED BY <1>1, <1>3, <1>5, PlaceMoved DEF PlaceInv

(* Steps of the manager, the reconciliation and the senders.               *)
LEMMA IdlePlaces ==
    ASSUME \A t \in Transfers : run'[t].at = "idle"
    PROVE  \A t \in Transfers : PlaceOK(t)'
BY OutsidePlace, OutsidePlaces

LEMMA ReconcilePlaces ==
    ASSUME TypeOK, RunsOK, PlaceInv, NEW t \in Transfers, Reconcile(t)
    PROVE  PlaceInv'
<1>1. /\ UNCHANGED <<ask, listed, running, run>> /\ manager # "up"
  BY DEF Reconcile, ReconcileUntouched, ReconcileCommitted, RestoreBackup, Quarantine,
         RequireRecovery, Reconciles
<1>2. \A u \in Transfers : PlaceOK(u)'
  BY <1>1, IdlePlaces DEF RunsOK
<1>3. \A u \in Transfers : backup'[u] = None \/ backup'[u] = backup[u]
  BY DEF Reconcile, ReconcileUntouched, ReconcileCommitted, RestoreBackup, Quarantine,
         RequireRecovery, folders, TypeOK
<1>4. RunsInPlace'
  <2>1. CASE target' = target
    BY <1>1, <2>1 DEF PlaceInv, RunsInPlace, CanRun
  <2>2. CASE RestoreBackup(t)
    <3>1. target = None
      BY <2>2 DEF RestoreBackup, BackupOnly
    <3> QED BY <1>1, <3>1 DEF PlaceInv, RunsInPlace, CanRun
  <2>3. CASE Quarantine(t)
    <3>1. ~listed
      BY <2>3 DEF Quarantine, InstalledOnly, Committed, Looks, NeverMoved
    <3> QED BY <1>1, <3>1 DEF PlaceInv, RunsInPlace, CanRun
  <2> QED BY <2>1, <2>2, <2>3 DEF Reconcile, ReconcileUntouched, ReconcileCommitted, RequireRecovery, folders
<1> QED BY <1>1, <1>2, <1>3, <1>4 DEF PlaceInv

LEMMA ManagerPlaces ==
    ASSUME TypeOK, RunsOK, PlaceInv, UserSwitches \/ Crash \/ Boot \/ WriteReceipts \/ WritePulls
    PROVE  PlaceInv'
<1>1. UNCHANGED <<target, backup, listed>>
  BY DEF UserSwitches, Crash, Boot, WriteReceipts, WritePulls, folders
<1>2. \A u \in Transfers : PlaceOK(u)'
  <2>1. CASE UserSwitches
    BY <2>1, WaitingPlace DEF UserSwitches, Serving, Busy, Quiet
  <2>2. CASE ~UserSwitches
    <3>1. \A t \in Transfers : run'[t].at = "idle"
      BY <2>2 DEF Crash, Boot, WriteReceipts, WritePulls, RunsOK, Runs
    <3> QED BY <3>1, IdlePlaces
  <2> QED BY <2>1, <2>2
<1>3. RunsInPlace'
  BY <1>1 DEF UserSwitches, Crash, Boot, WriteReceipts, WritePulls, PlaceInv, RunsInPlace, CanRun
<1> QED BY <1>1, <1>2, <1>3 DEF PlaceInv

LEMMA SenderPlaces ==
    ASSUME PlaceInv, NEW t \in Transfers, Sender(t)
    PROVE  PlaceInv'
<1>1. UNCHANGED <<ask, folders, listed, running, journal, run, recovery>>
  BY SenderLeaves
<1> QED BY <1>1 DEF PlaceInv, PlaceOK, Replaces, RunsInPlace, CanRun, folders

LEMMA NextPlaces ==
    ASSUME TypeOK, RunsOK, FoldersOK, PlaceInv, Next
    PROVE  PlaceInv'
<1>1. ASSUME NEW t \in Transfers, Attempt(t) PROVE PlaceInv'
  BY <1>1, EnterPlaces, NotePlaces, FailsPlaces, LatePlaces, MoveOutPlaces, MoveInPlaces, SaveManifestPlaces,
     UndoPlaces, StartPlaces DEF Attempt
<1> QED BY <1>1, RequestPlaces, ReconcilePlaces, ManagerPlaces, SenderPlaces DEF Next

-----------------------------------------------------------------------------
(* What the reconciliation has of the journal: it looks at the active      *)
(* entries, those of pushes first.                                         *)
BooksOK ==
    /\ manager \in {"up", "down"} => mem = [t \in Transfers |-> NoEntry]
    /\ \A t \in todo : mem[t].status = "active"
    /\ manager = "receipts" => todo \subseteq Pushes /\ \A t \in Pulls : mem[t] = journal[t]
    /\ manager = "pulls" => todo \subseteq Pulls /\ \A t \in Pushes : mem[t] = journal[t]
    /\ manager = "receipts" => \A t \in Pushes : mem[t].status = "active" => t \in todo
    /\ manager = "pulls" => \A t \in Transfers : mem[t].status = "active" => t \in todo

LEMMA UpBooks ==
    ASSUME BooksOK, manager = "up"
    PROVE  todo \cap Transfers = {} /\ \A t \in Transfers : mem[t] = NoEntry
<1>1. \A t \in Transfers : mem[t] = NoEntry
  BY DEF BooksOK
<1>2. NoEntry.status # "active"
  BY DEF NoEntry
<1> QED BY <1>1, <1>2 DEF BooksOK

LEMMA NextBooks ==
    ASSUME TypeOK, RunsOK, BooksOK, Next
    PROVE  BooksOK'
<1>1. ASSUME NEW t \in Transfers, Request(t) \/ Attempt(t)
      PROVE  BooksOK'
  <2>1. manager = "up" /\ UNCHANGED recovery
    <3>1. manager = "up"
      <4>1. run[t].at \notin Quiet \/ Serving
        BY <1>1 DEF Request, ReceiveKnown, ReceiveNew, BeginPull, RetryStart, Attempt, Downloaded, Stops, Enter,
         Note, MoveOut, MoveIn, SaveManifest, Fails, FailsLate, UndoInstall, UndoBackup, GiveUp, Settle,
         SettleCommitted, Start, WriteReceipt, StartApplied, Quiet, Awaits, Before, Notes
      <4> QED BY <4>1, Alone DEF Serving
    <3> QED BY <1>1, <3>1 DEF Request, ReceiveKnown, ReceiveNew, BeginPull, RetryStart, Attempt, Downloaded, Stops, Enter,
         Note, MoveOut, MoveIn, SaveManifest, Fails, FailsLate, UndoInstall, UndoBackup, GiveUp, Settle,
         SettleCommitted, Start, WriteReceipt, StartApplied
  <2> QED BY <2>1 DEF BooksOK, recovery
<1>2. ASSUME NEW t \in Transfers, Reconcile(t)
      PROVE  BooksOK'
  <2>1. PICK s \in Statuses \ {"active"} : Reconciles(t, s)
    BY <1>2 DEF Reconcile, ReconcileUntouched, ReconcileCommitted, RestoreBackup, Quarantine,
         RequireRecovery, Statuses
  <2>2. /\ manager \in {"receipts", "pulls"} /\ t \in todo /\ todo' = todo \ {t}
        /\ UNCHANGED <<ask, journal, manager>>
        /\ mem'[t].status = s /\ \A u \in Transfers \ {t} : mem'[u] = mem[u]
    BY <2>1 DEF Reconciles, TypeOK, Entries
  <2>3. todo' \subseteq Transfers /\ todo' = todo \ {t}
    BY <2>2 DEF TypeOK
  <2>4. /\ manager = "receipts" => t \in Pushes
        /\ manager = "pulls" => t \in Pulls
        /\ Pushes' = Pushes /\ Pulls' = Pulls
    BY <2>2 DEF BooksOK, Pushes, Pulls
  <2>5. Pushes \cup Pulls = Transfers /\ Pushes \cap Pulls = {} /\ s # "active"
    BY DEF Pushes, Pulls
  <2>6. \A u \in todo' : u # t /\ u \in todo /\ u \in Transfers
    BY <2>3
  <2>7. \A u \in todo' : mem'[u].status = "active"
    BY <2>2, <2>6 DEF BooksOK
  <2>8. \A u \in Transfers : mem'[u].status = "active" => u # t /\ mem[u].status = "active"
    BY <2>2, <2>5
  <2>9. /\ manager = "receipts" => todo' \subseteq Pushes' /\ \A u \in Pulls' : mem'[u] = journal'[u]
        /\ manager = "pulls" => todo' \subseteq Pulls' /\ \A u \in Pushes' : mem'[u] = journal'[u]
    BY <2>2, <2>4, <2>5, <2>6 DEF BooksOK
  <2>10. /\ manager = "receipts" => \A u \in Pushes' : mem'[u].status = "active" => u \in todo'
         /\ manager = "pulls" => \A u \in Transfers : mem'[u].status = "active" => u \in todo'
    BY <2>3, <2>4, <2>5, <2>8 DEF BooksOK
  <2> QED BY <2>2, <2>7, <2>9, <2>10 DEF BooksOK
<1>3. ASSUME NEW t \in Transfers, Sender(t)
      PROVE  BooksOK'
  BY <1>3, SenderLeaves DEF BooksOK, recovery, Pushes, Pulls
<1>4. CASE UserSwitches \/ Crash
  BY <1>4 DEF BooksOK, UserSwitches, Crash, recovery, Pushes, Pulls
<1>5. CASE Boot
  <2>1. Pushes' = Pushes /\ Pulls' = Pulls /\ Pushes \cup Pulls = Transfers /\ Pushes \cap Pulls = {}
    BY <1>5 DEF Boot, Pushes, Pulls
  <2>2. /\ mem' = journal /\ journal' = journal /\ manager' = "receipts"
        /\ todo' = {t \in Pushes : journal[t].status = "active"}
    BY <1>5 DEF Boot, Interrupted
  <2> QED BY <2>1, <2>2 DEF BooksOK
<1>6. CASE WriteReceipts
  <2>1. Pushes' = Pushes /\ Pulls' = Pulls /\ Pushes \cup Pulls = Transfers /\ Pushes \cap Pulls = {}
    BY <1>6 DEF WriteReceipts, Pushes, Pulls
  <2>2. /\ mem' = mem /\ manager = "receipts" /\ manager' = "pulls" /\ todo = {}
        /\ todo' = {t \in Pulls : journal[t].status = "active"}
        /\ \A t \in Pushes : journal'[t] = mem[t]
    BY <1>6, <2>1 DEF WriteReceipts, Interrupted
  <2> QED BY <2>1, <2>2 DEF BooksOK
<1>7. CASE WritePulls
  BY <1>7 DEF BooksOK, WritePulls
<1> QED BY <1>1, <1>2, <1>3, <1>4, <1>5, <1>6, <1>7 DEF Next

-----------------------------------------------------------------------------
(* One install of each transfer: whoever replaces a project keeps the old  *)
(* one as its backup from then on, and a retry finds that backup; whoever  *)
(* installs where nothing is listed finds no backup of anybody.            *)
Attempts == 1..MaxAttempts
Has(t, n) == target = <<t, n>> \/ \E u \in Transfers : backup[u] = <<t, n>>

Fresh == {"download", "unpack", "backing_up", "move out", "backup_created", "installing", "move in"}
MovedIn == {"installed", "committing_manifest", "save manifest", "undo install"}
Torn == {"backup_created", "installing", "move in", "undo backup", "give up"} \cup MovedIn

NotYetIn(t, e) ==
    /\ Replaces(t) /\ e.status = "active" /\ e.installedId = None
    /\ e.phase \in {"backing_up", "backup_created", "installing"}
    => \A n \in Attempts : ~Has(t, n)
OnceOK(t) ==
    /\ \A m, n \in Attempts : Has(t, m) /\ Has(t, n) => m = n
    /\ \A n \in Attempts : Has(t, n) => n <= run[t].attempt /\ (run[t].at \in Fresh => n # run[t].attempt)
    /\ \A n \in Attempts : Replaces(t) /\ Has(t, n) => backup[t] # None
    /\ run[t].at \in Installing \ {"give up"} =>
         \A n \in Attempts :
             /\ \A u \in Transfers : backup[u] # <<t, n>>
             /\ Replaces(t) /\ run[t].at \notin MovedIn => target # <<t, n>>
    /\ run[t].at \in Torn /\ Replaces(t) => backup[t] # None
    /\ run[t].at = "move in" => journal[t].installedId # None
OnceInv ==
    \A t \in Transfers : OnceOK(t) /\ NotYetIn(t, journal[t]) /\ NotYetIn(t, mem[t])

LEMMA StageIsOne ==
    ASSUME RunsOK, NEW t \in Transfers, run[t].at \in {"download", "unpack"} \cup Before
    PROVE  run[t].attempt \in Attempts /\ Stage(t) # None /\ Stage(t) = <<t, run[t].attempt>>
<1>1. run[t].attempt \in 0..MaxAttempts /\ run[t].attempt # 0
  BY DEF RunsOK, Runs
<1>2. run[t].attempt \in Attempts
  BY <1>1, BoundsAssumption DEF Attempts
<1> QED BY <1>2, IdentitiesAssumption DEF Stage, Unpacked, Attempts

(* Nobody but the attempt itself adds a directory of its transfer.         *)
LEMMA WaitingOnce ==
    ASSUME OnceInv, NEW u \in Transfers, run[u].at \in Quiet, run'[u] = run[u], ask' = ask,
           journal'[u] = journal[u], mem'[u] = mem[u], backup'[u] = backup[u],
           \A n \in Attempts : Has(u, n)' => Has(u, n)
    PROVE  OnceOK(u)' /\ NotYetIn(u, journal[u])' /\ NotYetIn(u, mem[u])'
<1>1. run[u].at \notin Installing /\ run[u].at \notin Torn /\ run[u].at # "move in"
  BY DEF Quiet, Awaits, Installing, Before, Notes, Undone, Torn, MovedIn
<1>2. OnceOK(u) /\ NotYetIn(u, journal[u]) /\ NotYetIn(u, mem[u])
  BY DEF OnceInv
<1>3. OnceOK(u)'
  BY <1>1, <1>2 DEF OnceOK, Replaces
<1>4. NotYetIn(u, journal[u])' /\ NotYetIn(u, mem[u])'
  BY <1>2 DEF NotYetIn, Replaces
<1> QED BY <1>3, <1>4

LEMMA AttemptUp ==
    ASSUME RunsOK, NEW t \in Transfers, Request(t) \/ Attempt(t)
    PROVE  manager = "up" /\ ask' = ask /\ UNCHANGED recovery
<1>1. run[t].at \notin Quiet \/ Serving
  BY DEF Request, ReceiveKnown, ReceiveNew, BeginPull, RetryStart, Attempt, Downloaded, Stops, Enter,
         Note, MoveOut, MoveIn, SaveManifest, Fails, FailsLate, UndoInstall, UndoBackup, GiveUp, Settle,
         SettleCommitted, Start, WriteReceipt, StartApplied, Quiet, Awaits, Before, Notes
<1> QED BY <1>1, Alone DEF Serving, Request, ReceiveKnown, ReceiveNew, BeginPull, RetryStart, Attempt,
         Downloaded, Stops, Enter, Note, MoveOut, MoveIn, SaveManifest, Fails, FailsLate, UndoInstall,
         UndoBackup, GiveUp, Settle, SettleCommitted, Start, WriteReceipt, StartApplied

(* What a step of an attempt has to show of its own transfer.              *)
LEMMA OnceStep ==
    ASSUME TypeOK, RunsOK, BooksOK, OnceInv, NEW t \in Transfers, Request(t) \/ Attempt(t),
           \A u \in Transfers \ {t} : backup'[u] = backup[u],
           \A u \in Transfers \ {t} : \A n \in Attempts : Has(u, n)' => Has(u, n),
           OnceOK(t)', NotYetIn(t, journal[t])'
    PROVE  OnceInv'
<1>1. ASSUME NEW u \in Transfers \ {t}
      PROVE  OnceOK(u)' /\ NotYetIn(u, journal[u])' /\ NotYetIn(u, mem[u])'
  BY <1>1, OthersWait, OwnEntry, AttemptUp, WaitingOnce DEF recovery
<1>2. mem'[t] = NoEntry
  BY AttemptUp, UpBooks DEF recovery
<1>3. NotYetIn(t, mem[t])'
  BY <1>2 DEF NotYetIn, NoEntry
<1> QED BY <1>1, <1>3 DEF OnceInv

(* The steps that leave the folders alone.                                 *)
LEMMA OnceUnmoved ==
    ASSUME TypeOK, RunsOK, BooksOK, OnceInv, NEW t \in Transfers, Request(t) \/ Attempt(t),
           UNCHANGED <<target, backup>>, OnceOK(t)', NotYetIn(t, journal[t])'
    PROVE  OnceInv'
<1>1. \A u \in Transfers \ {t} : \A n \in Attempts : Has(u, n)' => Has(u, n)
  BY DEF Has
<1> QED BY <1>1, OnceStep

LEMMA HasStays ==
    ASSUME UNCHANGED <<target, backup>>, NEW t \in Transfers, NEW n
    PROVE  Has(t, n)' <=> Has(t, n)
BY DEF Has

(* The entry of a transfer stays harmless where its status is not active,  *)
(* where its phase is early or late, and where phase, status and identity  *)
(* are those it had.                                                       *)
LEMMA EntryHarmless ==
    ASSUME OnceInv, NEW t \in Transfers, UNCHANGED <<ask, target, backup>>,
           \/ journal'[t].status # "active"
           \/ journal'[t].phase \notin {"backing_up", "backup_created", "installing"}
           \/ journal'[t].installedId # None
           \/ \A n \in Attempts : Replaces(t) => ~Has(t, n)
           \/ journal'[t] = journal[t]
    PROVE  NotYetIn(t, journal[t])'
<1>1. NotYetIn(t, journal[t])
  BY DEF OnceInv
<1> QED BY <1>1, HasStays DEF NotYetIn, Replaces

(* An attempt that leaves the work behind.                                 *)
LEMMA OutsideOnce ==
    ASSUME TypeOK, OnceInv, NEW t \in Transfers, NEW place \in Outside, Goes(t, place),
           UNCHANGED <<ask, target, backup>>, place \in Fresh => run[t].at \in Fresh
    PROVE  OnceOK(t)'
<1>1. place \notin Installing /\ place \notin Torn /\ place # "move in"
  BY OutsidePlaces DEF Outside, Torn, MovedIn
<1>2. run'[t].at = place /\ run'[t].attempt = run[t].attempt
  BY Going
<1>3. OnceOK(t) BY DEF OnceInv
<1> QED BY <1>1, <1>2, <1>3, HasStays DEF OnceOK, Replaces

LEMMA ClaimOnce ==
    ASSUME TypeOK, RunsOK, BooksOK, OnceInv, NEW t \in Transfers, Request(t),
           UNCHANGED <<target, backup>>,
           NEW place \in {"download", "unpack"}, NEW entry, Claims(t, place, entry),
           entry.phase \in {"extracting", "downloading"}
    PROVE  OnceInv'
<1>1. ask' = ask /\ manager = "up" /\ manager' = manager
  BY AttemptUp DEF recovery
<1>2. run'[t].at = place
  BY <1>1, ClaimGoesOn
<1>3. run'[t].attempt = run[t].attempt + 1 /\ journal'[t] = entry /\ run[t].attempt \in Nat
  BY BoundsAssumption DEF Claims, TypeOK, Runs
<1>4. OnceOK(t)
  BY DEF OnceInv
<1>5. \A n \in Attempts : Has(t, n) => n <= run'[t].attempt /\ n # run'[t].attempt
  <2>1. \A n \in Attempts : Has(t, n) => n <= run[t].attempt
    BY <1>4 DEF OnceOK
  <2>2. \A n \in Attempts : n \in Nat
    BY BoundsAssumption DEF Attempts
  <2> QED BY <1>3, <2>1, <2>2
<1>6. place \notin Installing /\ place \notin Torn /\ place # "move in"
  BY OutsidePlaces DEF Outside, Torn, MovedIn
<1>7. OnceOK(t)'
  BY <1>1, <1>2, <1>4, <1>5, <1>6, HasStays DEF OnceOK, Replaces
<1>8. NotYetIn(t, journal[t])'
  BY <1>1, <1>3, EntryHarmless
<1> QED BY <1>7, <1>8, OnceUnmoved

LEMMA RequestOnce ==
    ASSUME TypeOK, RunsOK, BooksOK, OnceInv, NEW t \in Transfers, Request(t)
    PROVE  OnceInv'
<1>1. UNCHANGED <<ask, target, backup>>
  BY DEF Request, ReceiveKnown, ReceiveNew, BeginPull, RetryStart, folders
<1>2. CASE run' = run /\ journal' = journal
  <2>1. OnceOK(t)'
    BY <1>1, <1>2, HasStays DEF OnceInv, OnceOK, Replaces
  <2> QED BY <1>1, <1>2, <2>1, EntryHarmless, OnceUnmoved
<1>3. CASE Goes(t, "start applied") /\ journal' = journal
  <2>1. run'[t].at = "start applied" /\ run'[t].attempt = run[t].attempt
    BY <1>3, Going
  <2>2. "start applied" \notin Installing \cup Torn \cup Fresh
    BY OutsidePlaces DEF Torn, MovedIn, Fresh
  <2>3. OnceOK(t)'
    BY <1>1, <1>3, <2>1, <2>2, HasStays DEF OnceInv, OnceOK, Replaces
  <2> QED BY <1>1, <1>3, <2>3, EntryHarmless, OnceUnmoved
<1>4. CASE ReceiveKnown(t) \/ RetryStart(t)
  BY <1>2, <1>3, <1>4 DEF ReceiveKnown, RetryStart
<1>5. CASE ReceiveNew(t)
  <2>1. [NoEntry EXCEPT !.status = "active", !.phase = "extracting"].phase = "extracting"
    BY DEF NoEntry
  <2> QED BY <1>1, <1>2, <1>5, <2>1, ClaimOnce DEF ReceiveNew
<1>6. CASE BeginPull(t)
  <2>1. PullEntry(t).phase = "downloading"
    BY DEF PullEntry, TypeOK, Entries
  <2> QED BY <1>1, <1>6, <2>1, ClaimOnce DEF BeginPull
<1> QED BY <1>4, <1>5, <1>6 DEF Request

LEMMA EnterOnce ==
    ASSUME TypeOK, RunsOK, PlaceInv, BooksOK, OnceInv, NEW t \in Transfers, Enter(t)
    PROVE  OnceInv'
<1>1. UNCHANGED <<ask, target, backup, journal>> /\ Attempt(t) /\ run[t].at = "unpack" /\ run[t].at \in Fresh
  BY DEF Enter, folders, Attempt, Fresh
<1>2. OnceOK(t)
  BY DEF OnceInv
<1>3. CASE Goes(t, "settle")
  BY <1>1, <1>3, OutsideOnce, OutsidePlaces, EntryHarmless, OnceUnmoved
<1>4. CASE Goes(t, "backing_up") /\ MayInstall(t) /\ Replaces(t)
  <2>1. run'[t].at = "backing_up" /\ run'[t].attempt = run[t].attempt
    BY <1>4, Going
  <2>2. \A n \in Attempts : ~Has(t, n)
    BY <1>2, <1>4 DEF OnceOK, MayInstall
  <2>3. "backing_up" \notin Torn
    BY DEF Torn, MovedIn
  <2>4. OnceOK(t)'
    BY <1>1, <1>2, <2>1, <2>2, <2>3, HasStays DEF OnceOK, Replaces, Has
  <2> QED BY <1>1, <2>4, EntryHarmless, OnceUnmoved
<1>5. CASE Goes(t, "installing") /\ MayInstall(t) /\ ~Replaces(t)
  <2>1. run'[t].at = "installing" /\ run'[t].attempt = run[t].attempt
    BY <1>5, Going
  <2>2. \A u \in Transfers : backup[u] = None
    BY <1>5 DEF MayInstall, PlaceInv
  <2>3. \A n \in Attempts : <<t, n>> # None
    BY IdentitiesAssumption DEF Attempts, Unpacked
  <2>4. OnceOK(t)'
    BY <1>1, <1>2, <1>5, <2>1, <2>2, <2>3, HasStays DEF OnceOK, Replaces
  <2> QED BY <1>1, <2>4, EntryHarmless, OnceUnmoved
<1> QED BY <1>3, <1>4, <1>5 DEF Enter

LEMMA NoteOnce ==
    ASSUME TypeOK, RunsOK, FoldersOK, PlaceInv, BooksOK, OnceInv, NEW t \in Transfers, Note(t)
    PROVE  OnceInv'
<1>1. UNCHANGED <<ask, target, backup>> /\ Attempt(t) /\ run[t].at \in Notes
  BY DEF Note, folders, Attempt
<1>2. OnceOK(t) /\ FolderOK(t) /\ PlaceOK(t)
  BY DEF OnceInv, FoldersOK, PlaceInv
<1> DEFINE place == Following(t)
<1>3. /\ Goes(t, place)
      /\ run[t].at = "backing_up" => place = "move out"
      /\ run[t].at = "backup_created" => place = "installing"
      /\ run[t].at = "installing" => place = "move in"
      /\ run[t].at = "installed" => place = "committing_manifest"
      /\ run[t].at = "committing_manifest" => place = "save manifest"
      /\ run[t].at \in {"manifest_committed", "starting"} => place \in {"starting", "receipt", "start"}
  BY DEF Note, Following
<1> HIDE DEF place
<1>4. run'[t].at = place /\ run'[t].attempt = run[t].attempt
  BY <1>3, Going
<1>5. journal[t].status = "active" /\ journal[t] \in Entries
  BY <1>1 DEF TypeOK, AtWork, Before, After, Notes
<1>6. journal'[t] = Noted(t, run[t].at)
  BY <1>5 DEF Note, Update, TypeOK
<1>7. /\ journal'[t].phase = run[t].at
      /\ run[t].at = "installing" => journal'[t].installedId # None
  <2>1. journal'[t].phase = run[t].at
    BY <1>5, <1>6 DEF Noted, Entries
  <2>2. run[t].at = "installing" => journal'[t].installedId = Stage(t)
    BY <1>5, <1>6 DEF Noted, Entries
  <2>3. run[t].at = "installing" => Stage(t) # None
    BY StageIsOne DEF Before, Notes
  <2> QED BY <2>1, <2>2, <2>3
<1>8. NotYetIn(t, journal[t])'
  <2>1. CASE run[t].at \in {"backing_up", "backup_created"}
    <3>1. run[t].at \in Installing \ {"give up"} /\ run[t].at \notin MovedIn
      BY <2>1, OutsidePlaces DEF MovedIn
    <3>2. \A n \in Attempts : Replaces(t) => ~Has(t, n)
      BY <1>2, <3>1 DEF OnceOK, Has
    <3> QED BY <1>1, <3>2, EntryHarmless
  <2>2. CASE run[t].at \notin {"backing_up", "backup_created"}
    BY <1>1, <1>7, <2>2, EntryHarmless
  <2> QED BY <2>1, <2>2
<1>9. CASE run[t].at \in {"manifest_committed", "starting"}
  <2>1. place \in Outside /\ place \notin Fresh
    BY <1>3, <1>9, OutsidePlaces DEF Fresh
  <2>2. OnceOK(t)'
    BY <1>1, <1>3, <2>1, OutsideOnce
  <2> QED BY <1>1, <1>8, <2>2, OnceUnmoved
<1>10. CASE run[t].at \in {"backing_up", "backup_created", "installing", "installed", "committing_manifest"}
  <2>1. run[t].at \in Installing \ {"give up"} /\ place \in Installing \ {"give up"}
        /\ (place \in MovedIn <=> run[t].at \in MovedIn)
        /\ (place \in Fresh <=> run[t].at \in Fresh)
    BY <1>3, <1>10, OutsidePlaces DEF MovedIn, Fresh
  <2>2. place \in Torn => run[t].at \in Torn
    BY <1>3, <1>10 DEF Torn, MovedIn
  <2>3. place = "move in" => journal'[t].installedId # None
    BY <1>3, <1>7, <1>10
  <2>4. OnceOK(t)'
    BY <1>1, <1>2, <1>4, <2>1, <2>2, <2>3, HasStays DEF OnceOK, Replaces
  <2> QED BY <1>1, <1>8, <2>4, OnceUnmoved
<1> QED BY <1>1, <1>9, <1>10 DEF Notes

LEMMA FailsOnce ==
    ASSUME TypeOK, RunsOK, FoldersOK, PlaceInv, BooksOK, OnceInv, NEW t \in Transfers,
           Fails(t) \/ (MoveIn(t) /\ target # None)
    PROVE  OnceInv'
<1>1. UNCHANGED <<ask, target, backup, journal>> /\ Attempt(t) /\ run[t].at \in Before
  BY DEF Fails, MoveIn, folders, Attempt, Before
<1>2. OnceOK(t) /\ FolderOK(t)
  BY DEF OnceInv, FoldersOK
<1> DEFINE place == FirstUndone(t)
<1>3. Goes(t, place)
  BY DEF Fails, MoveIn
<1>4. run'[t].at = place /\ run'[t].attempt = run[t].attempt
  BY <1>3, Going
<1>5. run[t].at \in Installing \ {"give up"}
  BY <1>1 DEF Installing, Before, Notes
<1>6. run[t].attempt \in Attempts /\ Stage(t) = <<t, run[t].attempt>>
  BY <1>1, StageIsOne
<1>7. place \in {"undo install", "undo backup", "settle"}
  BY DEF FirstUndone
<1>8. place \notin Fresh /\ place # "move in" /\ (place = "settle" => place \in Outside)
  BY <1>7, OutsidePlaces DEF Fresh
<1>9. CASE place = "settle"
  <2>1. OnceOK(t)'
    BY <1>1, <1>3, <1>8, <1>9, OutsideOnce
  <2> QED BY <1>1, <2>1, EntryHarmless, OnceUnmoved
<1>10. CASE place = "undo install"
  <2>1. target = Stage(t)
    BY <1>10 DEF FirstUndone
  <2>2. Has(t, run[t].attempt)
    BY <1>6, <2>1 DEF Has
  <2>3. run[t].at \notin Fresh
    BY <1>2, <1>6, <2>2 DEF OnceOK
  <2>4. run[t].at \in Torn /\ place \in MovedIn
    BY <1>1, <1>10, <2>3 DEF Torn, MovedIn, Fresh, Before, Notes
  <2>5. OnceOK(t)'
    BY <1>1, <1>2, <1>4, <1>5, <1>8, <2>4, HasStays DEF OnceOK, Replaces
  <2> QED BY <1>1, <2>5, EntryHarmless, OnceUnmoved
<1>11. CASE place = "undo backup"
  <2>1. target # Stage(t) /\ backup[t] # None
    BY <1>11 DEF FirstUndone
  <2>2. run[t].at \notin MovedIn
    BY <1>1, <1>2, <2>1 DEF FolderOK, MovedIn, Before, Notes
  <2>3. OnceOK(t)'
    BY <1>1, <1>2, <1>4, <1>5, <1>8, <2>1, <2>2, HasStays DEF OnceOK, Replaces
  <2> QED BY <1>1, <2>3, EntryHarmless, OnceUnmoved
<1> QED BY <1>7, <1>9, <1>10, <1>11

LEMMA LateOnce ==
    ASSUME TypeOK, RunsOK, PlaceInv, BooksOK, OnceInv, NEW t \in Transfers,
           \/ Downloaded(t) \/ Stops(t) \/ FailsLate(t) \/ GiveUp(t) \/ Settle(t) \/ SettleCommitted(t)
           \/ WriteReceipt(t) \/ SaveManifest(t) \/ Start(t) \/ StartApplied(t)
    PROVE  OnceInv'
<1>1. UNCHANGED <<ask, target, backup>> /\ Attempt(t)
  BY DEF Downloaded, Stops, FailsLate, GiveUp, Settle, SettleCommitted, WriteReceipt, SaveManifest, Start,
         StartApplied, folders, Attempt
<1>2. /\ \E place \in {"unpack", "settle", "settle committed", "receipt", "idle", "manifest_committed"} :
           Goes(t, place) /\ (place = "unpack" => run[t].at = "download")
  BY DEF Downloaded, Stops, FailsLate, GiveUp, Settle, SettleCommitted, WriteReceipt, SaveManifest, Start,
         StartApplied
<1>3. OnceOK(t)'
  BY <1>1, <1>2, OutsideOnce, OutsidePlaces DEF Fresh
<1>4. \/ journal'[t] = journal[t] \/ journal'[t].status # "active"
      \/ journal'[t].phase \notin {"backing_up", "backup_created", "installing"}
  <2>1. Receipt.status # "active" /\ journal[t] \in Entries /\ journal \in [Transfers -> Entries]
    BY DEF Receipt, NoEntry, TypeOK
  <2>2. ASSUME NEW s \in {"error", "recovery_required", "applied_pending_start"},
               Update(t, [journal[t] EXCEPT !.status = s])
        PROVE  journal'[t].status # "active"
    BY <2>1, <2>2 DEF Update, Entries
  <2>3. CASE Downloaded(t)
    BY <2>1, <2>3 DEF Downloaded, Update, Entries
  <2>4. CASE journal' = journal \/ journal' = [journal EXCEPT ![t] = Receipt]
    BY <2>1, <2>4
  <2> QED BY <2>2, <2>3, <2>4 DEF Stops, FailsLate, GiveUp, Settle, SettleCommitted, CommittedOutcome,
         WriteReceipt, SaveManifest, Start, StartApplied
<1>5. NotYetIn(t, journal[t])'
  BY <1>1, <1>4, EntryHarmless
<1> QED BY <1>1, <1>3, <1>5, OnceUnmoved

(* The steps of an attempt that move a folder.                             *)
LEMMA MoveOutOnce ==
    ASSUME TypeOK, RunsOK, FoldersOK, PlaceInv, BooksOK, OnceInv, NEW t \in Transfers, MoveOut(t)
    PROVE  OnceInv'
<1>1. /\ Attempt(t) /\ run[t].at = "move out" /\ Goes(t, "backup_created") /\ journal' = journal
      /\ ask' = ask /\ target' = None /\ backup' = [backup EXCEPT ![t] = target]
  BY DEF MoveOut, Attempt
<1>2. OnceOK(t) /\ FolderOK(t) /\ PlaceOK(t)
  BY DEF OnceInv, FoldersOK, PlaceInv
<1>3. run'[t].at = "backup_created" /\ run'[t].attempt = run[t].attempt
  BY <1>1, Going
<1>4. backup'[t] = target /\ \A u \in Transfers \ {t} : backup'[u] = backup[u]
  BY <1>1 DEF TypeOK
<1>5. Replaces(t) /\ target # None
  BY <1>1, <1>2 DEF FolderOK, PlaceOK
<1>6. \A n \in Attempts, u \in Transfers : <<u, n>> # None
  BY IdentitiesAssumption DEF Attempts, Unpacked
<1>7. \A u \in Transfers : \A n \in Attempts : Has(u, n)' => Has(u, n)
  BY <1>1, <1>4, <1>6 DEF Has
<1>8. run[t].at \in Installing \ {"give up"} /\ run[t].at \notin MovedIn
  BY <1>1, OutsidePlaces DEF MovedIn
<1>9. \A n \in Attempts : ~Has(t, n)
  BY <1>2, <1>5, <1>8 DEF OnceOK, Has
<1>10. \A n \in Attempts : /\ \A u \in Transfers : backup'[u] # <<t, n>>
                           /\ target' # <<t, n>>
  BY <1>7, <1>9 DEF Has
<1>11. OnceOK(t)'
  BY <1>3, <1>4, <1>5, <1>7, <1>9, <1>10 DEF OnceOK
<1>12. NotYetIn(t, journal[t])'
  BY <1>7, <1>9 DEF NotYetIn
<1> QED BY <1>1, <1>4, <1>7, <1>11, <1>12, OnceStep

LEMMA MoveInOnce ==
    ASSUME TypeOK, RunsOK, FoldersOK, PlaceInv, BooksOK, OnceInv, NEW t \in Transfers, MoveIn(t),
           target = None
    PROVE  OnceInv'
<1>1. /\ Attempt(t) /\ run[t].at = "move in" /\ Goes(t, "installed") /\ journal' = journal
      /\ ask' = ask /\ target' = Stage(t) /\ backup' = backup
  BY DEF MoveIn, Attempt
<1>2. OnceOK(t) /\ FolderOK(t)
  BY DEF OnceInv, FoldersOK
<1>3. run'[t].at = "installed" /\ run'[t].attempt = run[t].attempt
  BY <1>1, Going
<1>4. run[t].attempt \in Attempts /\ Stage(t) = <<t, run[t].attempt>>
  BY <1>1, StageIsOne DEF Before
<1>5. run[t].at \in Installing \ {"give up"} /\ run[t].at \in Torn
  BY <1>1, OutsidePlaces DEF Torn
<1>6. \A n \in Attempts, u \in Transfers : backup'[u] # <<t, n>>
  BY <1>1, <1>2, <1>5 DEF OnceOK
<1>0. \A u, n : target' = <<u, n>> => u = t /\ n = run[t].attempt
  <2>1. target' = <<t, run[t].attempt>>
    BY <1>1, <1>4
  <2>2. \A u, n, v, m : <<v, m>> = <<u, n>> => u = v /\ n = m
    OBVIOUS
  <2> QED BY <2>1, <2>2
<1>7. \A n \in Attempts : Has(t, n)' => n = run[t].attempt
  BY <1>0, <1>6 DEF Has
<1>8. \A u \in Transfers \ {t} : \A n \in Attempts : Has(u, n)' => Has(u, n)
  BY <1>0, <1>1 DEF Has
<1>9. Replaces(t) => backup[t] # None
  BY <1>2, <1>5 DEF OnceOK
<1>10. "installed" \notin Fresh /\ "installed" \in MovedIn /\ run[t].attempt <= run[t].attempt
  BY <1>4, BoundsAssumption DEF Fresh, MovedIn, Attempts
<1>11. OnceOK(t)'
  BY <1>1, <1>3, <1>6, <1>7, <1>9, <1>10 DEF OnceOK, Replaces
<1>12. journal[t].installedId # None
  BY <1>1, <1>2 DEF OnceOK
<1>13. NotYetIn(t, journal[t])'
  BY <1>1, <1>12 DEF NotYetIn
<1> QED BY <1>1, <1>8, <1>11, <1>13, OnceStep

LEMMA UndoInstallOnce ==
    ASSUME TypeOK, RunsOK, FoldersOK, PlaceInv, BooksOK, OnceInv, NEW t \in Transfers, UndoInstall(t)
    PROVE  OnceInv'
<1>1. /\ Attempt(t) /\ run[t].at = "undo install" /\ journal' = journal
      /\ ask' = ask /\ backup' = backup
  BY DEF UndoInstall, Attempt
<1>2. OnceOK(t) /\ NotYetIn(t, journal[t])
  BY DEF OnceInv
<1>3. target' = None \/ target' = target
  BY DEF UndoInstall
<1>4. \A n \in Attempts, u \in Transfers : <<u, n>> # None
  BY IdentitiesAssumption DEF Attempts, Unpacked
<1>5. \A u \in Transfers : \A n \in Attempts : Has(u, n)' => Has(u, n)
  BY <1>1, <1>3, <1>4 DEF Has
<1>6. run[t].at \in Installing \ {"give up"} /\ run[t].at \in Torn
  BY <1>1, OutsidePlaces DEF Torn, MovedIn
<1>7. PICK place \in {"undo backup", "settle", "give up"} :
          Goes(t, place) /\ (place = "undo backup" => target' = None)
  BY DEF UndoInstall
<1>8. run'[t].at = place /\ run'[t].attempt = run[t].attempt
  BY <1>7, Going
<1>9. place \notin Fresh /\ place # "move in" /\ (place \in Installing \ {"give up"} => place = "undo backup")
  BY <1>7, OutsidePlaces DEF Fresh, Outside
<1>10. OnceOK(t)'
  BY <1>1, <1>2, <1>4, <1>5, <1>6, <1>7, <1>8, <1>9 DEF OnceOK, Replaces
<1>11. NotYetIn(t, journal[t])'
  BY <1>1, <1>2, <1>5 DEF NotYetIn, Replaces
<1> QED BY <1>1, <1>5, <1>10, <1>11, OnceStep

LEMMA UndoBackupOnce ==
    ASSUME TypeOK, RunsOK, FoldersOK, PlaceInv, BooksOK, OnceInv, NEW t \in Transfers, UndoBackup(t)
    PROVE  OnceInv'
<1>1. /\ Attempt(t) /\ run[t].at = "undo backup" /\ journal' = journal /\ ask' = ask
  BY DEF UndoBackup, Attempt
<1>2. OnceOK(t) /\ NotYetIn(t, journal[t]) /\ target = None
  BY <1>1 DEF OnceInv, FoldersOK, FolderOK
<1>3. \/ target' = target /\ backup' = backup /\ Goes(t, "give up")
      \/ target' = backup[t] /\ backup' = [backup EXCEPT ![t] = None] /\ Goes(t, "settle")
  BY DEF UndoBackup
<1>4. \A n \in Attempts, u \in Transfers : <<u, n>> # None
  BY IdentitiesAssumption DEF Attempts, Unpacked
<1>5. \A u \in Transfers \ {t} : backup'[u] = backup[u]
  BY <1>3 DEF TypeOK
<1>6. \A u \in Transfers : \A n \in Attempts : Has(u, n)' => Has(u, n)
  BY <1>3, <1>4 DEF Has, TypeOK
<1>7. run[t].at \in Installing \ {"give up"} /\ run[t].at \in Torn /\ run[t].at \notin MovedIn
  BY <1>1, OutsidePlaces DEF Torn, MovedIn
<1>8. \A n \in Attempts : ~Has(t, n)
  BY <1>2, <1>4, <1>7 DEF OnceOK, Has
<1>9. PICK place \in {"settle", "give up"} : Goes(t, place) /\ (place = "give up" => backup' = backup)
  BY <1>3
<1>10. run'[t].at = place /\ run'[t].attempt = run[t].attempt
  BY <1>9, Going
<1>11. place \notin Fresh /\ place # "move in" /\ place \notin Installing \ {"give up"}
       /\ (place \in Torn => place = "give up")
  BY <1>9, OutsidePlaces DEF Fresh, Outside, Torn, MovedIn
<1>12. OnceOK(t)'
  BY <1>1, <1>2, <1>6, <1>7, <1>8, <1>9, <1>10, <1>11 DEF OnceOK, Replaces
<1>13. NotYetIn(t, journal[t])'
  BY <1>6, <1>8 DEF NotYetIn
<1> QED BY <1>1, <1>5, <1>6, <1>12, <1>13, OnceStep

(* The reconciliation moves only what it can prove.                        *)
LEMMA IdleOnce ==
    ASSUME TypeOK, NEW u \in Transfers, OnceOK(u), run'[u].at = "idle", run'[u].attempt = run[u].attempt,
           ask' = ask,
           \A n \in Attempts : Has(u, n)' => Has(u, n),
           \A n \in Attempts : Replaces(u) /\ Has(u, n)' => backup'[u] # None
    PROVE  OnceOK(u)'
<1>1. "idle" \notin Installing /\ "idle" \notin Torn /\ "idle" \notin Fresh
  BY OutsidePlaces DEF Outside, Torn, MovedIn, Fresh
<1> QED BY <1>1 DEF OnceOK, Replaces

LEMMA ReconcileOnce ==
    ASSUME TypeOK, RunsOK, FoldersOK, PlaceInv, BooksOK, OnceInv, NEW t \in Transfers, Reconcile(t)
    PROVE  OnceInv'
<1>1. /\ UNCHANGED <<ask, journal, run>> /\ manager # "up" /\ t \in todo
      /\ \E s \in Statuses \ {"active"} : mem' = [mem EXCEPT ![t].status = s]
  BY DEF Reconcile, ReconcileUntouched, ReconcileCommitted, RestoreBackup, Quarantine,
         RequireRecovery, Reconciles, Statuses
<1>2. \A u \in Transfers : run'[u].at = "idle" /\ OnceOK(u) /\ NotYetIn(u, journal[u]) /\ NotYetIn(u, mem[u])
  BY <1>1 DEF RunsOK, OnceInv
<1>3. /\ mem'[t].status # "active" /\ \A u \in Transfers \ {t} : mem'[u] = mem[u]
      /\ mem[t].status = "active"
  BY <1>1 DEF TypeOK, Entries, BooksOK
<1>4. \A n \in Attempts, u \in Transfers : <<u, n>> # None
  BY IdentitiesAssumption DEF Attempts, Unpacked
<1>5. /\ \A u \in Transfers \ {t} : backup'[u] = backup[u]
      /\ \A u \in Transfers : \A n \in Attempts : Has(u, n)' => Has(u, n)
  BY <1>4 DEF Has, TypeOK, Reconcile, ReconcileUntouched, ReconcileCommitted, RestoreBackup, Quarantine,
         RequireRecovery, folders
<1>6. \A n \in Attempts : Replaces(t) /\ Has(t, n)' => backup'[t] # None
  <2>1. CASE backup' = backup
    BY <1>2, <1>5, <2>1 DEF OnceOK
  <2>2. CASE RestoreBackup(t)
    <3>1. BackupOnly(t)
      BY <2>2 DEF RestoreBackup
    <3>2. backup[t] # None /\ target = None /\ mem[t].phase \in {"backing_up", "backup_created", "installing"}
          /\ ~Looks(t)
      BY <3>1 DEF BackupOnly, BackupIsProven, CannotLook
    <3>3. listed
      BY <3>2 DEF PlaceInv
    <3>4. mem[t].installedId = None
      BY <3>2, <3>3 DEF Looks, NeverMoved
    <3> QED BY <1>2, <1>3, <1>5, <3>2, <3>4 DEF NotYetIn
  <2>3. CASE Quarantine(t)
    <3>1. ~listed
      BY <2>3 DEF Quarantine, InstalledOnly, Committed, Looks, NeverMoved
    <3>2. \A u \in Transfers : backup[u] = None
      BY <3>1 DEF PlaceInv
    <3>3. target' = None /\ \A u \in Transfers : backup'[u] = None
      BY <2>3, <3>2 DEF Quarantine, TypeOK
    <3> QED BY <1>4, <3>3 DEF Has
  <2> QED BY <2>1, <2>2, <2>3 DEF Reconcile, ReconcileUntouched, ReconcileCommitted, RequireRecovery, folders
<1>7. \A u \in Transfers : OnceOK(u)'
  <2>1. \A u \in Transfers \ {t} : \A n \in Attempts : Replaces(u) /\ Has(u, n)' => backup'[u] # None
    BY <1>2, <1>5 DEF OnceOK
  <2> QED BY <1>1, <1>2, <1>5, <1>6, <2>1, IdleOnce
<1>8. \A u \in Transfers : NotYetIn(u, journal[u])' /\ NotYetIn(u, mem[u])'
  BY <1>1, <1>2, <1>3, <1>5 DEF NotYetIn, Replaces
<1> QED BY <1>7, <1>8 DEF OnceInv

LEMMA ManagerOnce ==
    ASSUME TypeOK, RunsOK, OnceInv, UserSwitches \/ Crash \/ Boot \/ WriteReceipts \/ WritePulls
    PROVE  OnceInv'
<1>1. UNCHANGED <<ask, target, backup>>
  BY DEF UserSwitches, Crash, Boot, WriteReceipts, WritePulls, folders
<1>2. \A u \in Transfers : \A n : Has(u, n)' <=> Has(u, n)
  BY <1>1, HasStays
<1>3. \A u \in Transfers : OnceOK(u)'
  <2>1. CASE UserSwitches
    BY <1>1, <1>2, <2>1 DEF UserSwitches, OnceInv, OnceOK, Replaces
  <2>2. CASE ~UserSwitches
    <3>1. \A u \in Transfers : run'[u].at = "idle" /\ run'[u].attempt = run[u].attempt
      <4>1. CASE Crash
        <5>1. \A u \in Transfers : run'[u] = [run[u] EXCEPT !.at = "idle"] /\ run[u] \in Runs
          BY <4>1 DEF Crash, RunsOK
        <5> QED BY <5>1 DEF Runs
      <4>2. CASE ~Crash
        BY <2>2, <4>2 DEF Boot, WriteReceipts, WritePulls, RunsOK
      <4> QED BY <4>1, <4>2
    <3>2. \A u \in Transfers : OnceOK(u)
      BY DEF OnceInv
    <3>3. \A u \in Transfers : \A n \in Attempts : Replaces(u) /\ Has(u, n)' => backup'[u] # None
      BY <1>1, <1>2, <3>2 DEF OnceOK
    <3> QED BY <1>1, <1>2, <3>1, <3>2, <3>3, IdleOnce
  <2> QED BY <2>1, <2>2
<1>4. ASSUME NEW u \in Transfers
      PROVE  NotYetIn(u, journal[u])' /\ NotYetIn(u, mem[u])'
  <2>1. \A e : NotYetIn(u, e) => NotYetIn(u, e)'
    BY <1>1, <1>2 DEF NotYetIn, Replaces
  <2>2. NotYetIn(u, journal[u]) /\ NotYetIn(u, mem[u]) /\ NotYetIn(u, NoEntry)
    BY DEF OnceInv, NotYetIn, NoEntry
  <2>3. journal'[u] = journal[u] \/ journal'[u] = mem[u]
    BY DEF UserSwitches, Crash, Boot, WriteReceipts, WritePulls
  <2>4. mem'[u] = mem[u] \/ mem'[u] = journal[u] \/ mem'[u] = NoEntry
    BY DEF UserSwitches, Crash, Boot, WriteReceipts, WritePulls, recovery
  <2> QED BY <2>1, <2>2, <2>3, <2>4 DEF NotYetIn, Replaces, Has
<1> QED BY <1>3, <1>4 DEF OnceInv

LEMMA SenderOnce ==
    ASSUME OnceInv, NEW t \in Transfers, Sender(t)
    PROVE  OnceInv'
<1>1. UNCHANGED <<ask, target, backup, journal, run, mem>>
  BY SenderLeaves DEF folders, recovery
<1>2. \A u \in Transfers : \A n : Has(u, n)' <=> Has(u, n)
  BY <1>1, HasStays
<1>3. ASSUME NEW u \in Transfers
      PROVE  OnceOK(u)' /\ NotYetIn(u, journal[u])' /\ NotYetIn(u, mem[u])'
  <2>1. OnceOK(u) /\ NotYetIn(u, journal[u]) /\ NotYetIn(u, mem[u])
    BY DEF OnceInv
  <2>2. OnceOK(u)'
    BY <1>1, <1>2, <2>1 DEF OnceOK, Replaces
  <2>3. NotYetIn(u, journal[u])' /\ NotYetIn(u, mem[u])'
    BY <1>1, <1>2, <2>1 DEF NotYetIn, Replaces
  <2> QED BY <2>2, <2>3
<1> QED BY <1>3 DEF OnceInv

LEMMA NextOnce ==
    ASSUME TypeOK, RunsOK, FoldersOK, PlaceInv, BooksOK, OnceInv, Next
    PROVE  OnceInv'
<1>1. ASSUME NEW t \in Transfers, Attempt(t) PROVE OnceInv'
  BY <1>1, EnterOnce, NoteOnce, FailsOnce, LateOnce, MoveOutOnce, MoveInOnce, UndoInstallOnce, UndoBackupOnce
     DEF Attempt
<1> QED BY <1>1, RequestOnce, ReconcileOnce, ManagerOnce, SenderOnce DEF Next

LEMMA InstalledOnce ==
    ASSUME TypeOK, OnceInv, NEW t \in Transfers
    PROVE  Cardinality(Installs(t)) <= 1
<1>1. \A n \in Installs(t) : n \in Attempts /\ Has(t, n)
  BY DEF Installs, Attempts, Has, Backups
<1>2. \A m, n \in Installs(t) : m = n
  BY <1>1 DEF OnceInv, OnceOK
<1>3. CASE Installs(t) = {}
  BY <1>3, FS_EmptySet
<1>4. CASE Installs(t) # {}
  <2>1. PICK n : n \in Installs(t)
    BY <1>4
  <2>2. Installs(t) = {n}
    BY <1>2, <2>1
  <2>3. Cardinality({n}) = 1
    BY FS_Singleton
  <2> QED BY <2>2, <2>3
<1> QED BY <1>3, <1>4

-----------------------------------------------------------------------------
(* The manifest and the folder agree, unless an attempt is in between, or  *)
(* the journal says what the reconciliation needs to know, or that         *)
(* somebody has to look.  The word to the journal that an undoing failed   *)
(* is itself written unless three operations fail.                         *)
InstallNoted == {"installing", "installed", "committing_manifest"}
MoveNoted == {"backing_up", "backup_created"} \cup InstallNoted
TornPlaces(t) == IF Replaces(t) THEN Torn ELSE MovedIn \cup {"give up"}

NotedOK(t) ==
    /\ run[t].at \in Undone => journal[t].status = "active"
    /\ run[t].at \in Torn \cup {"move out"} /\ Replaces(t) =>
           journal[t].phase \in MoveNoted /\ journal[t].backupId # None
    /\ run[t].at \in {"move in"} \cup MovedIn => journal[t].phase \in InstallNoted
    /\ run[t].at = "give up" /\ ~Replaces(t) => journal[t].phase \in InstallNoted
    /\ run[t].at = "undo backup" => Replaces(t)
    /\ run[t].at \in {"undo install", "undo backup"} => troubles >= 1
    /\ run[t].at = "give up" => troubles >= 2
NotedInv == \A t \in Transfers : NotedOK(t)

InOrder == listed <=> target # None
Says(e) ==
    \/ e.status = "recovery_required"
    \/ /\ e.status = "active" /\ e.phase \in MoveNoted
       /\ listed => e.backupId # None
       /\ ~listed => e.phase # "backing_up"
Excuse(t) ==
    \/ journal[t].status = "recovery_required"
    \/ Says(journal[t]) /\ run[t].at \in TornPlaces(t)
OrderInv ==
    troubles <= 2 /\ ~InOrder =>
        /\ manager = "up" => \E t \in Transfers : Excuse(t)
        /\ \E t \in Transfers : Says(journal[t])
        /\ manager \in {"receipts", "pulls"} => \E t \in Transfers : Says(mem[t])

(* Where an attempt is in between, its entry is enough.                    *)
LEMMA WaitingNoted ==
    ASSUME NotedInv, NEW u \in Transfers, run'[u].at = run[u].at, run[u].at \in Quiet
    PROVE  NotedOK(u)'
<1>1. run'[u].at \notin Installing /\ run'[u].at \notin Torn
  BY DEF Quiet, Awaits, Installing, Before, Notes, Undone, Torn, MovedIn
<1> QED BY <1>1, OutsidePlaces DEF NotedOK, Undone, MovedIn, Torn

LEMMA OutsideNoted ==
    ASSUME NEW t \in Transfers, run'[t].at \in Outside \cup {"start applied"}
    PROVE  NotedOK(t)'
<1>1. run'[t].at \notin Installing
  BY OutsidePlaces DEF Outside
<1>2. run'[t].at \notin Torn
  BY <1>1, OutsidePlaces DEF Torn, MovedIn
<1> QED BY <1>1, <1>2, OutsidePlaces DEF NotedOK, Undone, MovedIn, Torn

LEMMA NotedStep ==
    ASSUME RunsOK, NotedInv, NEW t \in Transfers, Request(t) \/ Attempt(t), NotedOK(t)'
    PROVE  NotedInv'
BY OthersWait, WaitingNoted DEF NotedInv

LEMMA RequestNoted ==
    ASSUME TypeOK, RunsOK, NotedInv, NEW t \in Transfers, Request(t)
    PROVE  NotedInv'
<1>1. manager = "up" /\ manager' = manager /\ Serving
  BY AttemptUp DEF recovery, Request, ReceiveKnown, ReceiveNew, BeginPull, RetryStart
<1>2. CASE run' = run
  <2>1. run[t].at \in Quiet
    BY <1>1 DEF Serving, Busy, Quiet
  <2> QED BY <1>2, <2>1, WaitingNoted, NotedStep
<1>3. ASSUME NEW place \in {"download", "unpack"}, NEW entry, Claims(t, place, entry)
      PROVE  NotedInv'
  BY <1>1, <1>3, ClaimGoesOn, OutsideNoted, OutsidePlaces, NotedStep
<1>4. CASE Goes(t, "start applied")
  BY <1>4, Going, OutsideNoted, NotedStep
<1> QED BY <1>2, <1>3, <1>4 DEF Request, ReceiveKnown, ReceiveNew, BeginPull, RetryStart

LEMMA OutsideNotedStep ==
    ASSUME TypeOK, RunsOK, NotedInv, NEW t \in Transfers, Attempt(t), NEW place \in Outside, Goes(t, place)
    PROVE  NotedInv'
BY Going, OutsideNoted, NotedStep

LEMMA NoteNoted ==
    ASSUME TypeOK, RunsOK, FoldersOK, PlaceInv, NotedInv, NEW t \in Transfers, Note(t)
    PROVE  NotedInv'
<1>1. UNCHANGED <<ask, target, listed, troubles>> /\ Attempt(t) /\ run[t].at \in Notes
  BY DEF Note, folders, Attempt
<1>2. NotedOK(t) /\ PlaceOK(t) /\ FolderOK(t)
  BY DEF NotedInv, PlaceInv, FoldersOK
<1> DEFINE place == Following(t)
<1>3. /\ Goes(t, place)
      /\ run[t].at = "backing_up" => place = "move out"
      /\ run[t].at = "backup_created" => place = "installing"
      /\ run[t].at = "installing" => place = "move in"
      /\ run[t].at = "installed" => place = "committing_manifest"
      /\ run[t].at = "committing_manifest" => place = "save manifest"
      /\ run[t].at \in {"manifest_committed", "starting"} => place \in {"starting", "receipt", "start"}
  BY DEF Note, Following
<1> HIDE DEF place
<1>4. run'[t].at = place
  BY <1>3, Going
<1>5. journal[t].status = "active" /\ journal[t] \in Entries
  BY <1>1 DEF TypeOK, AtWork, Before, After, Notes
<1>6. journal'[t] = Noted(t, run[t].at)
  BY <1>5 DEF Note, Update, TypeOK
<1>7. /\ journal'[t].phase = run[t].at
      /\ run[t].at # "backing_up" => journal'[t].backupId = journal[t].backupId
      /\ run[t].at = "backing_up" => journal'[t].backupId = target
  BY <1>5, <1>6 DEF Noted, Entries
<1>8. CASE run[t].at \in {"manifest_committed", "starting"}
  BY <1>1, <1>3, <1>8, OutsideNotedStep, OutsidePlaces
<1>9. CASE run[t].at \in {"backing_up", "backup_created", "installing", "installed", "committing_manifest"}
  <2>1. NotedOK(t)'
    BY <1>1, <1>2, <1>3, <1>4, <1>7, <1>9 DEF NotedOK, PlaceOK, Replaces, Torn, MovedIn, Undone, MoveNoted, InstallNoted
  <2> QED BY <1>1, <2>1, NotedStep
<1> QED BY <1>1, <1>8, <1>9 DEF Notes

LEMMA FailsNoted ==
    ASSUME TypeOK, RunsOK, FoldersOK, PlaceInv, OnceInv, NotedInv, NEW t \in Transfers,
           Fails(t) \/ MoveIn(t)
    PROVE  NotedInv'
<1>0. troubles \in Nat
  BY BoundsAssumption DEF TypeOK
<1>1. UNCHANGED <<ask, listed, journal>> /\ Attempt(t) /\ run[t].at \in Before
  BY DEF Fails, MoveIn, folders, Attempt, Before
<1>2. NotedOK(t) /\ OnceOK(t) /\ FolderOK(t)
  BY DEF NotedInv, OnceInv, FoldersOK
<1>3. journal[t].status = "active"
  BY <1>1 DEF TypeOK, AtWork
<1>4. CASE Goes(t, "settle")
  BY <1>1, <1>4, OutsideNotedStep, OutsidePlaces
<1>5. CASE Goes(t, "installed") /\ run[t].at = "move in"
  <2>1. run'[t].at = "installed"
    BY <1>5, Going
  <2>2. NotedOK(t)'
    BY <1>1, <1>2, <1>5, <2>1 DEF NotedOK, Replaces, Torn, MovedIn, Undone
  <2> QED BY <1>1, <2>2, NotedStep
<1>6. CASE Goes(t, FirstUndone(t)) /\ FirstUndone(t) # "settle"
  <2>1. /\ target = Stage(t) => FirstUndone(t) = "undo install"
        /\ target # Stage(t) => FirstUndone(t) = "undo backup" /\ backup[t] # None
    BY <1>6 DEF FirstUndone
  <2>2. run'[t].at = FirstUndone(t)
    BY <1>6, Going
  <2>3. target = Stage(t) => run[t].at \notin Fresh
    BY <1>1, <1>2, StageIsOne DEF OnceOK, Has
  <2>4. Fails(t)
    <3>1. CASE MoveIn(t)
      <4>1. (run[t].at = "move in" /\ target # None) \/ Goes(t, "installed")
        BY <3>1 DEF MoveIn
      <4>2. ~Goes(t, "installed")
        <5>1. Goes(t, "installed") => run'[t].at = "installed"
          BY Going
        <5> QED BY <2>1, <2>2, <5>1
      <4>3. target = Stage(t)
        BY <1>2, <2>1, <4>1, <4>2 DEF FolderOK
      <4> QED BY <2>3, <4>1, <4>2, <4>3 DEF Fresh
    <3> QED BY <3>1
  <2>5. troubles' = troubles + 1 /\ troubles' >= 1
    BY <1>0, <2>4 DEF Fails, CanFail
  <2>6. target # Stage(t) => Replaces(t)
    BY <1>2, <2>1 DEF FolderOK
  <2>7. CASE target = Stage(t)
    <3>1. run[t].at \in MovedIn /\ run[t].at \in Torn
      BY <1>1, <2>3, <2>7 DEF Before, Notes, Fresh, MovedIn, Torn
    <3>2. NotedOK(t)'
      BY <1>1, <1>2, <1>3, <2>1, <2>2, <2>5, <2>7, <3>1 DEF NotedOK, Replaces, Torn, MovedIn
    <3> QED BY <1>1, <3>2, NotedStep
  <2>8. CASE target # Stage(t)
    <3>1. run[t].at \in Torn \cup {"move out"}
      BY <1>1, <1>2, <2>1, <2>8 DEF FolderOK, Before, Notes, Torn, MovedIn
    <3>2. NotedOK(t)'
      BY <1>1, <1>2, <1>3, <2>1, <2>2, <2>5, <2>6, <2>8, <3>1 DEF NotedOK, Replaces, Torn, MovedIn
    <3> QED BY <1>1, <3>2, NotedStep
  <2> QED BY <2>7, <2>8
<1> QED BY <1>4, <1>5, <1>6 DEF Fails, MoveIn

LEMMA UndoNoted ==
    ASSUME TypeOK, RunsOK, FoldersOK, PlaceInv, NotedInv, NEW t \in Transfers,
           UndoInstall(t) \/ UndoBackup(t)
    PROVE  NotedInv'
<1>0. troubles \in Nat
  BY BoundsAssumption DEF TypeOK
<1>1. UNCHANGED <<ask, journal>> /\ Attempt(t) /\ run[t].at \in {"undo install", "undo backup"}
  BY DEF UndoInstall, UndoBackup, Attempt
<1>2. NotedOK(t) /\ FolderOK(t)
  BY DEF NotedInv, FoldersOK
<1>3. CASE Goes(t, "settle")
  BY <1>1, <1>3, OutsideNotedStep, OutsidePlaces
<1>4. CASE Goes(t, "undo backup") /\ backup[t] # None /\ troubles' = troubles
  <2>1. run'[t].at = "undo backup"
    BY <1>4, Going
  <2>2. NotedOK(t)'
    BY <1>1, <1>2, <1>4, <2>1 DEF NotedOK, FolderOK, Replaces, Torn, MovedIn, Undone
  <2> QED BY <1>1, <2>2, NotedStep
<1>5. CASE Goes(t, "give up") /\ CanFail
  <2>1. run'[t].at = "give up"
    BY <1>5, Going
  <2>2. troubles' >= 2
    <3>1. troubles >= 1
      BY <1>1, <1>2 DEF NotedOK
    <3>2. troubles' = troubles + 1
      BY <1>5 DEF CanFail
    <3> QED BY <1>0, <3>1, <3>2
  <2>3. NotedOK(t)'
    BY <1>1, <1>2, <2>1, <2>2 DEF NotedOK, Replaces, Torn, MovedIn, Undone, InstallNoted, MoveNoted
  <2> QED BY <1>1, <2>3, NotedStep
<1> QED BY <1>3, <1>4, <1>5 DEF UndoInstall, UndoBackup

LEMMA AttemptNoted ==
    ASSUME TypeOK, RunsOK, FoldersOK, PlaceInv, OnceInv, NotedInv, NEW t \in Transfers, Attempt(t)
    PROVE  NotedInv'
<1>1. CASE Enter(t)
  <2>1. CASE Goes(t, "settle")
    BY <2>1, OutsideNotedStep, OutsidePlaces
  <2>2. ASSUME NEW place, Goes(t, place), place = "backing_up" \/ (place = "installing" /\ ~Replaces(t))
        PROVE  NotedOK(t)'
    <3>1. run'[t].at = place /\ ask' = ask
      BY <1>1, <2>2, Going DEF Enter
    <3> QED BY <2>2, <3>1 DEF NotedOK, Undone, MovedIn, Torn, Replaces
  <2> QED BY <1>1, <2>1, <2>2, NotedStep DEF Enter
<1>2. CASE MoveOut(t)
  <2>1. run[t].at = "move out" /\ run'[t].at = "backup_created" /\ UNCHANGED <<ask, journal>>
    BY <1>2, Going DEF MoveOut
  <2>2. NotedOK(t)'
    BY <2>1 DEF NotedInv, NotedOK, Undone, MovedIn, Torn, Replaces
  <2> QED BY <2>2, NotedStep
<1>3. ASSUME \/ Downloaded(t) \/ Stops(t) \/ FailsLate(t) \/ GiveUp(t) \/ Settle(t) \/ SettleCommitted(t)
             \/ WriteReceipt(t) \/ SaveManifest(t) \/ Start(t) \/ StartApplied(t)
      PROVE  NotedInv'
  <2>1. \E place \in {"unpack", "settle", "settle committed", "receipt", "idle", "manifest_committed"} :
           Goes(t, place)
    BY <1>3 DEF Downloaded, Stops, FailsLate, GiveUp, Settle, SettleCommitted, WriteReceipt, SaveManifest,
         Start, StartApplied
  <2> QED BY <2>1, OutsideNotedStep, OutsidePlaces
<1> QED BY <1>1, <1>2, <1>3, NoteNoted, FailsNoted, UndoNoted DEF Attempt

LEMMA NextNoted ==
    ASSUME TypeOK, RunsOK, FoldersOK, PlaceInv, OnceInv, NotedInv, Next
    PROVE  NotedInv'
<1>1. CASE (\A u \in Transfers : run'[u].at = "idle")
  BY <1>1, OutsideNoted, OutsidePlaces DEF NotedInv
<1>2. ASSUME NEW t \in Transfers, Reconcile(t)
      PROVE  \A u \in Transfers : run'[u].at = "idle"
  BY <1>2 DEF Reconcile, ReconcileUntouched, ReconcileCommitted, RestoreBackup, Quarantine,
         RequireRecovery, Reconciles, RunsOK
<1>3. ASSUME Crash \/ Boot \/ WriteReceipts \/ WritePulls
      PROVE  \A u \in Transfers : run'[u].at = "idle"
  BY <1>3 DEF Crash, Boot, WriteReceipts, WritePulls, RunsOK, Runs
<1>4. CASE UserSwitches
  BY <1>4, WaitingNoted DEF UserSwitches, Serving, Busy, Quiet, NotedInv
<1>5. ASSUME NEW t \in Transfers, Sender(t)
      PROVE  NotedInv'
  <2>1. UNCHANGED <<ask, journal, run>> /\ (troubles' = troubles \/ troubles' = troubles + 1) /\ troubles \in Nat
    BY <1>5, SenderLeaves, BoundsAssumption DEF CanFail, TypeOK
  <2>2. \A u \in Transfers : NotedOK(u)
    BY DEF NotedInv
  <2>3. (troubles >= 1 => troubles' >= 1) /\ (troubles >= 2 => troubles' >= 2)
    BY <2>1
  <2>4. \A u \in Transfers : NotedOK(u)'
    BY <2>1, <2>2, <2>3 DEF NotedOK, Replaces
  <2> QED BY <2>4 DEF NotedInv
<1> QED BY <1>1, <1>2, <1>3, <1>4, <1>5, RequestNoted, AttemptNoted DEF Next

(* Who is in between when nothing is in order, and what it says.           *)
LEMMA WhoIsTorn ==
    TypeOK /\ PlaceInv /\ NotedInv =>
        \A u \in Transfers : run[u].at \in TornPlaces(u) => Says(journal[u])
<1> SUFFICES ASSUME TypeOK, PlaceInv, NotedInv, NEW t \in Transfers, run[t].at \in TornPlaces(t)
             PROVE  Says(journal[t])
  OBVIOUS
<1>1. run[t].at \in Installing /\ PlaceOK(t) /\ NotedOK(t)
  BY OutsidePlaces DEF TornPlaces, Torn, MovedIn, PlaceInv, NotedInv
<1>2. journal[t].status = "active"
  BY <1>1 DEF Installing, NotedOK, TypeOK, AtWork
<1>3. CASE Replaces(t)
  BY <1>1, <1>2, <1>3 DEF TornPlaces, NotedOK, PlaceOK, Says
<1>4. CASE ~Replaces(t)
  <2>1. journal[t].phase \in InstallNoted
    BY <1>1, <1>4 DEF TornPlaces, NotedOK
  <2> QED BY <1>1, <1>2, <1>4, <2>1 DEF PlaceOK, Says, InstallNoted, MoveNoted
<1> QED BY <1>3, <1>4

(* An entry that somebody has to look at stays one.                        *)
LEMMA WordStays ==
    ASSUME TypeOK, PlaceInv, NEW t \in Transfers, Request(t) \/ Attempt(t), NEW u \in Transfers,
           journal[u].status = "recovery_required"
    PROVE  journal'[u].status = "recovery_required"
<1>1. CASE u # t
  BY <1>1, OwnEntry
<1>2. CASE u = t
  <2>1. journal' = journal => journal'[t].status = "recovery_required"
    BY <1>2
  <2>2. \A e : Update(t, e) => journal' = journal
    BY <1>2 DEF Update
  <2>3. run[t].at \notin AtWork /\ run[t].at # "start applied"
    BY <1>2 DEF TypeOK, PlaceInv, PlaceOK
  <2>4. {"download", "unpack", "start", "receipt", "manifest_committed", "starting", "settle committed"}
          \subseteq AtWork
    BY DEF AtWork, Awaits, After
  <2>5. journal' = journal
    BY <1>2, <2>2, <2>3, <2>4 DEF Request, ReceiveKnown, ReceiveNew, BeginPull, RetryStart, Attempt, Downloaded, Stops, Enter,
         Note, MoveOut, MoveIn, SaveManifest, Fails, FailsLate, UndoInstall, UndoBackup, GiveUp, Settle,
         SettleCommitted, Start, WriteReceipt, StartApplied
  <2> QED BY <2>1, <2>5
<1> QED BY <1>1, <1>2

(* What the steps of an attempt have to show: it is itself in between      *)
(* after them, or all is in order, or somebody has to look.                *)
LEMMA OrderStep ==
    ASSUME TypeOK, RunsOK, PlaceInv, OrderInv, TypeOK', PlaceInv', NotedInv',
           NEW t \in Transfers, Request(t) \/ Attempt(t), troubles' <= 2 => troubles <= 2,
           troubles' <= 2 =>
              \/ InOrder' \/ run'[t].at \in TornPlaces(t)'
              \/ journal'[t].status = "recovery_required"
              \/ ~InOrder /\ run[t].at \notin TornPlaces(t)
    PROVE  OrderInv'
<1>1. manager = "up" /\ manager' = "up"
  BY AttemptUp DEF recovery
<1> SUFFICES ASSUME troubles' <= 2, ~InOrder'
             PROVE  \E u \in Transfers : Excuse(u)'
  <2>1. \A u : Excuse(u)' => Says(journal[u])'
    BY DEF Excuse, Says
  <2> QED BY <1>1, <2>1 DEF OrderInv
<1>2. CASE run'[t].at \in TornPlaces(t)'
  <2>1. (TypeOK /\ PlaceInv /\ NotedInv =>
           \A u \in Transfers : run[u].at \in TornPlaces(u) => Says(journal[u]))'
    BY WhoIsTorn, PTL
  <2>2. Says(journal[t])'
    BY <1>2, <2>1
  <2> QED BY <1>2, <2>2 DEF Excuse
<1>3. CASE journal'[t].status = "recovery_required"
  BY <1>3 DEF Excuse
<1>4. CASE ~InOrder /\ run[t].at \notin TornPlaces(t)
  <2>1. PICK u \in Transfers : Excuse(u)
    BY <1>1, <1>4 DEF OrderInv
  <2>2. u # t => run[u].at \in Quiet
    BY OthersWait
  <2>3. run[u].at \in Quiet => run[u].at \notin TornPlaces(u)
    BY DEF Quiet, Awaits, TornPlaces, Torn, MovedIn
  <2>4. journal[u].status = "recovery_required"
    BY <1>4, <2>1, <2>2, <2>3 DEF Excuse
  <2> QED BY <2>4, WordStays DEF Excuse
<1> QED BY <1>2, <1>3, <1>4

LEMMA TroublesGrow ==
    ASSUME TypeOK, CanFail \/ troubles' = troubles
    PROVE  troubles' <= 2 => troubles <= 2
<1>1. troubles \in Nat
  BY BoundsAssumption DEF TypeOK
<1>2. troubles' = troubles + 1 \/ troubles' = troubles
  BY DEF CanFail
<1> QED BY <1>1, <1>2

(* The steps of a request and of an attempt, one by one.                   *)
LEMMA AttemptOrder ==
    ASSUME TypeOK, RunsOK, FoldersOK, PlaceInv, OnceInv, NotedInv, OrderInv,
           TypeOK', PlaceInv', NotedInv', NEW t \in Transfers, Request(t) \/ Attempt(t)
    PROVE  OrderInv'
<1> DEFINE Fine ==
        \/ InOrder' \/ run'[t].at \in TornPlaces(t)'
        \/ journal'[t].status = "recovery_required"
        \/ ~InOrder /\ run[t].at \notin TornPlaces(t)
<1>1. OnceOK(t) /\ FolderOK(t) /\ PlaceOK(t) /\ NotedOK(t)
  BY DEF OnceInv, FoldersOK, PlaceInv, NotedInv
<1>2. TornPlaces(t)' = TornPlaces(t) /\ ask' = ask
  BY AttemptUp DEF TornPlaces, Replaces
<1>3. troubles' <= 2 => troubles <= 2
  <2>1. CanFail \/ troubles' = troubles
    BY DEF Request, ReceiveKnown, ReceiveNew, BeginPull, RetryStart, Attempt, Downloaded, Stops, Enter, Note, MoveOut, MoveIn, SaveManifest, Fails, FailsLate,
         UndoInstall, UndoBackup, GiveUp, Settle, SettleCommitted, Start, WriteReceipt,
         StartApplied
  <2> QED BY <2>1, TroublesGrow
<1>4. ASSUME UNCHANGED <<target, listed>>, run[t].at \notin TornPlaces(t)
      PROVE  Fine
  BY <1>4 DEF InOrder
<1>5. TornPlaces(t) \subseteq Installing
  BY OutsidePlaces DEF TornPlaces, Torn, MovedIn
<1>6. CASE Request(t) \/ Downloaded(t) \/ Stops(t) \/ Enter(t) \/ FailsLate(t) \/ Settle(t)
           \/ SettleCommitted(t) \/ Start(t) \/ WriteReceipt(t) \/ StartApplied(t)
  <2>1. UNCHANGED <<target, listed>>
    BY <1>6 DEF Request, ReceiveKnown, ReceiveNew, BeginPull, RetryStart, Downloaded, Stops, Enter, FailsLate,
         Settle, SettleCommitted, Start, WriteReceipt, StartApplied, folders
  <2>2. run[t].at \in Outside \cup {"start applied"} \/ Serving
    BY <1>6, OutsidePlaces DEF Request, ReceiveKnown, ReceiveNew, BeginPull, RetryStart, Downloaded, Stops, Enter, FailsLate,
         Settle, SettleCommitted, Start, WriteReceipt, StartApplied
  <2>3. run[t].at \notin Installing
    BY <2>2, OutsidePlaces DEF Outside, Serving, Busy, Awaits
  <2>4. Fine
    BY <1>4, <1>5, <2>1, <2>3
  <2> QED BY <1>3, <2>4, OrderStep
<1>7. CASE Note(t)
  <2>1. UNCHANGED <<target, listed>> /\ Goes(t, Following(t)) /\ run[t].at \in Notes
    BY <1>7 DEF Note, folders
  <2>2. run'[t].at = Following(t)
    BY <2>1, Going
  <2>3. run[t].at \in TornPlaces(t) => Following(t) \in TornPlaces(t)
    BY <2>1 DEF Following, Notes, TornPlaces, Torn, MovedIn
  <2>4. Fine
    BY <1>2, <1>4, <2>1, <2>2, <2>3
  <2> QED BY <1>3, <2>4, OrderStep
<1>8. CASE MoveOut(t)
  <2>1. run[t].at = "move out" /\ run'[t].at = "backup_created" /\ Replaces(t)
    BY <1>1, <1>8, Going DEF MoveOut, FolderOK
  <2>2. Fine
    BY <1>2, <2>1 DEF TornPlaces, Torn
  <2> QED BY <1>3, <2>2, OrderStep
<1>9. CASE MoveIn(t) /\ target = None
  <2>1. run'[t].at = "installed"
    BY <1>9, Going DEF MoveIn
  <2>2. Fine
    BY <1>2, <2>1 DEF TornPlaces, Torn, MovedIn
  <2> QED BY <1>3, <2>2, OrderStep
<1>10. CASE Fails(t) \/ (MoveIn(t) /\ target # None)
  <2>1. UNCHANGED <<target, listed>> /\ Goes(t, FirstUndone(t)) /\ run[t].at \in Before
    BY <1>10 DEF Fails, MoveIn, folders, Before
  <2>2. run'[t].at = FirstUndone(t)
    BY <2>1, Going
  <2>3. run[t].at \in TornPlaces(t) => FirstUndone(t) \in TornPlaces(t)
    <3>1. CASE Replaces(t) /\ run[t].at \in Torn
      <4>1. backup[t] # None
        BY <1>1, <3>1 DEF OnceOK
      <4> QED BY <3>1, <4>1 DEF FirstUndone, TornPlaces, Torn, MovedIn
    <3>2. CASE ~Replaces(t) /\ run[t].at \in MovedIn
      <4>1. target = Stage(t)
        BY <1>1, <3>2 DEF FolderOK, MovedIn
      <4> QED BY <3>2, <4>1 DEF FirstUndone, TornPlaces, MovedIn
    <3> QED BY <2>1, <3>1, <3>2 DEF TornPlaces, Before, Notes
  <2>4. Fine
    BY <1>2, <1>4, <2>1, <2>2, <2>3
  <2> QED BY <1>3, <2>4, OrderStep
<1>11. CASE SaveManifest(t)
  <2>1. target' = Stage(t) /\ Stage(t) # None /\ listed' = TRUE
    BY <1>1, <1>11, StageIsOne DEF SaveManifest, FolderOK, folders, Before
  <2>2. Fine
    BY <2>1 DEF InOrder
  <2> QED BY <1>3, <2>2, OrderStep
<1>12. CASE UndoInstall(t)
  <2>1. run[t].at = "undo install" /\ listed' = listed /\ (listed <=> Replaces(t))
    BY <1>1, <1>12, OutsidePlaces DEF UndoInstall, PlaceOK
  <2>2. CASE Goes(t, "give up")
    <3>1. run'[t].at = "give up"
      BY <2>2, Going
    <3>2. Fine
      BY <1>2, <3>1 DEF TornPlaces, Torn
    <3> QED BY <1>3, <3>2, OrderStep
  <2>3. CASE target' = None /\ Replaces(t) /\ (backup[t] # None => Goes(t, "undo backup"))
    <3>1. backup[t] # None
      BY <1>1, <2>1, <2>3 DEF OnceOK, Torn, MovedIn
    <3>2. run'[t].at = "undo backup"
      BY <2>3, <3>1, Going
    <3>3. Fine
      BY <1>2, <2>3, <3>2 DEF TornPlaces, Torn
    <3> QED BY <1>3, <3>3, OrderStep
  <2>4. CASE target' = None /\ ~Replaces(t)
    <3>1. Fine
      BY <2>1, <2>4 DEF InOrder
    <3> QED BY <1>3, <3>1, OrderStep
  <2> QED BY <1>12, <2>2, <2>3, <2>4 DEF UndoInstall
<1>13. CASE UndoBackup(t)
  <2>1. run[t].at = "undo backup" /\ listed' = listed /\ Replaces(t) /\ (listed <=> Replaces(t))
    BY <1>1, <1>13, OutsidePlaces DEF UndoBackup, PlaceOK, NotedOK
  <2>2. CASE Goes(t, "give up")
    <3>1. run'[t].at = "give up"
      BY <2>2, Going
    <3>2. Fine
      BY <1>2, <3>1 DEF TornPlaces, Torn
    <3> QED BY <1>3, <3>2, OrderStep
  <2>3. CASE target' = backup[t]
    <3>1. backup[t] # None
      BY <1>1, <2>1 DEF OnceOK, Torn
    <3>2. Fine
      BY <2>1, <2>3, <3>1 DEF InOrder
    <3> QED BY <1>3, <3>2, OrderStep
  <2> QED BY <1>13, <2>2, <2>3 DEF UndoBackup
<1>14. CASE GiveUp(t)
  <2>0. troubles \in Nat
    BY BoundsAssumption DEF TypeOK
  <2>1. run[t].at = "give up" /\ journal[t].status = "active" /\ troubles >= 2
    BY <1>1, <1>14 DEF GiveUp, NotedOK, Undone
  <2>2. CASE Update(t, [journal[t] EXCEPT !.status = "recovery_required"])
    <3>1. journal'[t].status = "recovery_required"
      <4>1. journal \in [Transfers -> Entries] /\ journal[t] \in Entries
        BY DEF TypeOK
      <4>2. journal' = [journal EXCEPT ![t] = [journal[t] EXCEPT !.status = "recovery_required"]]
        BY <2>1, <2>2 DEF Update
      <4> QED BY <4>1, <4>2 DEF Entries
    <3>2. Fine
      BY <3>1
    <3> QED BY <1>3, <3>2, OrderStep
  <2>3. CASE CanFail
    <3>1. troubles' = troubles + 1
      BY <2>3 DEF CanFail
    <3>2. ~(troubles' <= 2)
      <4>1. \A n \in Nat : n >= 2 => ~(n + 1 <= 2)
        OBVIOUS
      <4> QED BY <2>0, <2>1, <3>1, <4>1
    <3> QED BY <3>2, OrderStep
  <2> QED BY <1>14, <2>2, <2>3 DEF GiveUp
<1> QED BY <1>6, <1>7, <1>8, <1>9, <1>10, <1>11, <1>12, <1>13, <1>14 DEF Attempt

(* The reconciliation takes for settled only what is in order.             *)
LEMMA ReconcileOrder ==
    ASSUME TypeOK, RunsOK, PlaceInv, BooksOK, OrderInv, NEW t \in Transfers, Reconcile(t)
    PROVE  OrderInv'
<1>1. PICK s \in Statuses \ {"active"} : Reconciles(t, s) /\ (RequireRecovery(t) => s = "recovery_required")
  BY DEF Reconcile, ReconcileUntouched, ReconcileCommitted, RestoreBackup, Quarantine,
         RequireRecovery, Statuses
<1>2. /\ UNCHANGED <<ask, journal, run, manager, listed>> /\ manager # "up"
      /\ mem'[t].status = s /\ (\A u \in Transfers \ {t} : mem'[u] = mem[u])
      /\ mem[t].status = "active" /\ manager \in {"receipts", "pulls"}
  BY <1>1 DEF Reconciles, TypeOK, Entries, BooksOK
<1>3. troubles' <= 2 => troubles <= 2
  BY TroublesGrow DEF Reconcile, ReconcileUntouched, ReconcileCommitted, RestoreBackup, Quarantine,
         RequireRecovery
<1>4. CASE RestoreBackup(t)
  <2>1. target' = backup[t] /\ backup[t] # None
    BY <1>4 DEF RestoreBackup, BackupOnly, BackupIsProven
  <2> QED BY <1>2, <2>1 DEF PlaceInv, OrderInv, InOrder
<1>5. CASE Quarantine(t)
  <2>1. ~listed /\ target' = backup[t]
    BY <1>5 DEF Quarantine, InstalledOnly, Committed, Looks, NeverMoved
  <2> QED BY <1>2, <2>1 DEF PlaceInv, OrderInv, InOrder
<1>6. CASE UNCHANGED folders /\ ~RestoreBackup(t) /\ ~Quarantine(t)
  <2> SUFFICES ASSUME troubles' <= 2, ~InOrder'
               PROVE  (\E u \in Transfers : Says(journal[u])') /\ \E u \in Transfers : Says(mem[u])'
    BY <1>2 DEF OrderInv
  <2>1. troubles <= 2 /\ ~InOrder /\ target' = target
    BY <1>2, <1>3, <1>6 DEF InOrder, folders
  <2>2. PICK u \in Transfers : Says(journal[u])
    BY <2>1 DEF OrderInv
  <2>3. PICK v \in Transfers : Says(mem[v])
    BY <1>2, <2>1 DEF OrderInv
  <2>4. CASE v # t
    BY <1>2, <2>2, <2>3, <2>4 DEF Says
  <2>5. CASE v = t
    <3>1. /\ mem[t].phase \in MoveNoted /\ (listed => mem[t].backupId # None)
          /\ ~listed => mem[t].phase # "backing_up"
      BY <1>2, <2>3, <2>5 DEF Says
    <3>2. ~NeverMoved(t)
      BY <3>1 DEF NeverMoved, MoveNoted, InstallNoted
    <3>3. ~Committed(t)
      BY <2>1 DEF Committed, Looks, InOrder
    <3>4. ~NotYetBackedUp(t) /\ ~NotYetInstalled(t)
      BY <2>1, <3>1 DEF NotYetBackedUp, NotYetInstalled, InOrder
    <3>5. RequireRecovery(t)
      BY <1>6, <3>2, <3>3, <3>4 DEF Reconcile, ReconcileUntouched, ReconcileCommitted
    <3> QED BY <1>1, <1>2, <2>2, <3>5 DEF Says
  <2> QED BY <2>4, <2>5
<1>7. UNCHANGED folders \/ RestoreBackup(t) \/ Quarantine(t)
  BY DEF Reconcile, ReconcileUntouched, ReconcileCommitted, RequireRecovery
<1> QED BY <1>4, <1>5, <1>6, <1>7

LEMMA NextOrder ==
    ASSUME TypeOK, RunsOK, FoldersOK, PlaceInv, BooksOK, OnceInv, NotedInv, OrderInv, Next,
           TypeOK', PlaceInv', NotedInv'
    PROVE  OrderInv'
<1>1. troubles \in Nat
  BY BoundsAssumption DEF TypeOK
<1>2. \A t : Excuse(t) => Says(journal[t])
  BY DEF Excuse, Says
<1>3. CASE UserSwitches
  <2>1. UNCHANGED <<ask, target, listed, journal, run, mem, manager, troubles>>
    BY <1>3 DEF UserSwitches, folders, recovery
  <2> QED BY <2>1 DEF OrderInv, InOrder, Excuse, Says, TornPlaces, Replaces
<1>4. ASSUME NEW t \in Transfers, Sender(t)
      PROVE  OrderInv'
  <2>1. UNCHANGED <<ask, target, listed, journal, run, mem, manager>> /\ (CanFail \/ troubles' = troubles)
    BY <1>4, SenderLeaves DEF folders, recovery
  <2>2. troubles' <= 2 => troubles <= 2
    BY <2>1, TroublesGrow
  <2> QED BY <2>1, <2>2 DEF OrderInv, InOrder, Excuse, Says, TornPlaces, Replaces
<1>5. CASE Crash
  <2>1. UNCHANGED <<target, listed, journal>> /\ manager' = "down" /\ CanFail
    BY <1>5 DEF Crash, folders
  <2>2. troubles' <= 2 => troubles <= 2
    BY <2>1, TroublesGrow
  <2> QED BY <2>1, <2>2 DEF OrderInv, InOrder, Says
<1>6. CASE Boot
  <2>1. UNCHANGED <<target, listed, journal, troubles>> /\ manager' = "receipts" /\ mem' = journal
    BY <1>6 DEF Boot, folders
  <2> QED BY <2>1 DEF OrderInv, InOrder, Says
<1>7. CASE WriteReceipts
  <2>1. /\ UNCHANGED <<target, listed, mem, troubles>> /\ manager = "receipts" /\ manager' = "pulls"
        /\ \A t \in Transfers : journal'[t] = mem[t]
    BY <1>7 DEF WriteReceipts, folders, BooksOK, Pulls
  <2> QED BY <2>1 DEF OrderInv, InOrder, Says
<1>8. CASE WritePulls
  <2>1. /\ UNCHANGED <<target, listed, troubles>> /\ manager = "pulls" /\ manager' = "up"
        /\ journal' = mem /\ \A t \in Transfers : mem[t].status # "active"
    BY <1>8 DEF WritePulls, folders, BooksOK
  <2> QED BY <2>1 DEF OrderInv, InOrder, Says, Excuse
<1> QED BY <1>3, <1>4, <1>5, <1>6, <1>7, <1>8, AttemptOrder, ReconcileOrder DEF Next

-----------------------------------------------------------------------------
PlacesInv == IInv /\ PlaceInv /\ BooksOK /\ OnceInv /\ NotedInv /\ OrderInv

LEMMA InitPlaces == Init => PlacesInv
<1> SUFFICES ASSUME Init PROVE PlacesInv
  OBVIOUS
<1>1. IInv
  BY InitInv
<1>2. /\ target \in {Old, None} /\ (listed <=> target = Old) /\ (running => listed)
      /\ backup = [t \in Transfers |-> None]
      /\ journal = [t \in Transfers |-> NoEntry] /\ mem = [t \in Transfers |-> NoEntry]
      /\ run = [t \in Transfers |-> [at |-> "idle", attempt |-> 0]]
      /\ manager = "up" /\ todo = {}
  BY Zenon DEF Init
<1>3. \A t \in Transfers : run[t].at = "idle" /\ backup[t] = None /\ journal[t] = NoEntry /\ mem[t] = NoEntry
  BY <1>2
<1>4. \A t \in Transfers : \A n \in Attempts : ~Has(t, n)
  BY <1>2, <1>3, IdentitiesAssumption DEF Has, Attempts, Unpacked
<1>5. "idle" \notin Installing /\ "idle" \notin Torn /\ "idle" \notin Fresh /\ "idle" \notin {"start applied"}
  BY OutsidePlaces DEF Outside, Torn, MovedIn, Fresh
<1>6. PlaceInv
  BY <1>2, <1>3, <1>5, IdentitiesAssumption, OutsidePlaces DEF PlaceInv, PlaceOK, RunsInPlace, CanRun
<1>7. BooksOK
  BY <1>2, <1>3 DEF BooksOK
<1>8. OnceInv
  BY <1>3, <1>4, <1>5 DEF OnceInv, OnceOK, NotYetIn
<1>9. NotedInv
  BY <1>3, <1>5, OutsidePlaces DEF NotedInv, NotedOK, Undone, MovedIn, Torn
<1>10. OrderInv
  BY <1>2, IdentitiesAssumption DEF OrderInv, InOrder
<1> QED BY <1>1, <1>6, <1>7, <1>8, <1>9, <1>10 DEF PlacesInv

LEMMA StepPlaces == PlacesInv /\ [Next]_vars => PlacesInv'
<1> SUFFICES ASSUME PlacesInv, [Next]_vars
             PROVE  PlacesInv'
  OBVIOUS
<1>1. IInv'
  BY StepInv DEF PlacesInv
<1>2. CASE Next
  BY <1>1, <1>2, NextPlaces, NextBooks, NextOnce, NextNoted, NextOrder DEF PlacesInv, IInv
<1>3. CASE UNCHANGED vars
  <2>1. UNCHANGED <<ask, target, backup, aside, listed, running, journal, run, manager, todo, mem,
                    sender, troubles>>
    BY <1>3 DEF vars, folders, recovery
  <2>2. PlaceInv'
    BY <2>1 DEF PlacesInv, PlaceInv, PlaceOK, Replaces, RunsInPlace, CanRun
  <2>3. BooksOK'
    BY <2>1 DEF PlacesInv, BooksOK, Pushes, Pulls
  <2>4. OnceInv'
    <3>1. ASSUME NEW t \in Transfers
          PROVE  OnceOK(t)' /\ NotYetIn(t, journal[t])' /\ NotYetIn(t, mem[t])'
      <4>1. OnceOK(t) /\ NotYetIn(t, journal[t]) /\ NotYetIn(t, mem[t])
        BY DEF PlacesInv, OnceInv
      <4>2. \A n : Has(t, n)' <=> Has(t, n)
        BY <2>1, HasStays
      <4> QED BY <2>1, <4>1, <4>2 DEF OnceOK, NotYetIn, Replaces
    <3> QED BY <3>1 DEF OnceInv
  <2>5. NotedInv'
    BY <2>1 DEF PlacesInv, NotedInv, NotedOK, Replaces
  <2>6. OrderInv'
    BY <2>1 DEF PlacesInv, OrderInv, InOrder, Excuse, Says, TornPlaces, Replaces
  <2> QED BY <1>1, <2>2, <2>3, <2>4, <2>5, <2>6 DEF PlacesInv
<1> QED BY <1>2, <1>3

LEMMA InPlace == PlacesInv => ProjectInPlace
<1> SUFFICES ASSUME PlacesInv PROVE ProjectInPlace
  OBVIOUS
<1>1. \A t \in Transfers : Cardinality(Installs(t)) <= 1
  BY InstalledOnce DEF PlacesInv, IInv
<1>2. running => CanRun
  BY DEF PlacesInv, PlaceInv, RunsInPlace
<1>3. ASSUME Settled, troubles <= 2
      PROVE  listed <=> target # None
  <2>1. \A t \in Transfers : run[t].at \in Awaits \cup {"idle"}
    BY <1>3 DEF Settled, Busy
  <2>2. \A t \in Transfers : ~Excuse(t)
    BY <1>3, <2>1 DEF Settled, Excuse, TornPlaces, Torn, MovedIn, Awaits
  <2>3. InOrder
    BY <1>3, <2>2 DEF PlacesInv, OrderInv, Settled
  <2> QED BY <2>3 DEF InOrder
<1> QED BY <1>1, <1>2, <1>3 DEF ProjectInPlace

(* The project is installed as a whole or not at all, each transfer at     *)
(* most once, and a project that runs is never moved (_stage_and_install,  *)
(* _reconcile_install_journal).                                            *)
THEOREM ProjectsStayInPlace == Spec => []ProjectInPlace
BY InitPlaces, StepPlaces, InPlace, PTL DEF Spec

-----------------------------------------------------------------------------
(* What a verdict rests on.  An install that was committed stays on disk,  *)
(* whoever replaces it later; so a success that the journal, an attempt or *)
(* an answer on its way stands for is one (HonestInv).  The journal knows  *)
(* the directory of an attempt that may have moved in (IdInv), and an      *)
(* early phase says that it has not (EarlyInv).  A backup without its      *)
(* install is left only where the attempt is in between, or where the      *)
(* journal has a trace of it (CleanInv).                                   *)
Landed(t) == \E n \in Attempts : <<t, n>> \in Kept
Landing == After \cup {"start", "start applied"}
HonestOK(t) ==
    /\ journal[t].status \in ProvesCommit => Landed(t)
    /\ mem[t].status \in ProvesCommit => Landed(t)
    /\ run[t].at \in Landing => Landed(t)
    /\ sender[t].reply = "ok" => Landed(t)
HonestInv == \A t \in Transfers : HonestOK(t)

IdOK(t, e) ==
    /\ e.installedId # None => \E n \in Attempts : e.installedId = <<t, n>>
    /\ e.status = "active" /\ e.phase \in InstallNoted => e.installedId = Stage(t) /\ Stage(t) # None
IdInv == \A t \in Transfers : IdOK(t, journal[t]) /\ IdOK(t, mem[t])

Absent(t) == \A n \in Attempts : Has(t, n) => n # run[t].attempt
Early == {"extracting", "backing_up", "backup_created"}
EarlyOK(t, e) == e.status = "active" /\ e.phase \in Early => Absent(t)
EarlyInv == \A t \in Transfers : EarlyOK(t, journal[t]) /\ EarlyOK(t, mem[t])

Clean(t) == backup[t] # None => \E n \in Attempts : Has(t, n)
Traced(e) ==
    \/ e.status = "recovery_required"
    \/ e.status = "active" /\ e.phase \in MoveNoted /\ e.backupId # None
CleanOK(t) == ~Clean(t) =>
    /\ manager = "up" => run[t].at \in Torn \/ journal[t].status = "recovery_required"
    /\ Traced(journal[t])
    /\ manager \in {"receipts", "pulls"} => Traced(mem[t])
FailedOK(t) ==
    /\ run[t].at = "settle" => journal[t].status = "recovery_required" \/ Absent(t)
    /\ journal[t].status = "error" => Absent(t)
    /\ mem[t].status = "error" => Absent(t)
CleanInv == troubles <= 2 => \A t \in Transfers : CleanOK(t) /\ FailedOK(t)

-----------------------------------------------------------------------------
(* What a step of an attempt writes to its entry.                          *)
LEMMA EntryMoves ==
    ASSUME TypeOK, RunsOK, NEW t \in Transfers, Request(t) \/ Attempt(t)
    PROVE  \/ journal'[t] = journal[t]
           \/ /\ run'[t].attempt = run[t].attempt + 1 /\ run'[t].at \in {"download", "unpack"}
              /\ UNCHANGED <<target, backup>>
              /\ journal'[t].status = "active" /\ journal'[t].phase \in {"extracting", "downloading"}
              /\ journal'[t].installedId \in {None, journal[t].installedId}
           \/ /\ Downloaded(t) /\ run[t].at = "download"
              /\ journal'[t] = [journal[t] EXCEPT !.phase = "extracting"]
           \/ /\ Note(t) /\ run[t].at \in Notes /\ journal[t].status = "active"
              /\ journal'[t] = Noted(t, run[t].at)
           \/ GiveUp(t) /\ journal'[t] = [journal[t] EXCEPT !.status = "recovery_required"]
           \/ /\ Settle(t) /\ run[t].at = "settle" /\ journal[t].status # "recovery_required"
              /\ journal'[t] = [journal[t] EXCEPT !.status = "error"]
           \/ /\ run[t].at \in Landing
              /\ \/ journal'[t] = Receipt
                 \/ journal'[t] = [journal[t] EXCEPT !.status = "applied_pending_start"]
<1>1. journal[t] \in Entries /\ run[t] \in Runs /\ journal \in [Transfers -> Entries]
  BY DEF TypeOK
<1>2. \A e : Update(t, e) => \/ journal'[t] = journal[t]
                             \/ journal[t].status # "recovery_required" /\ journal'[t] = e
  BY <1>1 DEF Update
<1>3. \A e : journal' = [journal EXCEPT ![t] = e] => journal'[t] = e
  BY <1>1
<1>4. CASE ReceiveNew(t)
  <2>1. CASE journal' = journal
    BY <2>1
  <2>2. CASE Claims(t, "unpack", [NoEntry EXCEPT !.status = "active", !.phase = "extracting"])
    <3>1. journal'[t] = [NoEntry EXCEPT !.status = "active", !.phase = "extracting"]
      BY <1>3, <2>2 DEF Claims
    <3>2. run'[t].attempt = run[t].attempt + 1 /\ run'[t].at = "unpack"
      BY <1>1, <2>2 DEF Claims, Runs, TypeOK
    <3> QED BY <1>4, <3>1, <3>2 DEF NoEntry, ReceiveNew, folders
  <2> QED BY <1>4, <2>1, <2>2 DEF ReceiveNew
<1>5. CASE BeginPull(t)
  <2>1. journal'[t] = PullEntry(t)
    BY <1>3, <1>5 DEF BeginPull, Claims
  <2>2. run'[t].attempt = run[t].attempt + 1 /\ run'[t].at = "download"
    BY <1>1, <1>5 DEF BeginPull, Claims, Runs, TypeOK
  <2> QED BY <1>1, <1>5, <2>1, <2>2 DEF PullEntry, BeginPull, Entries, folders
<1>6. CASE Downloaded(t)
  BY <1>2, <1>6 DEF Downloaded
<1>7. CASE Note(t)
  <2>1. run[t].at \in Notes /\ journal[t].status = "active"
    BY <1>7 DEF Note, TypeOK, AtWork, Before, After, Notes
  <2> QED BY <1>2, <1>7, <2>1 DEF Note
<1>8. CASE GiveUp(t)
  BY <1>2, <1>8 DEF GiveUp
<1>9. CASE Settle(t)
  BY <1>2, <1>9 DEF Settle
<1>10. CASE SettleCommitted(t)
  <2>1. run[t].at \in Landing
    BY <1>10 DEF SettleCommitted, Landing, After
  <2> QED BY <1>2, <1>3, <1>10, <2>1 DEF SettleCommitted, CommittedOutcome
<1>11. CASE WriteReceipt(t) \/ StartApplied(t)
  <2>1. run[t].at \in Landing
    BY <1>11 DEF WriteReceipt, StartApplied, Landing, After
  <2> QED BY <1>3, <1>11, <2>1 DEF WriteReceipt, StartApplied
<1>12. ASSUME \/ ReceiveKnown(t) \/ RetryStart(t) \/ Stops(t) \/ Enter(t) \/ MoveOut(t) \/ MoveIn(t)
              \/ SaveManifest(t) \/ Fails(t) \/ FailsLate(t) \/ UndoInstall(t) \/ UndoBackup(t) \/ Start(t)
       PROVE  journal'[t] = journal[t]
  BY <1>12 DEF ReceiveKnown, RetryStart, Stops, Enter, MoveOut, MoveIn, SaveManifest, Fails, FailsLate,
               UndoInstall, UndoBackup, Start
<1> QED BY <1>4, <1>5, <1>6, <1>7, <1>8, <1>9, <1>10, <1>11, <1>12 DEF Request, Attempt

(* Where an attempt goes under its own steps.                              *)
LEMMA AttemptStays ==
    ASSUME TypeOK, RunsOK, NEW t \in Transfers, Attempt(t)
    PROVE  /\ run'[t].attempt = run[t].attempt
           /\ run'[t].at \in Before \cup Undoing => run[t].at \in {"download", "unpack"} \cup Before \cup Undoing
           /\ run'[t].at \in Landing => run[t].at \in Landing \/ SaveManifest(t)
<1>1. \E place : Goes(t, place)
  BY DEF Attempt, Downloaded, Stops, Enter, Note, MoveOut, MoveIn, SaveManifest, Fails, FailsLate,
         UndoInstall, UndoBackup, GiveUp, Settle, SettleCommitted, Start, WriteReceipt, StartApplied
<1>2. PICK place : Goes(t, place)
  BY <1>1
<1>3. run'[t].at = place /\ run'[t].attempt = run[t].attempt
  BY <1>2, Going
<1>4. \A p : Goes(t, p) => p = place
  BY <1>3, Going
<1>5. CASE Note(t)
  <2>1. place = Following(t) /\ run[t].at \in Notes
    BY <1>4, <1>5 DEF Note
  <2>2. /\ run[t].at = "manifest_committed" => place \in {"starting", "receipt"}
        /\ run[t].at = "starting" => place = "start"
        /\ run[t].at \notin {"manifest_committed", "starting"} => place \in Before
    BY <2>1 DEF Following, Notes, Before
  <2>3. Before \cap Landing = {} /\ {"manifest_committed", "starting"} \subseteq Landing
        /\ "starting" \notin Before \cup Undoing /\ "receipt" \notin Before \cup Undoing
        /\ "start" \notin Before \cup Undoing
        /\ Notes \ {"manifest_committed", "starting"} \subseteq Before
    BY DEF Before, Notes, Undoing, Landing, After
  <2> QED BY <1>3, <2>1, <2>2, <2>3
<1>6. CASE Fails(t) \/ MoveIn(t)
  <2>1. place \in {"installed", "undo install", "undo backup", "settle"} /\ run[t].at \in Before
    BY <1>4, <1>6 DEF Fails, MoveIn, FirstUndone, Before
  <2> QED BY <1>3, <2>1 DEF Landing, After
<1>7. CASE UndoInstall(t) \/ UndoBackup(t) \/ GiveUp(t)
  <2>1. place \in {"undo backup", "settle", "give up"} /\ run[t].at \in Undoing
    BY <1>4, <1>7 DEF UndoInstall, UndoBackup, GiveUp, Undoing
  <2> QED BY <1>3, <2>1 DEF Landing, After
<1>8. CASE Downloaded(t) \/ Stops(t) \/ Enter(t) \/ MoveOut(t)
  <2>1. /\ place \in {"unpack", "settle", "backing_up", "installing", "backup_created"}
        /\ run[t].at \in {"download", "unpack"} \cup Before
    BY <1>4, <1>8 DEF Downloaded, Stops, Enter, MoveOut, Before
  <2> QED BY <1>3, <2>1 DEF Landing, After
<1>9. CASE SaveManifest(t)
  <2>1. place = "manifest_committed"
    BY <1>4, <1>9 DEF SaveManifest
  <2> QED BY <1>3, <1>9, <2>1 DEF Before, Notes, Undoing
<1>10. CASE FailsLate(t) \/ Start(t)
  <2>1. place \in {"settle committed", "receipt"} /\ run[t].at \in Landing
    BY <1>4, <1>10 DEF FailsLate, Start, Landing, After
  <2> QED BY <1>3, <2>1 DEF Before, Notes, Undoing
<1>11. CASE Settle(t) \/ SettleCommitted(t) \/ WriteReceipt(t) \/ StartApplied(t)
  <2>1. place = "idle"
    BY <1>4, <1>11 DEF Settle, SettleCommitted, WriteReceipt, StartApplied
  <2> QED BY <1>3, <2>1 DEF Before, Notes, Undoing, Landing, After
<1> QED BY <1>5, <1>6, <1>7, <1>8, <1>9, <1>10, <1>11 DEF Attempt

(* A request waits before and after it.                                    *)
LEMMA RequestStays ==
    ASSUME TypeOK, RunsOK, NEW t \in Transfers, Request(t)
    PROVE  /\ UNCHANGED <<target, backup, listed>>
           /\ \A u \in Transfers : run'[u].at \in Quiet
           /\ run'[t].at \in Landing => run[t].at \in Landing \/ journal[t].status = "applied_pending_start"
<1>1. UNCHANGED <<target, backup, listed>> /\ Serving
  BY DEF Request, ReceiveKnown, ReceiveNew, BeginPull, RetryStart, folders
<1>2. \A u \in Transfers : run[u].at \in Quiet
  BY <1>1 DEF Serving, Busy, Quiet
<1>3. ASSUME NEW entry, NEW place, Claims(t, place, entry), place \in {"download", "unpack"}
      PROVE  run'[t].at = place
  BY <1>3 DEF Claims, TypeOK, Runs
<1>4. CASE ReceiveKnown(t)
  BY <1>1, <1>2, <1>4 DEF ReceiveKnown
<1>5. CASE RetryStart(t)
  <2>1. run' = run \/ run'[t].at = "start applied"
    BY <1>5, Going DEF RetryStart
  <2> QED BY <1>1, <1>2, <1>5, <2>1, OthersWait DEF RetryStart, Quiet, Awaits
<1>6. CASE ReceiveNew(t) \/ BeginPull(t)
  <2>1. run' = run \/ run'[t].at \in {"download", "unpack"}
    BY <1>3, <1>6 DEF ReceiveNew, BeginPull
  <2> QED BY <1>1, <1>2, <2>1, OthersWait DEF Quiet, Awaits, Landing, After
<1> QED BY <1>4, <1>5, <1>6 DEF Request

(* The directories of the others, where one attempt takes a step: they may *)
(* be moved between the folder and the backups, but not removed.           *)
LEMMA OthersStay ==
    ASSUME TypeOK, RunsOK, FoldersOK, NEW t \in Transfers, Request(t) \/ Attempt(t),
           NEW u \in Transfers \ {t}
    PROVE  backup'[u] = backup[u] /\ \A n \in Attempts : Has(u, n)' <=> Has(u, n)
<1>0. FolderOK(t)
  BY DEF FoldersOK
<1>1. \A n \in Attempts : <<u, n>> # None /\ <<u, n>> # Stage(t)
  BY IdentitiesAssumption DEF Attempts, Unpacked, Stage
<1>2. CASE UNCHANGED <<target, backup>>
  BY <1>2, HasStays
<1>3. CASE MoveOut(t)
  <2>1. /\ backup[t] = None /\ backup'[t] = target /\ target' = None
        /\ \A v \in Transfers \ {t} : backup'[v] = backup[v]
    BY <1>0, <1>3 DEF MoveOut, TypeOK, FolderOK
  <2> QED BY <1>1, <2>1 DEF Has
<1>4. CASE MoveIn(t) /\ target = None
  BY <1>1, <1>4 DEF MoveIn, Has
<1>5. CASE UndoInstall(t)
  <2>1. target = Stage(t) /\ target' \in {None, target} /\ backup' = backup
    BY <1>0, <1>5 DEF UndoInstall, FolderOK
  <2> QED BY <1>1, <2>1 DEF Has
<1>6. CASE UndoBackup(t) /\ ~UNCHANGED <<target, backup>>
  <2>1. /\ target = None /\ backup'[t] = None /\ target' = backup[t]
        /\ \A v \in Transfers \ {t} : backup'[v] = backup[v]
    BY <1>0, <1>6 DEF UndoBackup, TypeOK, FolderOK
  <2> QED BY <1>1, <2>1 DEF Has
<1>7. CASE MoveIn(t) /\ target # None
  BY <1>2, <1>7 DEF MoveIn
<1>8. CASE ~(MoveOut(t) \/ MoveIn(t) \/ UndoInstall(t) \/ UndoBackup(t))
  BY <1>2, <1>8 DEF Request, ReceiveKnown, ReceiveNew, BeginPull, RetryStart, Attempt,
         Downloaded, Stops, Enter, Note, SaveManifest, Fails, FailsLate, GiveUp, Settle,
         SettleCommitted, Start, WriteReceipt, StartApplied, folders
<1> QED BY <1>2, <1>3, <1>4, <1>5, <1>6, <1>7, <1>8

(* Its own directory moves in once.                                        *)
LEMMA OwnStays ==
    ASSUME TypeOK, RunsOK, NEW t \in Transfers, Request(t) \/ Attempt(t),
           NEW n \in Attempts, Has(t, n)'
    PROVE  Has(t, n) \/ (MoveIn(t) /\ run[t].at = "move in" /\ n = run[t].attempt)
<1>1. \A u \in Transfers : <<u, n>> # None
  BY IdentitiesAssumption DEF Attempts, Unpacked
<1>2. CASE UNCHANGED <<target, backup>>
  BY <1>2, HasStays
<1>3. CASE MoveOut(t)
  <2>1. /\ backup'[t] = target /\ target' = None
        /\ \A v \in Transfers \ {t} : backup'[v] = backup[v]
    BY <1>3 DEF MoveOut, TypeOK
  <2> QED BY <1>1, <2>1 DEF Has
<1>4. CASE MoveIn(t)
  <2>1. run[t].at = "move in" /\ backup' = backup /\ target' \in {target, <<t, run[t].attempt>>}
    BY <1>4 DEF MoveIn, Stage
  <2>2. <<t, n>> = <<t, run[t].attempt>> => n = run[t].attempt
    OBVIOUS
  <2> QED BY <1>4, <2>1, <2>2 DEF Has
<1>5. CASE UndoInstall(t)
  BY <1>1, <1>5 DEF UndoInstall, Has
<1>6. CASE UndoBackup(t) /\ ~UNCHANGED <<target, backup>>
  <2>1. /\ backup'[t] = None /\ target' = backup[t]
        /\ \A v \in Transfers \ {t} : backup'[v] = backup[v]
    BY <1>6 DEF UndoBackup, TypeOK
  <2> QED BY <1>1, <2>1 DEF Has
<1> QED BY <1>2, <1>3, <1>4, <1>5, <1>6 DEF Request, ReceiveKnown, ReceiveNew, BeginPull, RetryStart, Attempt,
         Downloaded, Stops, Enter, Note, SaveManifest, Fails, FailsLate, GiveUp, Settle,
         SettleCommitted, Start, WriteReceipt, StartApplied, folders

(* What the reconciliation does to the folders and to what it remembers.   *)
LEMMA ReconcileMoves ==
    ASSUME TypeOK, RunsOK, BooksOK, NEW t \in Transfers, Reconcile(t)
    PROVE  /\ UNCHANGED <<ask, listed, running, journal, run, manager, sender>>
           /\ manager \in {"receipts", "pulls"} /\ mem[t].status = "active"
           /\ \A u \in Transfers : run[u].at = "idle"
           /\ \A u \in Transfers \ {t} : mem'[u] = mem[u] /\ backup'[u] = backup[u]
           /\ \E s \in Statuses : mem'[t] = [mem[t] EXCEPT !.status = s]
           /\ \A u \in Transfers, n \in Attempts : Has(u, n)' => Has(u, n)
           /\ CanFail \/ troubles' = troubles
<1>1. \E s \in Statuses : Reconciles(t, s)
  BY DEF Reconcile, ReconcileUntouched, ReconcileCommitted, RestoreBackup, Quarantine, RequireRecovery, Statuses
<1>2. /\ UNCHANGED <<ask, listed, running, journal, run, manager, sender>>
      /\ manager \in {"receipts", "pulls"} /\ mem[t].status = "active"
  BY <1>1 DEF Reconciles, BooksOK
<1>3. \A u \in Transfers : run[u].at = "idle"
  BY <1>2 DEF RunsOK
<1>4. /\ \A u \in Transfers \ {t} : mem'[u] = mem[u]
      /\ \E s \in Statuses : mem'[t] = [mem[t] EXCEPT !.status = s]
  BY <1>1 DEF Reconciles, TypeOK
<1>5. \A u \in Transfers, n \in Attempts : <<u, n>> # None
  BY IdentitiesAssumption DEF Attempts, Unpacked
<1>6. /\ \A u \in Transfers \ {t} : backup'[u] = backup[u]
      /\ \A u \in Transfers, n \in Attempts : Has(u, n)' => Has(u, n)
  <2>1. CASE UNCHANGED <<target, backup>>
    BY <2>1, HasStays
  <2>2. CASE RestoreBackup(t) \/ Quarantine(t)
    <3>1. /\ target' = backup[t] /\ backup'[t] = None
          /\ \A u \in Transfers \ {t} : backup'[u] = backup[u]
      BY <2>2 DEF RestoreBackup, Quarantine, TypeOK
    <3> QED BY <1>5, <3>1 DEF Has
  <2> QED BY <2>1, <2>2 DEF Reconcile, ReconcileUntouched, ReconcileCommitted, RequireRecovery, folders
<1>7. CanFail \/ troubles' = troubles
  BY DEF Reconcile, ReconcileUntouched, ReconcileCommitted, RestoreBackup, Quarantine, RequireRecovery
<1> QED BY <1>2, <1>3, <1>4, <1>6, <1>7

(* And what the manager does as a whole.                                   *)
LEMMA ManagerMoves ==
    ASSUME TypeOK, RunsOK, BooksOK, UserSwitches \/ Crash \/ Boot \/ WriteReceipts \/ WritePulls
    PROVE  /\ UNCHANGED <<ask, target, backup, listed, sender>>
           /\ \A u \in Transfers :
                /\ run'[u].at = "idle" \/ (UserSwitches /\ run'[u].at = run[u].at /\ run[u].at \in Quiet)
                /\ run'[u].attempt = run[u].attempt
                /\ journal'[u] \in {journal[u], mem[u]}
                /\ mem'[u] \in {journal[u], mem[u], NoEntry}
           /\ CanFail \/ troubles' = troubles
<1>1. UNCHANGED <<ask, target, backup, listed, sender>> /\ (CanFail \/ troubles' = troubles)
  BY DEF UserSwitches, Crash, Boot, WriteReceipts, WritePulls, folders
<1> SUFFICES ASSUME NEW u \in Transfers
             PROVE  /\ run'[u].at = "idle" \/ (UserSwitches /\ run'[u].at = run[u].at /\ run[u].at \in Quiet)
                    /\ run'[u].attempt = run[u].attempt
                    /\ journal'[u] \in {journal[u], mem[u]}
                    /\ mem'[u] \in {journal[u], mem[u], NoEntry}
  BY <1>1
<1>2. journal'[u] \in {journal[u], mem[u]} /\ mem'[u] \in {journal[u], mem[u], NoEntry}
  BY DEF UserSwitches, Crash, Boot, WriteReceipts, WritePulls, recovery
<1>3. CASE UserSwitches
  BY <1>2, <1>3 DEF UserSwitches, Serving, Busy, Quiet
<1>4. CASE Crash
  <2>1. run'[u] = [run[u] EXCEPT !.at = "idle"] /\ run[u] \in Runs
    BY <1>4 DEF Crash, TypeOK
  <2> QED BY <1>2, <2>1 DEF Runs
<1>5. CASE Boot \/ WriteReceipts \/ WritePulls
  BY <1>2, <1>5 DEF Boot, WriteReceipts, WritePulls, RunsOK
<1> QED BY <1>3, <1>4, <1>5

(* What was committed stays so.                                            *)
LEMMA ListedStays == Next => (listed => listed')
<1>1. ASSUME NEW t \in Transfers, Request(t) PROVE listed' = listed
  BY <1>1 DEF Request, ReceiveKnown, ReceiveNew, BeginPull, RetryStart
<1>2. ASSUME NEW t \in Transfers, Attempt(t) PROVE listed' \in {listed, TRUE}
  BY <1>2 DEF Attempt, Downloaded, Stops, Enter, Note, MoveOut, MoveIn, SaveManifest, Fails, FailsLate,
     UndoInstall, UndoBackup, GiveUp, Settle, SettleCommitted, Start, WriteReceipt, StartApplied
<1>3. ASSUME NEW t \in Transfers, Reconcile(t) PROVE listed' = listed
  BY <1>3 DEF Reconcile, ReconcileUntouched, ReconcileCommitted, RestoreBackup, Quarantine, RequireRecovery,
     Reconciles
<1>4. ASSUME NEW t \in Transfers, Sender(t) PROVE listed' = listed
  BY <1>4, SenderLeaves
<1>5. CASE UserSwitches \/ Crash \/ Boot \/ WriteReceipts \/ WritePulls
  BY <1>5 DEF UserSwitches, Crash, Boot, WriteReceipts, WritePulls
<1> QED BY <1>1, <1>2, <1>3, <1>4, <1>5 DEF Next

LEMMA LandedStays ==
    ASSUME IInv, PlaceInv, OnceInv, BooksOK, Next, NEW t \in Transfers, Landed(t)
    PROVE  Landed(t)'
<1> USE DEF IInv
<1>1. PICK n \in Attempts : <<t, n>> \in Kept
  BY DEF Landed
<1> DEFINE d == <<t, n>>
<1>2. d # None
  BY IdentitiesAssumption DEF Attempts, Unpacked
<1>3. listed
  <2>1. CASE d \in Backups
    BY <1>2, <2>1 DEF Backups, PlaceInv
  <2> QED BY <1>1, <2>1 DEF Kept
<1>4. listed' /\ d \in ({target} \cup Backups)'
  BY <1>1, <1>3, NextKeeps, ListedStays DEF Keeps
<1>5. Has(t, n) /\ (d \in Backups \/ (d = target /\ ~Uncommitted))
  BY <1>1 DEF Kept, Backups, Has
<1>6. ASSUME NEW u \in Transfers, target' = Stage(u)', run'[u].at \in Before \cup Undoing, d = target'
      PROVE  d \in Backups'
  <2>1. u = t /\ n = run'[t].attempt /\ run'[t].at \in Before \cup Undoing
    BY <1>6 DEF Stage
  <2>2. run'[t].at \notin Quiet /\ (Before \cup Undoing) \cap Quiet = {}
    BY <2>1 DEF Before, Notes, Undoing, Quiet, Awaits
  <2>3. ASSUME NEW v \in Transfers, Request(v) \/ Attempt(v)
        PROVE  d \in Backups'
    <3>1. v = t /\ Attempt(t)
      BY <2>2, <2>3, OthersWait, RequestStays
    <3>2. run'[t].attempt = run[t].attempt /\ run[t].at \in {"download", "unpack"} \cup Before \cup Undoing
      BY <2>1, <3>1, AttemptStays
    <3>3. OnceOK(t)
      BY DEF OnceInv
    <3>4. run[t].at \notin {"download", "unpack"}
      BY <1>5, <2>1, <3>2, <3>3 DEF OnceOK, Fresh
    <3>5. target = d => Uncommitted
      BY <2>1, <3>2, <3>4 DEF Uncommitted, Stage
    <3>6. d \in Backups
      BY <1>5, <3>5
    <3>7. ~(run[t].at \in Installing \ {"give up"})
      BY <3>3, <3>6 DEF OnceOK, Backups
    <3>8. run[t].at \in {"give up", "settle"}
      BY <3>2, <3>4, <3>7 DEF Installing, Undone, Undoing
    <3>9. backup' = backup
      <4>1. run[t].at \notin Before
        BY <3>8 DEF Before, Notes
      <4> QED BY <3>1, <3>8, <4>1 DEF Attempt, Downloaded, Stops, Enter, Note, MoveOut, MoveIn, SaveManifest, Fails,
         FailsLate, UndoInstall, UndoBackup, GiveUp, Settle, SettleCommitted, Start, WriteReceipt, StartApplied, folders
    <3> QED BY <3>6, <3>9 DEF Backups
  <2>4. ASSUME NEW v \in Transfers, Reconcile(v) PROVE FALSE
    BY <2>2, <2>4, ReconcileMoves DEF Quiet
  <2>5. ASSUME NEW v \in Transfers, Sender(v) PROVE d \in Backups'
    <3>1. UNCHANGED <<target, backup, run>>
      BY <2>5, SenderLeaves DEF folders
    <3>2. d \in Backups
      BY <1>5, <1>6, <3>1 DEF Uncommitted, Stage
    <3> QED BY <3>1, <3>2 DEF Backups
  <2>6. CASE UserSwitches \/ Crash \/ Boot \/ WriteReceipts \/ WritePulls
    BY <2>2, <2>6, ManagerMoves DEF Quiet
  <2> QED BY <2>3, <2>4, <2>5, <2>6 DEF Next
<1>7. d \in Kept'
  BY <1>2, <1>4, <1>6 DEF Kept, Uncommitted
<1> QED BY <1>7 DEF Landed, Attempts

-----------------------------------------------------------------------------
(* A success is announced of what was committed.                           *)
LEMMA AnswerMoves ==
    ASSUME TypeOK, NEW t \in Transfers, Request(t) \/ Attempt(t), NEW u \in Transfers,
           sender'[u].reply = "ok"
    PROVE  \/ sender[u].reply = "ok"
           \/ u = t /\ (journal[t].status = "complete" \/ run[t].at \in Landing)
<1>1. sender \in [Transfers -> SenderStates]
  BY DEF TypeOK, SenderStates
<1>2. ASSUME NEW answer, Arrives(t, answer)
      PROVE  sender'[u].reply = IF u = t THEN answer ELSE sender[u].reply
  BY <1>1, <1>2 DEF Arrives, SenderStates
<1>3. ASSUME NEW answer, Reply(t, answer)
      PROVE  sender'[u].reply = sender[u].reply \/ (u = t /\ sender'[u].reply = answer)
  BY <1>1, <1>3 DEF Reply, SenderStates
<1>4. CASE sender' = sender
  BY <1>4
<1>5. CASE ReceiveKnown(t)
  BY <1>2, <1>5 DEF ReceiveKnown
<1>6. CASE ReceiveNew(t) \/ RetryStart(t)
  <2>1. sender' = sender \/ Arrives(t, "none") \/ Arrives(t, "refused")
    BY <1>6 DEF ReceiveNew, RetryStart
  <2> QED BY <1>2, <1>4, <2>1
<1>7. CASE StartApplied(t) \/ WriteReceipt(t)
  <2>1. run[t].at \in Landing
    BY <1>7 DEF StartApplied, WriteReceipt, Landing, After
  <2> QED BY <1>3, <1>7, <2>1 DEF StartApplied, WriteReceipt
<1>8. CASE Settle(t) \/ SettleCommitted(t)
  <2>1. Reply(t, "refused")
    BY <1>8 DEF Settle, SettleCommitted
  <2> QED BY <1>3, <2>1
<1>9. ASSUME \/ BeginPull(t) \/ Downloaded(t) \/ Stops(t) \/ Enter(t) \/ Note(t) \/ MoveOut(t)
             \/ MoveIn(t) \/ SaveManifest(t) \/ Fails(t) \/ FailsLate(t) \/ UndoInstall(t)
             \/ UndoBackup(t) \/ GiveUp(t) \/ Start(t)
      PROVE  sender' = sender
  BY <1>9 DEF BeginPull, Downloaded, Stops, Enter, Note, MoveOut, MoveIn, SaveManifest, Fails, FailsLate,
              UndoInstall, UndoBackup, GiveUp, Start
<1> QED BY <1>4, <1>5, <1>6, <1>7, <1>8, <1>9 DEF Request, Attempt

(* What a sender learns.                                                   *)
LEMMA SenderLearns ==
    ASSUME TypeOK, NEW t \in Transfers, Sender(t), NEW u \in Transfers
    PROVE  /\ sender'[u].reply = "ok" => sender[u].reply = "ok"
           /\ sender'[u].saved = "complete" =>
                 \/ sender[u].saved = "complete" \/ sender[u].reply = "ok"
                 \/ journal[u].status \in ProvesCommit
<1>1. sender \in [Transfers -> SenderStates]
  BY DEF TypeOK, SenderStates
<1>2. CASE SenderBegins(t)
  BY <1>1, <1>2 DEF SenderBegins, SenderStates
<1>3. ASSUME NEW status, SenderEnds(t, status), status = "complete" => sender[t].reply = "ok"
      PROVE  /\ sender'[u].reply = "ok" => sender[u].reply = "ok"
             /\ sender'[u].saved = "complete" => sender[u].saved = "complete" \/ sender[u].reply = "ok"
  BY <1>1, <1>3 DEF SenderEnds, SenderStates
<1>4. CASE SenderAnswered(t) \/ SenderGivesUp(t)
  BY <1>3, <1>4 DEF SenderAnswered, SenderGivesUp
<1>5. CASE SenderAsks(t)
  BY <1>1, <1>5 DEF SenderAsks, SenderStates
<1>6. CASE SenderRestarts(t)
  BY <1>1, <1>6 DEF SenderRestarts, SenderStates
<1> QED BY <1>2, <1>4, <1>5, <1>6 DEF Sender

LEMMA SaveLands ==
    ASSUME TypeOK, RunsOK, FoldersOK, NEW t \in Transfers, SaveManifest(t)
    PROVE  Landed(t)'
<1>1. run[t].at = "save manifest" /\ target' = target /\ listed' = TRUE /\ run'[t].at = "manifest_committed"
  BY Going DEF SaveManifest, folders
<1>2. target = Stage(t) /\ run[t].attempt \in Attempts /\ Stage(t) = <<t, run[t].attempt>> /\ Stage(t) # None
  BY <1>1, StageIsOne DEF FoldersOK, FolderOK, Before
<1>3. \A u \in Transfers : run'[u].at \notin Before \cup Undoing
  <2>1. \A u \in Transfers \ {t} : run'[u].at \in Quiet
    BY OthersWait DEF Attempt
  <2> QED BY <1>1, <2>1 DEF Quiet, Awaits, Before, Notes, Undoing
<1>4. target' \in Kept'
  BY <1>1, <1>2, <1>3 DEF Kept, Uncommitted
<1> QED BY <1>1, <1>2, <1>4 DEF Landed, Attempts

LEMMA ReconcileLands ==
    ASSUME TypeOK, RunsOK, BooksOK, IdInv, NEW t \in Transfers, Reconcile(t),
           mem'[t].status \in ProvesCommit
    PROVE  Landed(t)
<1>1. \A u \in Transfers : run[u].at \notin Before \cup Undoing
  BY ReconcileMoves DEF Before, Notes, Undoing
<1>2. ASSUME NEW s, Reconciles(t, s) PROVE mem'[t].status = s
  BY <1>2 DEF Reconciles, TypeOK, Entries
<1>3. Committed(t)
  BY <1>2 DEF Reconcile, ReconcileUntouched, ReconcileCommitted, RestoreBackup, Quarantine, RequireRecovery,
     ProvesCommit
<1>4. listed /\ target = mem[t].installedId /\ target # None
  BY <1>3 DEF Committed, Looks
<1>5. target \in Kept
  BY <1>1, <1>4 DEF Kept, Uncommitted
<1> QED BY <1>4, <1>5 DEF Landed, IdInv, IdOK

LEMMA NextHonest ==
    ASSUME IInv, PlaceInv, OnceInv, BooksOK, IdInv, HonestInv, Next
    PROVE  HonestInv'
<1> USE DEF IInv
<1>1. ASSUME NEW u \in Transfers, Landed(u) PROVE Landed(u)'
  BY <1>1, LandedStays
<1> SUFFICES ASSUME NEW u \in Transfers
             PROVE  HonestOK(u)'
  BY DEF HonestInv
<1>2. HonestOK(u)
  BY DEF HonestInv
<1>3. ASSUME NEW t \in Transfers, Request(t) \/ Attempt(t)
      PROVE  HonestOK(u)'
  <2>1. mem' = mem
    BY <1>3, AttemptUp DEF recovery
  <2>2. CASE u # t
    <3>1. journal'[u] = journal[u] /\ run'[u] = run[u]
      BY <1>3, <2>2, OthersWait, OwnEntry
    <3>2. sender'[u].reply = "ok" => sender[u].reply = "ok"
      BY <1>3, <2>2, AnswerMoves
    <3> QED BY <1>1, <1>2, <2>1, <3>1, <3>2 DEF HonestOK
  <2>3. CASE u = t
    <3>1. journal'[t].status \in ProvesCommit => Landed(t)
      <4>1. journal'[t].status \in ProvesCommit => journal[t].status \in ProvesCommit \/ run[t].at \in Landing
        <5>1. journal[t] \in Entries
          BY DEF TypeOK
        <5>2. run[t].at \in Notes => Noted(t, run[t].at).status = journal[t].status
          BY NotedTyped
        <5> QED BY <1>3, <5>1, <5>2, EntryMoves DEF ProvesCommit, Entries
      <4> QED BY <1>2, <2>3, <4>1 DEF HonestOK
    <3>2. run'[t].at \in Landing => Landed(t) \/ Landed(t)'
      <4>1. run'[t].at \in Landing =>
               run[t].at \in Landing \/ journal[t].status = "applied_pending_start" \/ SaveManifest(t)
        BY <1>3, AttemptStays, RequestStays
      <4> QED BY <1>2, <2>3, <4>1, SaveLands DEF HonestOK, ProvesCommit
    <3>3. sender'[t].reply = "ok" => Landed(t)
      BY <1>2, <1>3, <2>3, AnswerMoves DEF HonestOK, ProvesCommit
    <3> QED BY <1>1, <1>2, <2>1, <2>3, <3>1, <3>2, <3>3 DEF HonestOK
  <2> QED BY <2>2, <2>3
<1>4. ASSUME NEW t \in Transfers, Reconcile(t)
      PROVE  HonestOK(u)'
  <2>1. UNCHANGED <<journal, run, sender>> /\ (u # t => mem'[u] = mem[u])
    BY <1>4, ReconcileMoves
  <2>2. mem'[t].status \in ProvesCommit => Landed(t)
    BY <1>4, ReconcileLands
  <2> QED BY <1>1, <1>2, <2>1, <2>2 DEF HonestOK
<1>5. ASSUME NEW t \in Transfers, Sender(t)
      PROVE  HonestOK(u)'
  <2>1. UNCHANGED <<journal, run, mem>> /\ (sender'[u].reply = "ok" => sender[u].reply = "ok")
    BY <1>5, SenderLeaves, SenderLearns DEF recovery
  <2> QED BY <1>1, <1>2, <2>1 DEF HonestOK
<1>6. CASE UserSwitches \/ Crash \/ Boot \/ WriteReceipts \/ WritePulls
  <2>1. /\ sender' = sender /\ run'[u].at \in {"idle", run[u].at}
        /\ journal'[u] \in {journal[u], mem[u]} /\ mem'[u] \in {journal[u], mem[u], NoEntry}
    BY <1>6, ManagerMoves
  <2>2. NoEntry.status \notin ProvesCommit /\ "idle" \notin Landing
    BY DEF NoEntry, ProvesCommit, Landing, After
  <2> QED BY <1>1, <1>2, <2>1, <2>2 DEF HonestOK
<1> QED BY <1>3, <1>4, <1>5, <1>6 DEF Next

-----------------------------------------------------------------------------
(* The journal knows the directory: what a step of the attempt does to it. *)
LEMMA ClaimedAnew ==
    ASSUME TypeOK, NEW t \in Transfers, Request(t) \/ Attempt(t)
    PROVE  \/ run'[t].attempt = run[t].attempt
           \/ journal'[t].phase \in {"extracting", "downloading"} /\ run'[t].at \in {"download", "unpack"}
<1>1. \A place : Goes(t, place) => run'[t].attempt = run[t].attempt
  BY Going
<1>2. \A e, place : Claims(t, place, e) => journal'[t] = e /\ run'[t].at = place
  BY DEF Claims, TypeOK, Runs
<1>3. CASE Attempt(t)
  BY <1>1, <1>3 DEF Attempt, Downloaded, Stops, Enter, Note, MoveOut, MoveIn, SaveManifest, Fails, FailsLate,
     UndoInstall, UndoBackup, GiveUp, Settle, SettleCommitted, Start, WriteReceipt, StartApplied
<1>4. CASE ReceiveKnown(t) \/ RetryStart(t)
  BY <1>1, <1>4 DEF ReceiveKnown, RetryStart
<1>5. CASE ReceiveNew(t)
  <2>1. [NoEntry EXCEPT !.status = "active", !.phase = "extracting"].phase = "extracting"
    BY DEF NoEntry
  <2> QED BY <1>2, <1>5, <2>1 DEF ReceiveNew
<1>6. CASE BeginPull(t)
  <2>1. PullEntry(t).phase = "downloading"
    BY DEF PullEntry, TypeOK, Entries
  <2> QED BY <1>2, <1>6, <2>1 DEF BeginPull
<1> QED BY <1>3, <1>4, <1>5, <1>6 DEF Request

LEMMA OwnId ==
    ASSUME TypeOK, RunsOK, NotedInv, NEW t \in Transfers, Request(t) \/ Attempt(t),
           IdOK(t, journal[t])
    PROVE  IdOK(t, journal[t])'
<1> DEFINE old == journal[t]
           new == journal'[t]
           Goal == /\ new.installedId # None => \E n \in Attempts : new.installedId = <<t, n>>
                   /\ new.status = "active" /\ new.phase \in InstallNoted =>
                         new.installedId = <<t, run'[t].attempt>> /\ <<t, run'[t].attempt>> # None
<1> SUFFICES Goal
  BY DEF IdOK, Stage, Attempts
<1>1. old \in Entries
  BY DEF TypeOK
<1>2. /\ old.installedId # None => \E n \in Attempts : old.installedId = <<t, n>>
      /\ old.status = "active" /\ old.phase \in InstallNoted => 
                   old.installedId = <<t, run[t].attempt>> /\ <<t, run[t].attempt>> # None
  BY DEF IdOK, Stage
<1>3. run'[t].attempt = run[t].attempt \/ new.phase \notin InstallNoted
  BY ClaimedAnew DEF InstallNoted
<1>4. ASSUME new.installedId \in {None, old.installedId},
             new.status # "active" \/ new.phase \notin InstallNoted
      PROVE  Goal
  BY <1>2, <1>4
<1>5. CASE new = old
  BY <1>2, <1>3, <1>5
<1>6. ASSUME Note(t), run[t].at \in Notes, old.status = "active", new = Noted(t, run[t].at)
      PROVE  Goal
  <2>1. run'[t].attempt = run[t].attempt
    BY <1>6, AttemptStays DEF Attempt
  <2>2. /\ new.phase = run[t].at
        /\ new.installedId = IF run[t].at \in {"installing", "installed"} THEN Stage(t) ELSE old.installedId
    BY <1>1, <1>6 DEF Noted, Entries
  <2>3. CASE run[t].at \in {"installing", "installed"}
    <3>1. run[t].attempt \in Attempts /\ Stage(t) = <<t, run[t].attempt>> /\ Stage(t) # None
      BY <2>3, StageIsOne DEF Before, Notes
    <3> QED BY <2>1, <2>2, <2>3, <3>1
  <2>4. CASE run[t].at = "committing_manifest"
    <3>1. old.phase \in InstallNoted
      BY <2>4 DEF NotedInv, NotedOK, MovedIn
    <3> QED BY <1>2, <1>6, <2>1, <2>2, <2>4, <3>1
  <2>5. CASE run[t].at \notin InstallNoted
    BY <1>2, <2>2, <2>5 DEF InstallNoted
  <2> QED BY <2>3, <2>4, <2>5 DEF InstallNoted
<1>7. CASE new = Receipt
  <2>1. Receipt.status = "complete" /\ Receipt.installedId = None
    BY DEF Receipt, NoEntry
  <2> QED BY <1>7, <2>1
<1>8. CASE new = [old EXCEPT !.phase = "extracting"]
  <2>1. new.phase = "extracting" /\ new.installedId = old.installedId
    BY <1>1, <1>8 DEF Entries
  <2> QED BY <1>2, <2>1 DEF InstallNoted
<1>9. ASSUME NEW s \in {"recovery_required", "error", "applied_pending_start"},
             new = [old EXCEPT !.status = s]
      PROVE  Goal
  <2>1. new.status = s /\ new.installedId = old.installedId
    BY <1>1, <1>9 DEF Entries
  <2> QED BY <1>2, <2>1
<1>10. CASE new.phase \in {"extracting", "downloading"} /\ new.installedId \in {None, old.installedId}
  BY <1>2, <1>10 DEF InstallNoted
<1> QED BY <1>5, <1>6, <1>7, <1>8, <1>9, <1>10, EntryMoves

LEMMA NextId ==
    ASSUME IInv, BooksOK, NotedInv, IdInv, Next
    PROVE  IdInv'
<1> USE DEF IInv
<1> SUFFICES ASSUME NEW u \in Transfers
             PROVE  IdOK(u, journal[u])' /\ IdOK(u, mem[u])'
  BY DEF IdInv
<1>1. IdOK(u, journal[u]) /\ IdOK(u, mem[u]) /\ IdOK(u, NoEntry)
  BY DEF IdInv, IdOK, NoEntry
<1>2. ASSUME NEW t \in Transfers, Request(t) \/ Attempt(t)
      PROVE  IdOK(u, journal[u])' /\ IdOK(u, mem[u])'
  <2>1. mem'[u] = NoEntry
    BY <1>2, AttemptUp, UpBooks DEF recovery
  <2>2. IdOK(u, mem[u])'
    BY <2>1 DEF IdOK, NoEntry
  <2>3. CASE u # t
    <3>1. journal'[u] = journal[u] /\ run'[u] = run[u]
      BY <1>2, <2>3, OthersWait, OwnEntry
    <3> QED BY <1>1, <2>2, <3>1 DEF IdOK, Stage, Attempts
  <2> QED BY <1>1, <1>2, <2>2, <2>3, OwnId
<1>3. ASSUME NEW t \in Transfers, Reconcile(t)
      PROVE  IdOK(u, journal[u])' /\ IdOK(u, mem[u])'
  <2>1. /\ UNCHANGED <<journal, run>> /\ (u # t => mem'[u] = mem[u])
        /\ \E s \in Statuses : mem'[t] = [mem[t] EXCEPT !.status = s]
        /\ mem[t].status = "active"
    BY <1>3, ReconcileMoves
  <2>2. mem'[t].installedId = mem[t].installedId /\ mem'[t].phase = mem[t].phase
    BY <2>1 DEF TypeOK, Entries
  <2> QED BY <1>1, <2>1, <2>2 DEF IdOK, Stage, Attempts
<1>4. ASSUME NEW t \in Transfers, Sender(t)
      PROVE  IdOK(u, journal[u])' /\ IdOK(u, mem[u])'
  BY <1>1, <1>4, SenderLeaves DEF IdOK, Stage, Attempts, recovery
<1>5. CASE UserSwitches \/ Crash \/ Boot \/ WriteReceipts \/ WritePulls
  <2>1. /\ run'[u].attempt = run[u].attempt
        /\ journal'[u] \in {journal[u], mem[u]} /\ mem'[u] \in {journal[u], mem[u], NoEntry}
    BY <1>5, ManagerMoves
  <2> QED BY <1>1, <2>1 DEF IdOK, Stage, Attempts
<1> QED BY <1>2, <1>3, <1>4, <1>5 DEF Next

-----------------------------------------------------------------------------
(* An early phase of an active entry says that nothing has moved in.       *)
LEMMA SameAbsent ==
    ASSUME NEW t \in Transfers, Absent(t), run'[t].attempt = run[t].attempt,
           \A n \in Attempts : Has(t, n)' => Has(t, n)
    PROVE  Absent(t)'
BY DEF Absent, Attempts

LEMMA OwnEarly ==
    ASSUME TypeOK, RunsOK, NotedInv, OnceInv', NEW t \in Transfers, Request(t) \/ Attempt(t),
           EarlyOK(t, journal[t])
    PROVE  EarlyOK(t, journal[t])'
<1> SUFFICES ASSUME journal'[t].status = "active", journal'[t].phase \in Early
             PROVE  Absent(t)'
  BY DEF EarlyOK, Early
<1>1. CASE run'[t].at \in Fresh
  BY <1>1 DEF OnceInv, OnceOK, Absent, Attempts, Fresh
<1>2. CASE journal'[t] = journal[t] /\ run'[t].at \notin Fresh
  <2>1. run'[t].attempt = run[t].attempt
    BY <1>2, ClaimedAnew DEF Fresh
  <2>2. Absent(t)
    BY <1>2 DEF EarlyOK
  <2>3. run[t].at # "move in"
    BY <1>2 DEF NotedInv, NotedOK, Early, InstallNoted
  <2> QED BY <2>1, <2>2, <2>3, OwnStays, SameAbsent
<1>3. CASE Downloaded(t)
  <2>1. run'[t].at = "unpack"
    BY <1>3, Going DEF Downloaded
  <2> QED BY <1>1, <2>1 DEF Fresh
<1>4. CASE Note(t) /\ run[t].at \in Notes /\ journal'[t] = Noted(t, run[t].at)
  <2>1. journal'[t].phase = run[t].at
    BY <1>4 DEF Noted, TypeOK, Entries
  <2>2. run[t].at \in {"backing_up", "backup_created"}
    BY <1>4, <2>1 DEF Early, Notes
  <2>3. run'[t].at \in {"move out", "installing"}
    BY <1>4, <2>2, Going DEF Note, Following
  <2> QED BY <1>1, <2>3 DEF Fresh
<1>5. ASSUME NEW s \in {"recovery_required", "error", "applied_pending_start"},
             journal'[t] = [journal[t] EXCEPT !.status = s]
      PROVE  FALSE
  BY <1>5 DEF TypeOK, Entries
<1>6. CASE run'[t].at \in {"download", "unpack"}
  BY <1>1, <1>6 DEF Fresh
<1>7. journal'[t] # Receipt
  BY DEF Receipt, NoEntry
<1> QED BY <1>1, <1>2, <1>3, <1>4, <1>5, <1>6, <1>7, EntryMoves

LEMMA NextEarly ==
    ASSUME IInv, BooksOK, OnceInv, NotedInv, EarlyInv, Next, OnceInv'
    PROVE  EarlyInv'
<1> USE DEF IInv
<1> SUFFICES ASSUME NEW u \in Transfers
             PROVE  EarlyOK(u, journal[u])' /\ EarlyOK(u, mem[u])'
  BY DEF EarlyInv
<1>1. EarlyOK(u, journal[u]) /\ EarlyOK(u, mem[u]) /\ EarlyOK(u, NoEntry)
  BY DEF EarlyInv, EarlyOK, NoEntry
<1>2. ASSUME NEW t \in Transfers, Request(t) \/ Attempt(t)
      PROVE  EarlyOK(u, journal[u])' /\ EarlyOK(u, mem[u])'
  <2>1. mem'[u] = NoEntry
    BY <1>2, AttemptUp, UpBooks DEF recovery
  <2>2. EarlyOK(u, mem[u])'
    BY <2>1 DEF EarlyOK, NoEntry
  <2>3. CASE u # t
    <3>1. journal'[u] = journal[u] /\ run'[u] = run[u] /\ \A n \in Attempts : Has(u, n)' => Has(u, n)
      BY <1>2, <2>3, OthersWait, OwnEntry, OthersStay
    <3>2. Absent(u) => Absent(u)'
      BY <3>1, SameAbsent
    <3> QED BY <1>1, <2>2, <3>1, <3>2 DEF EarlyOK
  <2> QED BY <1>1, <1>2, <2>2, <2>3, OwnEarly
<1>3. ASSUME NEW t \in Transfers, Reconcile(t)
      PROVE  EarlyOK(u, journal[u])' /\ EarlyOK(u, mem[u])'
  <2>1. /\ UNCHANGED <<journal, run>> /\ (u # t => mem'[u] = mem[u])
        /\ \E s \in Statuses : mem'[t] = [mem[t] EXCEPT !.status = s]
        /\ mem[t].status = "active" /\ \A n \in Attempts : Has(u, n)' => Has(u, n)
    BY <1>3, ReconcileMoves
  <2>2. mem'[t].phase = mem[t].phase
    BY <2>1 DEF TypeOK, Entries
  <2>3. Absent(u) => Absent(u)'
    BY <2>1, SameAbsent
  <2> QED BY <1>1, <2>1, <2>2, <2>3 DEF EarlyOK
<1>4. ASSUME NEW t \in Transfers, Sender(t)
      PROVE  EarlyOK(u, journal[u])' /\ EarlyOK(u, mem[u])'
  <2>1. UNCHANGED <<journal, mem, run, target, backup>>
    BY <1>4, SenderLeaves DEF recovery, folders
  <2> QED BY <1>1, <2>1 DEF EarlyOK, Absent, Attempts, Has
<1>5. CASE UserSwitches \/ Crash \/ Boot \/ WriteReceipts \/ WritePulls
  <2>1. /\ run'[u].attempt = run[u].attempt /\ UNCHANGED <<target, backup>>
        /\ journal'[u] \in {journal[u], mem[u]} /\ mem'[u] \in {journal[u], mem[u], NoEntry}
    BY <1>5, ManagerMoves
  <2>2. Absent(u) => Absent(u)'
    BY <2>1, HasStays, SameAbsent
  <2> QED BY <1>1, <2>1, <2>2 DEF EarlyOK
<1> QED BY <1>2, <1>3, <1>4, <1>5 DEF Next

-----------------------------------------------------------------------------
(* A backup without its install: an attempt that leaves its work undoes    *)
(* it, or says that it could not.                                          *)
LEMMA GivesUp ==
    ASSUME TypeOK, NotedInv, NEW t \in Transfers, GiveUp(t), troubles' <= 2
    PROVE  journal'[t].status = "recovery_required"
<1>1. troubles >= 2
  BY DEF GiveUp, NotedInv, NotedOK
<1>2. troubles \in Nat
  BY BoundsAssumption DEF TypeOK
<1>3. ~CanFail
  BY <1>1, <1>2 DEF CanFail
<1>4. Update(t, [journal[t] EXCEPT !.status = "recovery_required"])
  BY <1>3 DEF GiveUp
<1> QED BY <1>4 DEF Update, TypeOK, Entries

LEMMA TornMoves ==
    ASSUME TypeOK, RunsOK, FoldersOK, NotedInv, NEW t \in Transfers, Request(t) \/ Attempt(t),
           run[t].at \in Torn, troubles' <= 2
    PROVE  \/ run'[t].at \in Torn \/ journal'[t].status = "recovery_required" \/ Clean(t)'
<1>1. \A p : Goes(t, p) => run'[t].at = p /\ run'[t].attempt = run[t].attempt
  BY Going
<1>2. Attempt(t)
  BY DEF Request, ReceiveKnown, ReceiveNew, BeginPull, RetryStart, Serving, Busy, Torn, MovedIn, Awaits
<1>3. CASE Note(t)
  <2>1. Following(t) \in Torn
    BY <1>3 DEF Note, Following, Torn, MovedIn, Notes
  <2> QED BY <1>1, <1>3, <2>1 DEF Note
<1>4. ASSUME UNCHANGED backup, Goes(t, FirstUndone(t))
      PROVE  run'[t].at \in Torn \/ Clean(t)'
  <2>1. FirstUndone(t) \in {"undo install", "undo backup"} \/ backup[t] = None
    BY DEF FirstUndone
  <2> QED BY <1>1, <1>4, <2>1 DEF Torn, MovedIn, Clean
<1>5. CASE Fails(t) \/ MoveIn(t)
  <2>1. CASE Goes(t, "installed")
    BY <1>1, <2>1 DEF Torn, MovedIn
  <2> QED BY <1>4, <1>5, <2>1 DEF Fails, MoveIn, folders
<1>6. CASE SaveManifest(t)
  <2>1. /\ target = Stage(t) /\ Stage(t) = <<t, run[t].attempt>> /\ run[t].attempt \in Attempts
        /\ target' = target
    BY <1>6, StageIsOne DEF SaveManifest, Before, FoldersOK, FolderOK, folders
  <2> QED BY <2>1 DEF Clean, Has, Attempts
<1>7. CASE UndoInstall(t)
  <2>1. backup' = backup /\ (Goes(t, "undo backup") \/ Goes(t, "give up") \/ backup[t] = None)
    BY <1>7 DEF UndoInstall
  <2>2. backup[t] = None => Clean(t)'
    BY <2>1 DEF Clean
  <2>3. Goes(t, "undo backup") \/ Goes(t, "give up") => run'[t].at \in Torn
    BY <1>1 DEF Torn
  <2> QED BY <2>1, <2>2, <2>3
<1>8. CASE UndoBackup(t)
  <2>1. run'[t].at = "give up" \/ backup'[t] = None
    BY <1>1, <1>8 DEF UndoBackup, TypeOK
  <2> QED BY <2>1 DEF Torn, Clean
<1>9. CASE GiveUp(t)
  BY <1>9, GivesUp
<1>10. run[t].at # "move out" /\ run[t].at \notin Awaits \cup After \cup {"settle"}
  BY DEF Torn, MovedIn, Awaits, After
<1> QED BY <1>2, <1>3, <1>5, <1>6, <1>7, <1>8, <1>9, <1>10 DEF Attempt, Downloaded, Stops, Enter, MoveOut, FailsLate,
    Settle, SettleCommitted, Start, WriteReceipt, StartApplied, Awaits, After

LEMMA OwnClean ==
    ASSUME TypeOK, RunsOK, FoldersOK, PlaceInv, NotedInv, NEW t \in Transfers, Request(t) \/ Attempt(t),
           CleanOK(t), TypeOK', FoldersOK', NotedInv', RunsOK', troubles' <= 2
    PROVE  CleanOK(t)'
<1>1. manager = "up" /\ manager' = "up"
  BY AttemptUp DEF recovery
<1> SUFFICES ASSUME ~Clean(t)'
             PROVE  CleanOK(t)'
  BY DEF CleanOK
<1>2. CASE run'[t].at \in Torn
  <2>1. Replaces(t)'
    BY DEF FoldersOK, FolderOK, Clean
  <2>2. journal'[t].phase \in MoveNoted /\ journal'[t].backupId # None
    BY <1>2, <2>1 DEF NotedInv, NotedOK
  <2>3. run'[t].at \in AtWork \cup Undone
    BY <1>2 DEF Torn, MovedIn, Before, Notes, Undone, AtWork
  <2>4. journal'[t].status = "active"
    BY <2>3 DEF NotedInv, NotedOK, TypeOK
  <2> QED BY <1>1, <1>2, <2>2, <2>4 DEF CleanOK, Traced
<1>3. CASE journal'[t].status = "recovery_required"
  BY <1>1, <1>3 DEF CleanOK, Traced
<1>4. CASE run[t].at \in Torn
  BY <1>2, <1>3, <1>4, TornMoves
<1>5. CASE run[t].at \notin Torn /\ UNCHANGED <<target, backup>>
  <2>1. ~Clean(t)
    BY <1>5 DEF Clean, Has, Attempts
  <2>2. journal[t].status = "recovery_required"
    BY <1>1, <1>5, <2>1 DEF CleanOK
  <2> QED BY <1>3, <2>2, WordStays
<1>6. CASE MoveOut(t)
  BY <1>2, <1>6, Going DEF MoveOut, Torn
<1>7. CASE MoveIn(t) \/ UndoInstall(t) \/ UndoBackup(t)
  BY <1>4, <1>7 DEF MoveIn, UndoInstall, UndoBackup, Torn, MovedIn
<1> QED BY <1>2, <1>3, <1>4, <1>5, <1>6, <1>7 DEF Request, ReceiveKnown, ReceiveNew, BeginPull, RetryStart, Attempt,
         Downloaded, Stops, Enter, Note, SaveManifest, Fails, FailsLate, GiveUp, Settle,
         SettleCommitted, Start, WriteReceipt, StartApplied, folders

(* An attempt that comes to its end without a success has removed what it  *)
(* installed, or says that it could not.                                   *)
LEMMA SettlesClean ==
    ASSUME TypeOK, RunsOK, FoldersOK, OnceInv, NotedInv, NEW t \in Transfers, Request(t) \/ Attempt(t),
           FailedOK(t), run'[t].at = "settle", troubles' <= 2
    PROVE  journal'[t].status = "recovery_required" \/ Absent(t)'
<1>1. \A p : Goes(t, p) => p = "settle" /\ run'[t].attempt = run[t].attempt
  BY Going
<1>2. Attempt(t)
  BY RequestStays DEF Quiet, Awaits
<1>3. run'[t].attempt = run[t].attempt
  BY <1>2, AttemptStays
<1>4. run[t].at \in Fresh => Absent(t)
  BY DEF OnceInv, OnceOK, Absent, Fresh
<1>5. ASSUME run[t].at \in Fresh, UNCHANGED <<target, backup>>
      PROVE  Absent(t)'
  BY <1>3, <1>4, <1>5, HasStays, SameAbsent
<1>6. CASE Stops(t) \/ Enter(t)
  BY <1>5, <1>6 DEF Stops, Enter, folders, Fresh
<1>7. CASE Fails(t) \/ MoveIn(t)
  <2>1. run[t].at \in Before /\ UNCHANGED <<target, backup>> /\ FirstUndone(t) = "settle"
    <3>1. ~Goes(t, "installed") /\ (Goes(t, FirstUndone(t)) => FirstUndone(t) = "settle")
      BY <1>1
    <3>2. CASE Fails(t)
      BY <3>1, <3>2 DEF Fails, folders
    <3>3. CASE MoveIn(t)
      BY <3>1, <3>3 DEF MoveIn, Before
    <3> QED BY <1>7, <3>2, <3>3
  <2>2. target # Stage(t)
    BY <2>1 DEF FirstUndone
  <2>3. run[t].at \in Fresh
    BY <2>1, <2>2 DEF FoldersOK, FolderOK, Before, Notes, Fresh
  <2> QED BY <1>5, <2>1, <2>3
<1>8. CASE UndoInstall(t) \/ UndoBackup(t)
  <2>1. run[t].at \in Installing \ {"give up"}
    BY <1>8 DEF UndoInstall, UndoBackup, Installing, Undone
  <2>2. \A n \in Attempts, u \in Transfers : backup[u] # <<t, n>>
    BY <2>1 DEF OnceInv, OnceOK
  <2>3. \A n \in Attempts : <<t, n>> # None
    BY IdentitiesAssumption DEF Attempts, Unpacked
  <2>4. \/ target' = None /\ backup' = backup
        \/ /\ target' = backup[t] /\ backup'[t] = None
           /\ \A u \in Transfers \ {t} : backup'[u] = backup[u]
    <3>1. ~\E p \in {"give up"} : Goes(t, p)
      BY Going
    <3>2. CASE UndoInstall(t)
      BY <3>1, <3>2 DEF UndoInstall
    <3>3. CASE UndoBackup(t)
      BY <3>1, <3>3 DEF UndoBackup, TypeOK
    <3> QED BY <1>8, <3>2, <3>3
  <2>5. \A n \in Attempts : ~Has(t, n)'
    BY <2>2, <2>3, <2>4 DEF Has, Attempts
  <2> QED BY <2>5 DEF Absent, Attempts
<1>9. CASE GiveUp(t)
  BY <1>9, GivesUp
<1>10. CASE Note(t)
  <2>1. run[t].at \in Notes /\ Goes(t, Following(t))
    BY <1>10 DEF Note
  <2>2. Following(t) # "settle"
    BY <2>1 DEF Following, Notes
  <2> QED BY <2>1, <2>2, Going
<1>11. ASSUME \/ Downloaded(t) \/ MoveOut(t) \/ SaveManifest(t) \/ FailsLate(t) \/ Settle(t)
              \/ SettleCommitted(t) \/ Start(t) \/ WriteReceipt(t) \/ StartApplied(t)
       PROVE  FALSE
  <2>1. \E p \in {"unpack", "backup_created", "manifest_committed", "settle committed", "receipt", "idle"} :
           Goes(t, p)
    BY <1>11 DEF Downloaded, MoveOut, SaveManifest, FailsLate, Settle, SettleCommitted, Start, WriteReceipt,
       StartApplied
  <2> QED BY <2>1, Going
<1> QED BY <1>2, <1>6, <1>7, <1>8, <1>9, <1>10, <1>11 DEF Attempt

LEMMA OwnFailed ==
    ASSUME TypeOK, RunsOK, FoldersOK, BooksOK, OnceInv, NotedInv, NEW t \in Transfers, Request(t) \/ Attempt(t),
           FailedOK(t), TypeOK', troubles' <= 2
    PROVE  FailedOK(t)'
<1>1. mem'[t].status # "error"
  BY AttemptUp, UpBooks DEF recovery, NoEntry
<1>2. ASSUME journal'[t].status = "error"
      PROVE  Absent(t)'
  <2>1. CASE journal'[t] = journal[t]
    <3>1. run'[t].at \notin {"download", "unpack"} /\ run[t].at # "move in"
      BY <1>2, <2>1 DEF TypeOK, AtWork, Awaits, Before
    <3>2. run'[t].attempt = run[t].attempt
      BY <3>1, ClaimedAnew
    <3> QED BY <1>2, <2>1, <3>1, <3>2, OwnStays, SameAbsent DEF FailedOK
  <2>2. CASE Settle(t) /\ run[t].at = "settle" /\ journal[t].status # "recovery_required"
    <3>1. Absent(t) /\ UNCHANGED <<target, backup>> /\ run'[t].attempt = run[t].attempt
      BY <2>2, Going DEF FailedOK, Settle, folders
    <3> QED BY <3>1, HasStays, SameAbsent
  <2>3. journal'[t] # Receipt
    BY <1>2 DEF Receipt, NoEntry
  <2>4. CASE journal[t].status = "active" /\ journal'[t] = Noted(t, run[t].at)
    BY <1>2, <2>4 DEF Noted, TypeOK, Entries
  <2>5. ASSUME NEW s \in {"recovery_required", "applied_pending_start"},
               journal'[t] = [journal[t] EXCEPT !.status = s]
        PROVE  FALSE
    BY <1>2, <2>5 DEF TypeOK, Entries
  <2>6. CASE Downloaded(t) /\ journal'[t] = [journal[t] EXCEPT !.phase = "extracting"]
    <3>1. journal[t].status = "active"
      BY <2>6 DEF Downloaded, TypeOK, AtWork, Awaits
    <3>2. journal'[t].status = journal[t].status
      BY <2>6 DEF TypeOK, Entries
    <3> QED BY <1>2, <3>1, <3>2
  <2> QED BY <1>2, <2>1, <2>2, <2>3, <2>4, <2>5, <2>6, EntryMoves
<1> QED BY <1>1, <1>2, SettlesClean DEF FailedOK

-----------------------------------------------------------------------------
(* What is clean stays so, where another transfer takes a step.            *)
LEMMA SameClean ==
    ASSUME NEW u \in Transfers, CleanOK(u), journal'[u] = journal[u], mem'[u] = mem[u], run'[u] = run[u],
           manager' = manager, backup'[u] = backup[u],
           \A n \in Attempts : Has(u, n)' <=> Has(u, n)
    PROVE  CleanOK(u)'
<1>1. Clean(u)' <=> Clean(u)
  BY DEF Clean, Attempts
<1> QED BY <1>1 DEF CleanOK, Traced

LEMMA SameFailed ==
    ASSUME NEW u \in Transfers, FailedOK(u), run'[u].attempt = run[u].attempt,
           run'[u].at = "settle" => run[u].at = "settle" /\ journal'[u] = journal[u],
           journal'[u].status = "error" => journal[u].status = "error" \/ mem[u].status = "error",
           mem'[u].status = "error" => journal[u].status = "error" \/ mem[u].status = "error",
           \A n \in Attempts : Has(u, n)' => Has(u, n)
    PROVE  FailedOK(u)'
<1>1. Absent(u) => Absent(u)'
  BY SameAbsent
<1> QED BY <1>1 DEF FailedOK

(* The reconciliation takes away at most the directory of the transfer it  *)
(* looks at.                                                               *)
LEMMA ReconcileLeaves ==
    ASSUME TypeOK, RunsOK, BooksOK, IdInv, NEW t \in Transfers, Reconcile(t), NEW u \in Transfers \ {t}
    PROVE  \A n \in Attempts : Has(u, n)' <=> Has(u, n)
<1>1. \A n \in Attempts : Has(u, n)' => Has(u, n)
  BY ReconcileMoves
<1>2. \A n \in Attempts : <<u, n>> # None
  BY IdentitiesAssumption DEF Attempts, Unpacked
<1>3. CASE UNCHANGED <<target, backup>>
  BY <1>3, HasStays
<1>4. CASE RestoreBackup(t) \/ Quarantine(t)
  <2>1. /\ target' = backup[t] /\ \A v \in Transfers \ {t} : backup'[v] = backup[v]
    BY <1>4 DEF RestoreBackup, Quarantine, TypeOK
  <2>2. target = None \/ \E n \in Attempts : target = <<t, n>>
    BY <1>4 DEF RestoreBackup, BackupOnly, Quarantine, InstalledOnly, IdInv, IdOK
  <2>3. \A n \in Attempts : target # <<u, n>>
    BY <1>2, <2>2
  <2>4. ASSUME NEW n \in Attempts, Has(u, n)
        PROVE  Has(u, n)'
    <3>1. PICK v \in Transfers : backup[v] = <<u, n>>
      BY <2>3, <2>4 DEF Has
    <3> QED BY <2>1, <3>1 DEF Has
  <2> QED BY <1>1, <2>4
<1> QED BY <1>3, <1>4 DEF Reconcile, ReconcileUntouched, ReconcileCommitted, RequireRecovery, folders

(* What it takes for settled is.                                           *)
LEMMA ReconcileClean ==
    ASSUME TypeOK, RunsOK, BooksOK, IdInv, NEW t \in Transfers, Reconcile(t), CleanOK(t)
    PROVE  CleanOK(t)'
<1>1. /\ UNCHANGED <<journal, run, manager>> /\ manager \in {"receipts", "pulls"} /\ mem[t].status = "active"
  BY ReconcileMoves
<1>2. ASSUME NEW s, Reconciles(t, s) PROVE mem'[t].status = s
  BY <1>2 DEF Reconciles, TypeOK, Entries
<1>3. CASE RestoreBackup(t) \/ Quarantine(t)
  BY <1>3 DEF RestoreBackup, Quarantine, TypeOK, CleanOK, Clean
<1>4. CASE ReconcileCommitted(t)
  <2>1. target' = target /\ \E n \in Attempts : target = <<t, n>>
    BY <1>4 DEF ReconcileCommitted, Committed, Looks, folders, IdInv, IdOK
  <2> QED BY <2>1 DEF CleanOK, Clean, Has, Attempts
<1>5. CASE ReconcileUntouched(t)
  <2>1. UNCHANGED <<target, backup>>
    BY <1>5 DEF ReconcileUntouched, folders
  <2>2. Clean(t)
    <3> SUFFICES ASSUME ~Clean(t) PROVE FALSE
      OBVIOUS
    <3>1. mem[t].phase \in MoveNoted /\ mem[t].backupId # None /\ backup[t] # None
      BY <1>1 DEF CleanOK, Traced, Clean
    <3> QED BY <1>5, <3>1 DEF ReconcileUntouched, NeverMoved, NotYetBackedUp, NotYetInstalled, MoveNoted, InstallNoted
  <2> QED BY <2>1, <2>2 DEF CleanOK, Clean, Has, Attempts
<1>6. CASE RequireRecovery(t)
  <2>1. UNCHANGED <<target, backup>> /\ mem'[t].status = "recovery_required"
    BY <1>2, <1>6 DEF RequireRecovery, folders
  <2>2. Clean(t)' <=> Clean(t)
    BY <2>1 DEF Clean, Has, Attempts
  <2> QED BY <1>1, <2>1, <2>2 DEF CleanOK, Traced
<1> QED BY <1>3, <1>4, <1>5, <1>6 DEF Reconcile

LEMMA ReconcileFailed ==
    ASSUME TypeOK, RunsOK, PlaceInv, BooksOK, IdInv, EarlyInv, NEW t \in Transfers, Reconcile(t), FailedOK(t)
    PROVE  FailedOK(t)'
<1>1. /\ UNCHANGED <<journal, run, listed>> /\ mem[t].status = "active" /\ run[t].at = "idle"
      /\ \A n \in Attempts : Has(t, n)' => Has(t, n)
  BY ReconcileMoves
<1>2. Absent(t) => Absent(t)'
  BY <1>1, SameAbsent
<1>3. ASSUME NEW s, Reconciles(t, s) PROVE mem'[t].status = s
  BY <1>3 DEF Reconciles, TypeOK, Entries
<1>4. \A n \in Attempts : <<t, n>> # None
  BY IdentitiesAssumption DEF Attempts, Unpacked
<1>5. mem[t].phase \in Early => Absent(t)
  BY <1>1 DEF EarlyInv, EarlyOK
<1>6. mem[t].phase \in InstallNoted => mem[t].installedId # None
  BY <1>1 DEF IdInv, IdOK
<1>7. ~listed => \A u \in Transfers : backup[u] = None
  BY DEF PlaceInv
<1>8. ASSUME mem'[t].status = "error"
      PROVE  Absent(t)'
  <2>1. CASE mem[t].phase \in Early
    BY <1>2, <1>5, <2>1
  <2>2. CASE mem[t].phase \notin Early
    <3>1. mem[t].phase # "extracting" /\ mem[t].phase \notin {"backing_up", "backup_created"}
      BY <2>2 DEF Early
    <3>2. CASE ReconcileUntouched(t)
      <4>1. NotYetInstalled(t) /\ UNCHANGED <<target, backup>>
        BY <3>1, <3>2 DEF ReconcileUntouched, NeverMoved, NotYetBackedUp, folders
      <4>2. target = None /\ ~listed
        BY <1>6, <3>1, <4>1 DEF NotYetInstalled, CannotLook, Looks, NeverMoved, InstallNoted
      <4>3. \A n \in Attempts : ~Has(t, n)
        BY <1>4, <1>7, <4>2 DEF Has
      <4> QED BY <1>1, <4>3 DEF Absent, Attempts
    <3>3. CASE RestoreBackup(t)
      <4>1. mem[t].phase = "installing" /\ target = None /\ ~CannotLook(t) /\ backup[t] # None
        BY <3>1, <3>3 DEF RestoreBackup, BackupOnly, BackupIsProven
      <4>2. ~listed
        BY <1>6, <3>1, <4>1 DEF CannotLook, Looks, NeverMoved, InstallNoted
      <4> QED BY <1>7, <4>1, <4>2
    <3>4. CASE Quarantine(t)
      <4>1. ~listed
        BY <3>1, <3>4 DEF Quarantine, InstalledOnly, Committed, Looks, NeverMoved
      <4>2. target' = None /\ \A u \in Transfers : backup'[u] = None
        BY <1>7, <3>4, <4>1 DEF Quarantine, TypeOK
      <4>3. \A n \in Attempts : ~Has(t, n)'
        BY <1>4, <4>2 DEF Has, Attempts
      <4> QED BY <4>3 DEF Absent, Attempts
    <3>5. CASE ReconcileCommitted(t) \/ RequireRecovery(t)
      BY <1>3, <1>8, <3>5 DEF ReconcileCommitted, RequireRecovery
    <3> QED BY <3>2, <3>3, <3>4, <3>5 DEF Reconcile
  <2> QED BY <2>1, <2>2
<1> QED BY <1>1, <1>2, <1>8 DEF FailedOK

LEMMA NextClean ==
    ASSUME IInv, PlaceInv, BooksOK, OnceInv, NotedInv, IdInv, EarlyInv, CleanInv, Next, IInv', NotedInv'
    PROVE  CleanInv'
<1> USE DEF IInv
<1> SUFFICES ASSUME troubles' <= 2, NEW u \in Transfers
             PROVE  CleanOK(u)' /\ FailedOK(u)'
  BY DEF CleanInv
<1>1. ASSUME troubles <= 2 PROVE \A t \in Transfers : CleanOK(t) /\ FailedOK(t)
  BY <1>1 DEF CleanInv
<1>2. ASSUME NEW t \in Transfers, Request(t) \/ Attempt(t)
      PROVE  CleanOK(u)' /\ FailedOK(u)'
  <2>1. troubles <= 2
    <3>1. CanFail \/ troubles' = troubles
      BY <1>2 DEF Request, ReceiveKnown, ReceiveNew, BeginPull, RetryStart, Attempt, Downloaded, Stops, Enter,
         Note, MoveOut, MoveIn, SaveManifest, Fails, FailsLate, UndoInstall, UndoBackup, GiveUp, Settle,
         SettleCommitted, Start, WriteReceipt, StartApplied
    <3> QED BY <3>1, TroublesGrow
  <2>2. CleanOK(u) /\ FailedOK(u)
    BY <1>1, <2>1
  <2>3. CASE u # t
    <3>1. /\ journal'[u] = journal[u] /\ run'[u] = run[u] /\ backup'[u] = backup[u]
          /\ \A n \in Attempts : Has(u, n)' <=> Has(u, n)
      BY <1>2, <2>3, OthersWait, OwnEntry, OthersStay
    <3>2. manager' = manager /\ mem' = mem
      BY <1>2, AttemptUp DEF recovery
    <3> QED BY <2>2, <3>1, <3>2, SameClean, SameFailed
  <2> QED BY <1>2, <2>2, <2>3, OwnClean, OwnFailed
<1>3. ASSUME NEW t \in Transfers, Reconcile(t)
      PROVE  CleanOK(u)' /\ FailedOK(u)'
  <2>1. troubles <= 2
    BY <1>3, ReconcileMoves, TroublesGrow
  <2>2. CleanOK(u) /\ FailedOK(u)
    BY <1>1, <2>1
  <2>3. CASE u # t
    <3>1. /\ UNCHANGED <<journal, run, manager>> /\ mem'[u] = mem[u] /\ backup'[u] = backup[u]
      BY <1>3, <2>3, ReconcileMoves
    <3>2. \A n \in Attempts : Has(u, n)' <=> Has(u, n)
      BY <1>3, <2>3, ReconcileLeaves
    <3> QED BY <2>2, <3>1, <3>2, SameClean, SameFailed
  <2> QED BY <1>3, <2>2, <2>3, ReconcileClean, ReconcileFailed
<1>4. ASSUME NEW t \in Transfers, Sender(t)
      PROVE  CleanOK(u)' /\ FailedOK(u)'
  <2>1. UNCHANGED <<journal, mem, manager, run, target, backup>> /\ (CanFail \/ troubles' = troubles)
    BY <1>4, SenderLeaves DEF recovery, folders
  <2>2. CleanOK(u) /\ FailedOK(u)
    BY <1>1, <2>1, TroublesGrow
  <2> QED BY <2>1, <2>2, HasStays, SameClean, SameFailed
<1>5. CASE UserSwitches \/ Crash \/ Boot \/ WriteReceipts \/ WritePulls
  <2>1. /\ UNCHANGED <<target, backup>> /\ run'[u].attempt = run[u].attempt
        /\ run'[u].at = "idle" \/ (UserSwitches /\ run'[u].at = run[u].at /\ run[u].at \in Quiet)
        /\ journal'[u] \in {journal[u], mem[u]} /\ mem'[u] \in {journal[u], mem[u], NoEntry}
        /\ CanFail \/ troubles' = troubles
    BY <1>5, ManagerMoves
  <2>2. CleanOK(u) /\ FailedOK(u)
    BY <1>1, <2>1, TroublesGrow
  <2>3. Clean(u)' <=> Clean(u)
    BY <2>1 DEF Clean, Has, Attempts
  <2>4. FailedOK(u)'
    <3>1. run'[u].at # "settle" /\ NoEntry.status # "error"
      BY <2>1 DEF Quiet, Awaits, NoEntry
    <3> QED BY <2>1, <2>2, <3>1, HasStays, SameFailed
  <2>5. CleanOK(u)'
    <3> SUFFICES ASSUME ~Clean(u), ~Clean(u)'
                 PROVE  CleanOK(u)'
      BY <2>3 DEF CleanOK
    <3>1. CASE UserSwitches
      <4>1. UNCHANGED <<manager, run, journal, mem>>
        BY <3>1 DEF UserSwitches, recovery
      <4> QED BY <2>2, <4>1 DEF CleanOK, Traced
    <3>2. CASE Crash
      BY <2>2, <3>2 DEF Crash, CleanOK, Traced
    <3>3. CASE Boot
      BY <2>2, <3>3 DEF Boot, CleanOK, Traced
    <3>4. CASE WriteReceipts
      <4>1. manager = "receipts" /\ manager' = "pulls" /\ mem' = mem
        BY <3>4 DEF WriteReceipts
      <4> QED BY <2>1, <2>2, <4>1 DEF CleanOK, Traced
    <3>5. CASE WritePulls
      <4>1. manager = "pulls" /\ manager' = "up" /\ journal' = mem /\ mem[u].status # "active"
        BY <3>5 DEF WritePulls, BooksOK
      <4> QED BY <2>2, <4>1 DEF CleanOK, Traced
    <3> QED BY <1>5, <3>1, <3>2, <3>3, <3>4, <3>5
  <2> QED BY <2>4, <2>5
<1> QED BY <1>2, <1>3, <1>4, <1>5 DEF Next

-----------------------------------------------------------------------------
VerdictInv == PlacesInv /\ HonestInv /\ IdInv /\ EarlyInv /\ CleanInv

LEMMA InitVerdicts == Init => VerdictInv
<1> SUFFICES ASSUME Init PROVE VerdictInv
  OBVIOUS
<1>1. PlacesInv
  BY InitPlaces
<1>2. \A t \in Transfers :
         /\ backup[t] = None /\ journal[t] = NoEntry /\ mem[t] = NoEntry
         /\ run[t].at = "idle" /\ sender[t].reply = "none"
  BY DEF Init
<1>3. NoEntry.status = "none" /\ NoEntry.installedId = None
  BY DEF NoEntry
<1>4. "idle" \notin Landing
  BY DEF Landing, After
<1>5. HonestInv
  BY <1>2, <1>3, <1>4 DEF HonestInv, HonestOK, ProvesCommit
<1>6. IdInv
  BY <1>2, <1>3 DEF IdInv, IdOK
<1>7. EarlyInv
  BY <1>2, <1>3 DEF EarlyInv, EarlyOK
<1>8. CleanInv
  BY <1>2, <1>3 DEF CleanInv, CleanOK, FailedOK, Clean
<1> QED BY <1>1, <1>5, <1>6, <1>7, <1>8 DEF VerdictInv

LEMMA StepVerdicts == VerdictInv /\ [Next]_vars => VerdictInv'
<1> SUFFICES ASSUME VerdictInv, [Next]_vars
             PROVE  VerdictInv'
  OBVIOUS
<1>1. PlacesInv'
  BY StepPlaces DEF VerdictInv
<1>2. CASE Next
  <2>1. HonestInv' /\ IdInv'
    BY <1>2, NextHonest, NextId DEF VerdictInv, PlacesInv
  <2>2. EarlyInv'
    BY <1>1, <1>2, NextEarly DEF VerdictInv, PlacesInv
  <2>3. CleanInv'
    BY <1>1, <1>2, NextClean DEF VerdictInv, PlacesInv
  <2> QED BY <1>1, <2>1, <2>2, <2>3 DEF VerdictInv
<1>3. CASE UNCHANGED vars
  <2>1. UNCHANGED <<target, backup, listed, journal, run, manager, mem, sender, troubles>>
    BY <1>3 DEF vars, folders, recovery
  <2>2. HonestInv'
    BY <2>1 DEF VerdictInv, HonestInv, HonestOK, Landed, Kept, Backups, Uncommitted, Stage, Attempts
  <2>3. IdInv'
    BY <2>1 DEF VerdictInv, IdInv, IdOK, Stage, Attempts
  <2>4. \A t : Absent(t)' <=> Absent(t)
    BY <2>1 DEF Absent, Attempts, Has
  <2>5. EarlyInv'
    BY <2>1, <2>4 DEF VerdictInv, EarlyInv, EarlyOK
  <2>6. \A t : Clean(t)' <=> Clean(t)
    BY <2>1 DEF Clean, Attempts, Has
  <2>7. CleanInv'
    BY <2>1, <2>4, <2>6 DEF VerdictInv, CleanInv, CleanOK, FailedOK, Traced
  <2> QED BY <1>1, <2>2, <2>3, <2>5, <2>7 DEF VerdictInv
<1> QED BY <1>2, <1>3

(* A success is told of what is on disk.                                   *)
LEMMA SuccessTrue ==
    ASSUME VerdictInv, VerdictInv', Next, NEW t \in Transfers,
           \/ Verdict(t, {"complete", "applied_pending_start"})
           \/ sender[t].saved # "complete" /\ sender'[t].saved = "complete"
    PROVE  Installs(t)' # {}
<1> USE DEF VerdictInv, PlacesInv, IInv
<1>1. Landed(t)' => Installs(t)' # {}
  <2> SUFFICES ASSUME NEW n \in Attempts, <<t, n>> \in Kept'
               PROVE  n \in Installs(t)'
    BY DEF Landed, Attempts
  <2>1. Kept' \subseteq ({target} \cup Backups)'
    BY DEF Kept
  <2> QED BY <2>1 DEF Installs, Attempts
<1>2. CASE Verdict(t, {"complete", "applied_pending_start"})
  BY <1>1, <1>2 DEF Verdict, HonestInv, HonestOK, ProvesCommit
<1>3. CASE sender[t].saved # "complete" /\ sender'[t].saved = "complete"
  <2>1. ASSUME NEW u \in Transfers, Request(u) \/ Attempt(u)
        PROVE  FALSE
    <3>1. sender \in [Transfers -> SenderStates]
      BY DEF TypeOK, SenderStates
    <3>2. \A answer : Arrives(u, answer) => sender'[t].saved = sender[t].saved
      BY <3>1 DEF Arrives, SenderStates
    <3>3. \A answer : Reply(u, answer) => sender'[t].saved = sender[t].saved
      BY <3>1 DEF Reply, SenderStates
    <3>4. \/ sender' = sender \/ \E answer : Arrives(u, answer) \/ Reply(u, answer)
      BY <2>1 DEF Request, ReceiveKnown, ReceiveNew, BeginPull, RetryStart, Attempt, Downloaded, Stops, Enter,
         Note, MoveOut, MoveIn, SaveManifest, Fails, FailsLate, UndoInstall, UndoBackup, GiveUp, Settle,
         SettleCommitted, Start, WriteReceipt, StartApplied
    <3> QED BY <1>3, <3>2, <3>3, <3>4
  <2>2. ASSUME NEW u \in Transfers, Reconcile(u)
        PROVE  FALSE
    BY <1>3, <2>2, ReconcileMoves
  <2>3. ASSUME UserSwitches \/ Crash \/ Boot \/ WriteReceipts \/ WritePulls
        PROVE  FALSE
    BY <1>3, <2>3, ManagerMoves
  <2>4. PICK u \in Transfers : Sender(u)
    BY <2>1, <2>2, <2>3 DEF Next
  <2>5. sender[t].reply = "ok" \/ journal[t].status \in ProvesCommit
    BY <1>3, <2>4, SenderLearns
  <2>6. Landed(t)
    BY <2>5 DEF HonestInv, HonestOK
  <2> QED BY <1>1, <2>6, LandedStays
<1> QED BY <1>2, <1>3

(* And a failure of what is not.                                           *)
LEMMA FailureSteps ==
    ASSUME TypeOK, RunsOK, BooksOK, Next, NEW t \in Transfers, Verdict(t, {"error"})
    PROVE  run'[t].attempt = run[t].attempt /\ troubles' = troubles
<1>1. journal'[t].status = "error" /\ journal'[t] # journal[t]
  BY DEF Verdict
<1>2. ASSUME NEW u \in Transfers, Request(u) \/ Attempt(u)
      PROVE  run'[t].attempt = run[t].attempt /\ troubles' = troubles
  <2>1. u = t
    BY <1>1, <1>2, OwnEntry
  <2>2. journal'[t] # Receipt
    BY <1>1 DEF Receipt, NoEntry
  <2>3. ASSUME NEW s \in {"recovery_required", "applied_pending_start"},
               journal'[t] = [journal[t] EXCEPT !.status = s]
        PROVE  FALSE
    BY <1>1, <2>3 DEF TypeOK, Entries
  <2>4. ASSUME journal[t].status = "active", journal'[t] = Noted(t, run[t].at)
        PROVE  FALSE
    BY <1>1, <2>4 DEF Noted, TypeOK, Entries
  <2>5. ASSUME journal'[t] = [journal[t] EXCEPT !.phase = "extracting"]
        PROVE  FALSE
    <3>1. journal'[t].status = journal[t].status
      BY <2>5 DEF TypeOK, Entries
    <3> QED BY <3>1 DEF Verdict
  <2>6. Settle(t)
    BY <1>1, <1>2, <2>1, <2>2, <2>3, <2>4, <2>5, EntryMoves
  <2> QED BY <1>1, <2>6, Going DEF Settle
<1>3. ASSUME NEW u \in Transfers, Reconcile(u) PROVE FALSE
  BY <1>1, <1>3, ReconcileMoves
<1>4. ASSUME NEW u \in Transfers, Sender(u) PROVE FALSE
  BY <1>1, <1>4, SenderLeaves
<1>5. CASE UserSwitches \/ Crash \/ Boot \/ WriteReceipts \/ WritePulls
  <2>1. run'[t].attempt = run[t].attempt
    BY <1>5, ManagerMoves
  <2> QED BY <1>1, <1>5, <2>1 DEF UserSwitches, Crash, Boot, WriteReceipts, WritePulls
<1> QED BY <1>2, <1>3, <1>4, <1>5 DEF Next

LEMMA FailureTrue ==
    ASSUME VerdictInv, VerdictInv', Next, NEW t \in Transfers, Verdict(t, {"error"}), troubles <= 2
    PROVE  /\ run[t].attempt \notin Installs(t)'
           /\ Installs(t)' = {} => backup'[t] = None
<1> USE DEF VerdictInv, PlacesInv, IInv
<1>1. run'[t].attempt = run[t].attempt /\ troubles' <= 2
  BY FailureSteps
<1>2. CleanOK(t)' /\ FailedOK(t)'
  BY <1>1 DEF CleanInv
<1>3. journal'[t].status = "error"
  BY DEF Verdict
<1>4. \A n \in Attempts : n \in Installs(t)' <=> Has(t, n)'
  BY DEF Installs, Backups, Has, Attempts
<1>5. Absent(t)' /\ Clean(t)'
  BY <1>2, <1>3 DEF FailedOK, CleanOK, Traced
<1>6. Installs(t)' \subseteq Attempts
  BY DEF Installs, Attempts
<1>7. run[t].attempt \notin Installs(t)'
  BY <1>1, <1>4, <1>5, <1>6 DEF Absent, Attempts
<1>8. Installs(t)' = {} => backup'[t] = None
  BY <1>4, <1>5 DEF Clean, Attempts
<1> QED BY <1>7, <1>8

(* A verdict is true of the disk when it is given, whichever of the two    *)
(* managers gives it and however often the transfer is retried             *)
(* (_pull_journal_update, _stage_and_install, _reconcile_install_journal,  *)
(* _reconcile_terminal_state_with_receiver).                               *)
THEOREM VerdictsHold == Spec => VerdictsAreTrue
<1>1. VerdictInv /\ VerdictInv' /\ [Next]_vars =>
        [\A t \in Transfers :
           /\ \/ Verdict(t, {"complete", "applied_pending_start"})
              \/ sender[t].saved # "complete" /\ sender'[t].saved = "complete"
              => Installs(t)' # {}
           /\ Verdict(t, {"error"}) /\ troubles <= 2 =>
                 /\ run[t].attempt \notin Installs(t)'
                 /\ Installs(t)' = {} => backup'[t] = None]_vars
  BY SuccessTrue, FailureTrue
<1> QED BY <1>1, InitVerdicts, StepVerdicts, PTL DEF Spec, VerdictsAreTrue
=============================================================================
