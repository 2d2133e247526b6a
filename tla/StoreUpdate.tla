------------------------------ MODULE StoreUpdate ------------------------------
(***************************************************************************)
(* How the application updates itself: UpdateService, over Electron's      *)
(* autoUpdater and its feed.  A version stands for its package.            *)
(*                                                                         *)
(* The service asks the feed itself; download makes the autoUpdater ask it *)
(* again, and stage what it finds.  An attempt, once begun, cannot be      *)
(* stopped: to cancel is to set one flag, which the next download clears,  *)
(* and the events do not say which attempt they are of.  restart writes a  *)
(* marker and then quits to install.  An action ends where the service     *)
(* awaits the network or a file; IPC calls may come at any time.           *)
(***************************************************************************)
EXTENDS FiniteSets, Naturals

CONSTANTS Checks,         \* the calls of check that may overlap
          MaxRelease,     \* the last release of the feed
          MaxDownloads,   \* bound on attempts of the autoUpdater at a time
          UpdateFaults    \* bound on crashes and failing writes

ASSUME StoreUpdateAssumption ==
    /\ MaxRelease \in Nat \ {0} /\ MaxDownloads \in Nat /\ UpdateFaults \in Nat
    /\ "none" \notin Checks

VARIABLES
    present,     \* app.getVersion()
    feed,        \* the newest release, in RELEASES
    checking,    \* what each call of check has got to
    current,     \* the call that checkAbort belongs to
    state,       \* UpdateService.state
    cancelled,   \* downloadCancelled
    downloads,   \* attempts of the autoUpdater that have not ended
    takenBack,   \* those that were cancelled (for the properties)
    lastWord,    \* what the user said last of it (for the properties)
    staged,      \* the version it has downloaded
    armed,       \* restartAuthorized
    restart,     \* how far restart has got, and with which version
    marker,      \* the version in update-pending.v1.json
    restoring,   \* how far restorePending has got
    updateFaults

checkVars == <<checking, current>>
attemptVars == <<cancelled, downloads, takenBack, lastWord>>
restartVars == <<armed, restart, marker, restoring>>
updateVars == <<present, feed, checking, current, state, attemptVars,
                staged, armed, restart, marker, restoring, updateFaults>>
-----------------------------------------------------------------------------
Releases == 1..MaxRelease
NoVersion == 0
NoCheck == "none"
Is(status, version) == [status |-> status, version |-> version]
Idle == Is("idle", NoVersion)
Failed == Is("failed", NoVersion)
NoRestart == [step |-> "no", version |-> NoVersion]

(* packageMetadata is of these states only. *)
HasPackage == state.status \in {"available", "downloading", "ready"}

UpdateFault == updateFaults < UpdateFaults /\ updateFaults' = updateFaults + 1

UpdateInit ==
    /\ present = 1
    /\ feed \in Releases
    /\ checking = [c \in Checks |-> "idle"]
    /\ current = NoCheck
    /\ state = Idle
    /\ cancelled = FALSE
    /\ downloads = 0
    /\ takenBack = 0
    /\ lastWord = "none"
    /\ staged = NoVersion
    /\ armed = FALSE
    /\ restart = NoRestart
    /\ marker \in 0..MaxRelease
    /\ restoring = "reading"
    /\ updateFaults = 0
-----------------------------------------------------------------------------
NewRelease ==
    /\ feed < MaxRelease
    /\ feed' = feed + 1
    /\ UNCHANGED <<present, checkVars, state, attemptVars, staged,
                   restartVars, updateFaults>>

(* check aborts the check before, and does nothing once a download runs.   *)
BeginCheck(c) ==
    /\ checking[c] = "idle"
    /\ state.status \notin {"downloading", "ready"}
    /\ checking' = [d \in Checks |-> CASE d = c -> "fetching"
                                        [] d = current -> "aborted"
                                        [] OTHER -> checking[d]]
    /\ current' = c
    /\ state' = Is("checking", NoVersion)
    /\ UNCHANGED <<present, feed, attemptVars, staged, restartVars,
                   updateFaults>>

(* Mutant: only a check that is out of date expires. *)
CheckExpiresLate(c) ==
    /\ current # c
    /\ checking[c] = "fetching"
    /\ checking' = [checking EXCEPT ![c] = "aborted"]
    /\ UNCHANGED <<present, feed, current, state, attemptVars, staged,
                   restartVars, updateFaults>>

(* Its timer of fifteen seconds. *)
CheckExpires(c) ==
    /\ checking[c] = "fetching"
    /\ checking' = [checking EXCEPT ![c] = "aborted"]
    /\ UNCHANGED <<present, feed, current, state, attemptVars, staged,
                   restartVars, updateFaults>>

(* The feed answers, or the request fails, or was aborted; what a check    *)
(* that is not the present one has found is dropped.                       *)
Answers == {Failed, IF feed > present THEN Is("available", feed)
                    ELSE Is("up-to-date", NoVersion)}

CheckEnds(c) ==
    /\ checking[c] # "idle"
    /\ checking' = [checking EXCEPT ![c] = "idle"]
    /\ IF current = c
       THEN /\ current' = NoCheck
            /\ IF checking[c] = "aborted" THEN state' = Idle
               ELSE state' \in Answers
       ELSE UNCHANGED <<current, state>>
    /\ UNCHANGED <<present, feed, attemptVars, staged, restartVars,
                   updateFaults>>

(* cancelDownload, which cancels a check as well. *)
CancelDownload ==
    /\ checking' = [c \in Checks |-> IF c = current THEN "aborted"
                                     ELSE checking[c]]
    /\ \/ /\ state.status = "checking"
          /\ state' = Idle
          /\ UNCHANGED attemptVars
       \/ /\ state.status = "downloading"
          /\ state' = Is("available", state.version)
          /\ cancelled' = TRUE
          /\ downloads' = 0 /\ takenBack' = takenBack + downloads
          /\ lastWord' = "cancel"
       \/ /\ state.status \notin {"checking", "downloading"}
          /\ UNCHANGED <<state, attemptVars>>
    /\ UNCHANGED <<present, feed, current, staged, restartVars, updateFaults>>

(* download.  The autoUpdater may throw; what it does not start because it *)
(* runs already, it reports as an error like another (UpdaterFails).       *)
DownloadUpdate ==
    /\ state.status = "available"
    /\ cancelled' = FALSE
    /\ lastWord' = "download"
    /\ \/ /\ downloads + takenBack < MaxDownloads
          /\ downloads' = downloads + 1
          /\ state' = Is("downloading", state.version)
       \/ /\ state' = Failed
          /\ UNCHANGED downloads
    /\ UNCHANGED <<present, feed, checkVars, takenBack, staged, restartVars,
                   updateFaults>>

(* An attempt ends, of whichever call of download, cancelled or not. *)
AttemptEnds ==
    /\ \/ downloads > 0 /\ downloads' = downloads - 1 /\ UNCHANGED takenBack
       \/ takenBack > 0 /\ takenBack' = takenBack - 1 /\ UNCHANGED downloads
    /\ UNCHANGED <<cancelled, lastWord>>

(* Mutant: the cancellation is not looked at. *)
DownloadedAnyway ==
    /\ AttemptEnds
    /\ staged' \in {v \in Releases : present < v /\ v <= feed}
    /\ state' = IF ~HasPackage THEN Failed ELSE Is("ready", staged')
    /\ UNCHANGED <<present, feed, checkVars, restartVars, updateFaults>>

(* It ends with update-downloaded, ... *)
Downloaded ==
    /\ AttemptEnds
    /\ staged' \in {v \in Releases : present < v /\ v <= feed}
    /\ state' = IF ~HasPackage \/ cancelled THEN Failed
                ELSE Is("ready", IF state.status = "downloading"
                                 THEN state.version ELSE staged')
    /\ UNCHANGED <<present, feed, checkVars, restartVars, updateFaults>>

(* ... update-not-available, ... *)
NotAvailable ==
    /\ AttemptEnds
    /\ state' = IF cancelled THEN state ELSE Is("up-to-date", NoVersion)
    /\ UNCHANGED <<present, feed, checkVars, staged, restartVars, updateFaults>>

(* ... or error. *)
UpdaterFails ==
    /\ AttemptEnds
    /\ state' = Failed
    /\ UNCHANGED <<present, feed, checkVars, staged, restartVars, updateFaults>>
-----------------------------------------------------------------------------
(* restart, up to its writing of the marker. *)
RestartToUpdate ==
    /\ state.status = "ready"
    /\ ~armed
    /\ armed' = TRUE
    /\ restart' = [step |-> "writing", version |-> state.version]
    /\ UNCHANGED <<present, feed, checkVars, state, attemptVars,
                   staged, marker, restoring, updateFaults>>

MarkerWritten ==
    /\ restart.step = "writing"
    /\ marker' = restart.version
    /\ restart' = [restart EXCEPT !.step = "quitting"]
    /\ UNCHANGED <<present, feed, checkVars, state, attemptVars,
                   staged, armed, restoring, updateFaults>>

MarkerFails ==
    /\ restart.step = "writing"
    /\ UpdateFault
    /\ armed' = FALSE
    /\ restart' = NoRestart
    /\ state' = Failed
    /\ UNCHANGED <<present, feed, checkVars, attemptVars, staged,
                   marker, restoring>>

(* restorePending: the marker of the version that runs is cleared, that of *)
(* another, if it is not a day old, is a failed update.                    *)
RestorePending ==
    /\ restoring = "reading"
    /\ restoring' = IF marker = present THEN "clearing" ELSE "done"
    /\ \/ /\ marker \notin {NoVersion, present}
          /\ state' = IF state = Idle THEN Failed ELSE state
       \/ UNCHANGED state
    /\ UNCHANGED <<present, feed, checkVars, attemptVars, staged,
                   armed, restart, marker, updateFaults>>

ClearMarker ==
    /\ restoring = "clearing"
    /\ restoring' = "done"
    /\ \/ marker' = NoVersion /\ UNCHANGED updateFaults
       \/ UpdateFault /\ UNCHANGED marker
    /\ UNCHANGED <<present, feed, checkVars, state, attemptVars,
                   staged, armed, restart>>

(* The application ends and starts again: in the version that is staged,   *)
(* which quitAndInstall and the next start both take, or, rolled back, in  *)
(* the same.                                                               *)
Again ==
    /\ present' \in {present} \cup ({staged} \ {NoVersion})
    /\ checking' = [c \in Checks |-> "idle"]
    /\ current' = NoCheck
    /\ state' = Idle
    /\ cancelled' = FALSE
    /\ downloads' = 0
    /\ takenBack' = 0
    /\ lastWord' = "none"
    /\ staged' = NoVersion
    /\ armed' = FALSE
    /\ restart' = NoRestart
    /\ restoring' = "reading"
    /\ UNCHANGED <<feed, marker>>

QuitAndInstall ==
    /\ restart.step = "quitting"
    /\ Again
    /\ UNCHANGED updateFaults

UpdateCrash == UpdateFault /\ Again

UpdateNext ==
    \/ NewRelease \/ CancelDownload \/ DownloadUpdate
    \/ \E c \in Checks : BeginCheck(c) \/ CheckExpires(c) \/ CheckEnds(c)
    \/ Downloaded \/ NotAvailable \/ UpdaterFails
    \/ RestartToUpdate \/ MarkerWritten \/ MarkerFails \/ QuitAndInstall
    \/ RestorePending \/ ClearMarker \/ UpdateCrash

(* A timer fires, and a request that is aborted or answered comes to an    *)
(* end; whether the feed answers at all is not taken for granted.          *)
CheckFairness ==
    \A c \in Checks : /\ WF_updateVars(CheckExpires(c))
                      /\ WF_updateVars(checking[c] = "aborted" /\ CheckEnds(c))

UpdateSpec == UpdateInit /\ [][UpdateNext]_updateVars /\ CheckFairness
-----------------------------------------------------------------------------
UpdateTypeOK ==
    /\ present \in Releases /\ feed \in Releases
    /\ checking \in [Checks -> {"idle", "fetching", "aborted"}]
    /\ current \in Checks \cup {NoCheck}
    /\ state \in [status: {"idle", "checking", "up-to-date", "available",
                           "downloading", "ready", "failed"},
                  version: 0..MaxRelease]
    /\ cancelled \in BOOLEAN /\ armed \in BOOLEAN
    /\ downloads \in 0..MaxDownloads
    /\ takenBack \in 0..MaxDownloads
    /\ lastWord \in {"none", "download", "cancel"}
    /\ staged \in 0..MaxRelease /\ marker \in 0..MaxRelease
    /\ restart \in [step: {"no", "writing", "quitting"}, version: 0..MaxRelease]
    /\ restoring \in {"reading", "clearing", "done"}
    /\ updateFaults \in 0..UpdateFaults

(* What is offered, downloaded or ready is newer than what runs.  An update *)
(* is ready only once a version is staged, and only if the user's last word *)
(* of it was to download it and not to take the download back, however late *)
(* the events of the attempts come; but the attempt that made it ready may  *)
(* be one that was taken back before that word (see TakenBackIsLost).       *)
(* While a check is shown there is one, and none is under way that could    *)
(* replace a download by its own answer (update-service.ts:104-121, 128,    *)
(* 137-150).  Types are part of it.                                         *)
ReadyIsWanted ==
    /\ UpdateTypeOK
    /\ HasPackage => state.version > present /\ current = NoCheck
    /\ state.status = "checking" => current # NoCheck
    /\ state.status = "ready" => staged # NoVersion /\ lastWord = "download"
    /\ \A c \in Checks : checking[c] = "fetching" => current = c

(* A check ends, even if the feed never answers (update-service.ts:132),   *)
(* so that with ReadyIsWanted no check is shown for ever.                  *)
CheckingEnds ==
    \A c \in Checks : checking[c] # "idle" ~> checking[c] = "idle"

(* Not true (see the README):                                              *)
(* "The persistent corner banner shows the exact version"                  *)
(* (app-store-self-updater.md:15), and what is ready is what is installed. *)
ReadyIsExact == state.status = "ready" => state.version = staged

(* Nor is this: that what comes of an attempt that was taken back is lost,  *)
(* unless the version is being downloaded again.  A later download clears   *)
(* the flag for the first attempt as well; when the later one has failed,   *)
(* and a check has offered the version again, the first one makes it ready  *)
(* while nothing is shown as being downloaded.                              *)
TakenBackIsLost ==
    [][state.status \notin {"downloading", "ready"} /\ state'.status = "ready"
          => takenBack' = takenBack]_updateVars

(***************************************************************************)
(* Inductive invariant                                                     *)
(***************************************************************************)

(* The flag is the user's last word, and no attempt runs without one. *)
WordInv ==
    /\ cancelled <=> lastWord = "cancel"
    /\ downloads + takenBack > 0 => lastWord # "none"
    /\ downloads + takenBack <= MaxDownloads

UpdateInv == ReadyIsWanted /\ WordInv
=============================================================================
