---------------------------- MODULE GuestProtocol ----------------------------
(***************************************************************************)
(* One disposable guest and its host: WindowsSandboxGuestTransport, the    *)
(* record that WindowsSandboxProtocolPeer keeps of the job, and the frames *)
(* that come out of the guest.  A guest runs a reviewed source build, or   *)
(* the lifecycle of an installer (executeLifecycle).                       *)
(*                                                                         *)
(* Who holds the guest's token may send any frame at any time, as          *)
(* repository code does that runs inside; a frame refused changes nothing, *)
(* and nothing stands for it.  GuestReads is what the bootstrap that the   *)
(* store ships makes of a plan.  Evidence in a receipt is not told apart.  *)
(* SourceJobs has the jobs, their limits and the crash of the store.       *)
(***************************************************************************)
EXTENDS Naturals, Sequences

CONSTANTS Files,        \* the outputs a guest may transfer
          FinalOutputs, \* those that the recipe reviewed as final
          GuestFaults   \* bound on what the host fails to do

ASSUME FinalOutputsAssumption == FinalOutputs \subseteq Files
ASSUME GuestFaultsAssumption == GuestFaults \in Nat

VARIABLES
    mode,    \* "source" or "lifecycle"
    host,    \* where the transport's calls for this job are
    peer,    \* ProtocolPeerJob
    guest,   \* the Windows Sandbox process tree and the bootstrap inside
    wsb,     \* is there a .wsb file
    handle,  \* is the job in WindowsSandboxGuestTransport.guests
    told,    \* the outputs of the result that complete was resolved with
    good,    \* did execute, or the wait for the final receipt, succeed
    proof,   \* was a disposal receipt given
    guestFaults

guestVars == <<mode, host, peer, guest, wsb, handle, told, good, proof,
               guestFaults>>
-----------------------------------------------------------------------------
ReceiptStages == <<"installer-bytes", "install", "launch", "uninstall", "absence",
            "disposal">>

Fresh == [registered |-> TRUE, aborted |-> FALSE, token |-> FALSE,
          hello |-> "pending", complete |-> "pending", final |-> "pending",
          plan |-> "none", lifecyclePlan |-> FALSE, receipts |-> <<>>,
          manifest |-> FALSE, outputs |-> {},
          treeStopped |-> FALSE, guestDeleted |-> FALSE]
Unknown == [Fresh EXCEPT !.registered = FALSE]

Inside == {"booting", "greeted", "taken", "refused"}

GuestFault == guestFaults < GuestFaults /\ guestFaults' = guestFaults + 1

(* A promise is settled once. *)
Settle(promise, as) == IF promise = "pending" THEN as ELSE promise

(* The peer's abort: the record stays. *)
AbortPeer ==
    peer' = IF ~peer.registered \/ peer.aborted THEN peer
            ELSE [peer EXCEPT !.aborted = TRUE,
                              !.hello = Settle(@, "rejected"),
                              !.complete = Settle(@, "rejected"),
                              !.final = Settle(@, "rejected")]

GuestInit ==
    /\ mode \in {"source", "lifecycle"}
    /\ host = "idle"
    /\ peer = Unknown
    /\ guest = "off"
    /\ wsb = FALSE
    /\ handle = FALSE
    /\ told = {}
    /\ good = FALSE
    /\ proof = FALSE
    /\ guestFaults = 0
-----------------------------------------------------------------------------
(* launchGuest *)
LaunchGuest ==
    /\ host = "idle"
    /\ host' = "greeting"
    /\ peer' = Fresh
    /\ guest' = "booting"
    /\ wsb' = TRUE
    /\ handle' = TRUE
    /\ UNCHANGED <<mode, told, good, proof, guestFaults>>

(* The signal was raised before the sandbox is spawned: the launch awaits  *)
(* its own stop() before the guest is registered, and ...                  *)
LaunchCancelled ==
    /\ host = "idle"
    /\ host' = "halting"
    /\ peer' = Fresh
    /\ guest' = "booting"
    /\ wsb' = TRUE
    /\ UNCHANGED <<mode, handle, told, good, proof, guestFaults>>

(* ... does not look at what that stop() proved.  The wait for the hello   *)
(* rejects at once, and attest aborts the guest that is now registered.    *)
Halt ==
    /\ host = "halting"
    /\ \/ guest' = "gone" /\ UNCHANGED guestFaults
       \/ GuestFault /\ UNCHANGED guest
    /\ handle' = TRUE
    /\ host' = "aborting"
    /\ AbortPeer
    /\ UNCHANGED <<mode, wsb, told, good, proof>>

(* The .wsb file cannot be written, and the peer keeps its record; or the  *)
(* sandbox does not start, and the file may stay.                          *)
LaunchGuestFails ==
    /\ host = "idle"
    /\ GuestFault
    /\ host' = "failed"
    /\ \/ peer' = Fresh /\ UNCHANGED wsb
       \/ /\ peer' = [Fresh EXCEPT !.aborted = TRUE, !.hello = "rejected",
                             !.complete = "rejected", !.final = "rejected"]
          /\ wsb' \in BOOLEAN
    /\ UNCHANGED <<mode, guest, handle, told, good, proof>>

(* attest has its hello; the plan follows.  execute awaits the endpoint    *)
(* before it publishes a plan for the guest.                               *)
Admit ==
    /\ host = "greeting"
    /\ peer.hello = "resolved"
    /\ \/ /\ mode = "lifecycle"
          /\ peer' = [peer EXCEPT !.lifecyclePlan = TRUE]
          /\ host' = "awaiting"
       \/ /\ mode = "source"
          /\ peer' = [peer EXCEPT !.plan = "bound"]
          /\ host' = "starting"
    /\ UNCHANGED <<mode, guest, wsb, handle, told, good, proof, guestFaults>>

PublishPlan ==
    /\ host = "starting"
    /\ host' = "awaiting"
    /\ peer' = [peer EXCEPT !.plan = "published"]
    /\ UNCHANGED <<mode, guest, wsb, handle, told, good, proof, guestFaults>>

(* attest fails, times out or is cancelled, or its answer is not accepted. *)
NotAdmitted ==
    /\ host = "greeting"
    /\ host' = "aborting"
    /\ AbortPeer
    /\ UNCHANGED <<mode, guest, wsb, handle, told, good, proof, guestFaults>>

(* What the host waits for has come ... *)
Arrived == IF mode = "source" THEN peer.complete = "resolved"
           ELSE peer.final = "resolved"

Answered ==
    /\ host = "awaiting"
    /\ Arrived
    /\ good' = TRUE
    /\ host' = "stopping"
    /\ UNCHANGED <<mode, peer, guest, wsb, handle, told, proof, guestFaults>>

(* ... or not in time.  A build is disposed of all the same, a lifecycle   *)
(* is aborted.                                                             *)
NotAnswered ==
    /\ host \in {"starting", "awaiting"}
    /\ \/ mode = "source" /\ host' = "stopping" /\ UNCHANGED peer
       \/ mode = "lifecycle" /\ host' = "aborting" /\ AbortPeer
    /\ UNCHANGED <<mode, guest, wsb, handle, told, good, proof, guestFaults>>
-----------------------------------------------------------------------------
(* dispose *)
DisposeFails ==
    /\ \/ mode = "source" /\ host' = "failed" /\ UNCHANGED peer
       \/ mode = "lifecycle" /\ host' = "aborting" /\ AbortPeer
    /\ UNCHANGED <<mode, wsb, handle, told, good, proof>>

(* Mutant: whatever the process tree's end is, it is marked. *)
StopUnprovenMarked ==
    /\ host = "stopping"
    /\ GuestFault
    /\ peer' = [peer EXCEPT !.treeStopped = TRUE]
    /\ host' = "removing"
    /\ UNCHANGED <<mode, guest, wsb, handle, told, good, proof>>

Stop ==
    /\ host = "stopping"
    /\ guest' = "gone"
    /\ peer' = [peer EXCEPT !.treeStopped = TRUE]
    /\ host' = "removing"
    /\ UNCHANGED <<mode, wsb, handle, told, good, proof, guestFaults>>

StopUnproven ==
    /\ host = "stopping"
    /\ GuestFault
    /\ guest' \in {guest, "gone"}
    /\ DisposeFails

(* The file goes, and the peer gives its receipt and drops its record. *)
Disposable == /\ peer.registered /\ ~peer.aborted /\ peer.treeStopped
              /\ peer.lifecyclePlan => peer.final = "resolved"

RemoveConfig ==
    /\ host = "removing"
    /\ Disposable
    /\ wsb' = FALSE
    /\ peer' = [peer EXCEPT !.guestDeleted = TRUE, !.registered = FALSE]
    /\ proof' = TRUE
    /\ handle' = FALSE
    /\ host' = IF good THEN "ok" ELSE "failed"
    /\ UNCHANGED <<mode, guest, told, good, guestFaults>>

RemoveConfigFails ==
    /\ host = "removing"
    /\ GuestFault
    /\ UNCHANGED guest
    /\ DisposeFails

(* abort, of the transport *)
AbortStops ==
    /\ host = "aborting"
    /\ guest' = "gone"
    /\ host' = "clearing"
    /\ UNCHANGED <<mode, peer, wsb, handle, told, good, proof, guestFaults>>

AbortClears ==
    /\ host = "clearing"
    /\ wsb' = FALSE
    /\ peer' = [peer EXCEPT !.treeStopped = TRUE, !.guestDeleted = TRUE]
    /\ handle' = FALSE
    /\ host' = "failed"
    /\ UNCHANGED <<mode, guest, told, good, proof, guestFaults>>

(* The guest, its handle and its file are retained. *)
AbortFails ==
    /\ host \in {"aborting", "clearing"}
    /\ GuestFault
    /\ host' = "failed"
    /\ UNCHANGED <<mode, peer, guest, wsb, handle, told, good, proof>>

(* executeLifecycle aborts once more if attest's own abort has failed. *)
AbortAgain ==
    /\ host = "failed"
    /\ mode = "lifecycle" /\ ~peer.lifecyclePlan /\ handle
    /\ host' = "aborting"
    /\ AbortPeer
    /\ UNCHANGED <<mode, guest, wsb, handle, told, good, proof, guestFaults>>
-----------------------------------------------------------------------------
(* Frames.  One that was sent may be handled when the guest is gone.       *)
Sent == peer.registered /\ guest # "off"

Frame == /\ Sent
         /\ UNCHANGED <<mode, host, wsb, handle, good, proof, guestFaults>>

Hello ==
    /\ Frame
    /\ ~peer.token
    /\ peer' = [peer EXCEPT !.token = TRUE, !.hello = Settle(@, "resolved")]
    /\ guest' = IF guest = "booting" THEN "greeted" ELSE guest
    /\ UNCHANGED told

StageReceipt(stage) ==
    /\ Frame
    /\ peer.token /\ peer.lifecyclePlan
    /\ Len(peer.receipts) < Len(ReceiptStages)
    /\ stage = ReceiptStages[Len(peer.receipts) + 1]
    /\ peer' = [peer EXCEPT !.receipts = Append(@, stage)]
    /\ UNCHANGED <<guest, told>>

FinalReceipt ==
    /\ Frame
    /\ peer.token /\ peer.lifecyclePlan
    /\ Len(peer.receipts) = Len(ReceiptStages)
    /\ peer' = [peer EXCEPT !.final = Settle(@, "resolved")]
    /\ UNCHANGED <<guest, told>>

Output(file) ==
    /\ Frame
    /\ peer' = [peer EXCEPT !.outputs = @ \cup {file}]
    /\ UNCHANGED <<guest, told>>

Manifest ==
    /\ Frame
    /\ peer' = [peer EXCEPT !.manifest = TRUE]
    /\ UNCHANGED <<guest, told>>

(* A terminal event, or a completion that is not ok. *)
GuestFailed ==
    /\ Frame
    /\ peer' = [peer EXCEPT !.complete = Settle(@, "rejected")]
    /\ UNCHANGED <<guest, told>>

(* A completion without a reviewed output is answered with an error, and   *)
(* leaves the host waiting.                                                *)
Complete ==
    /\ Frame
    /\ \/ /\ peer.plan = "none" \/ ~peer.manifest
          /\ peer' = [peer EXCEPT !.complete = Settle(@, "rejected")]
          /\ UNCHANGED told
       \/ /\ peer.plan # "none" /\ peer.manifest
          /\ FinalOutputs \subseteq peer.outputs
          /\ peer' = [peer EXCEPT !.complete = Settle(@, "resolved")]
          /\ told' = IF peer.complete = "pending" THEN peer.outputs ELSE told
    /\ UNCHANGED guest

(* The bootstrap compares these fields of a plan with its own.             *)
Compared == {"protocolVersion", "jobId", "challengeNonce", "policy"}
Carried == IF peer.plan = "published"
           THEN {"protocolVersion", "jobId", "policy"}
           ELSE {"protocolVersion", "jobId", "challengeNonce"}

GuestReads ==
    /\ guest = "greeted"
    /\ peer.registered
    /\ peer.plan = "published" \/ peer.lifecyclePlan
    /\ guest' = IF Compared \subseteq Carried THEN "taken" ELSE "refused"
    /\ UNCHANGED <<mode, host, peer, wsb, handle, told, good, proof, guestFaults>>

(* Someone closes the sandbox. *)
GuestEnds ==
    /\ guest \in Inside
    /\ guest' = "gone"
    /\ UNCHANGED <<mode, host, peer, wsb, handle, told, good, proof, guestFaults>>

GuestNext ==
    \/ LaunchGuest \/ LaunchCancelled \/ Halt \/ LaunchGuestFails
    \/ Admit \/ PublishPlan \/ NotAdmitted
    \/ Answered \/ NotAnswered
    \/ Stop \/ StopUnproven \/ RemoveConfig \/ RemoveConfigFails
    \/ AbortStops \/ AbortClears \/ AbortFails \/ AbortAgain
    \/ Hello \/ FinalReceipt \/ Manifest \/ GuestFailed \/ Complete
    \/ \E i \in DOMAIN ReceiptStages : StageReceipt(ReceiptStages[i])
    \/ \E file \in Files : Output(file)
    \/ GuestReads \/ GuestEnds

GuestSpec == GuestInit /\ [][GuestNext]_guestVars
-----------------------------------------------------------------------------
Promises == {"pending", "resolved", "rejected"}

GuestTypeOK ==
    /\ mode \in {"source", "lifecycle"}
    /\ host \in {"idle", "halting", "greeting", "starting", "awaiting",
                 "stopping", "removing", "aborting", "clearing", "ok", "failed"}
    /\ peer \in [registered : BOOLEAN, aborted : BOOLEAN, token : BOOLEAN,
                 hello : Promises, complete : Promises, final : Promises,
                 plan : {"none", "bound", "published"}, lifecyclePlan : BOOLEAN,
                 receipts : Seq({ReceiptStages[i] : i \in DOMAIN ReceiptStages}),
                 manifest : BOOLEAN, outputs : SUBSET Files,
                 treeStopped : BOOLEAN, guestDeleted : BOOLEAN]
    /\ guest \in Inside \cup {"off", "gone"}
    /\ wsb \in BOOLEAN /\ handle \in BOOLEAN /\ good \in BOOLEAN
    /\ proof \in BOOLEAN
    /\ told \in SUBSET Files
    /\ guestFaults \in 0..GuestFaults

(* Whatever frames come, in whatever order, beside whatever the host does: *)
(* a build that succeeds has every reviewed output, a lifecycle its six    *)
(* stages in their order; a disposal receipt means that neither the guest  *)
(* nor its file is there; and a guest that may run has its file and a      *)
(* handle to end it by ("Preserve an unproven orphan",                     *)
(* source-runtime.ts:1123), but for the one whose launch was cancelled and *)
(* is still stopping it (source-runtime.ts:1155, 1169).                    *)
ProofsAreHonest ==
    /\ GuestTypeOK
    /\ good /\ mode = "source" => FinalOutputs \subseteq told
    /\ good /\ mode = "lifecycle" => peer.receipts = ReceiptStages
    /\ proof => guest = "gone" /\ ~wsb /\ ~handle
    /\ host = "ok" => good /\ proof
    /\ guest \in Inside => handle \/ host = "halting"
    /\ guest \in Inside => wsb

(* Not true (see the README): a guest that may run has its handle, at      *)
(* every moment.                                                           *)
HandleIsRegistered == guest \in Inside => handle

(* Not true (see the README): the plan that the host has published is one  *)
(* that the bootstrap it ships takes for its own.  "Its fixed guest        *)
(* bootstrap downloads the pinned archive inside the guest"                *)
(* (source-build-security.md:15).                                          *)
PlansAreTaken == guest # "refused"
=============================================================================
