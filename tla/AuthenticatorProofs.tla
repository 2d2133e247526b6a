-------------------------- MODULE AuthenticatorProofs --------------------------
(***************************************************************************)
(* What is proved of Authenticator.  The invariant follows the one holder  *)
(* of withMetadataSerial: it is the only writer of the metadata, so that   *)
(* what it has read of them is what they say until it publishes, and an    *)
(* entry is confirmed by at most one request at a time.                    *)
(***************************************************************************)
EXTENDS Authenticator, TLAPS

Confirmations == {r \in waiting : r.kind = "confirm"}

(* A queued confirmation is for one entry, whose pairing was confirmed or  *)
(* has been discarded since, which is not listed, and which nothing else   *)
(* confirms.                                                               *)
QueuedOk(r) ==
    /\ \E i \in Ids : r.left = {i}
    /\ \A i \in r.left : reg[i] \in {"confirming", "gone"} /\ i \notin doc.ids
    /\ \A s \in Confirmations : s # r => s.left \cap r.left = {}
    /\ op.kind = "confirm" /\ op.step # "record" => op.left \cap r.left = {}

(* So is the one that runs, until it has published the entry.              *)
RunningOk ==
    op.kind = "confirm" =>
       /\ \E i \in Ids : op.left = {i}
       /\ \A i \in op.left : reg[i] \in {"confirming", "gone"}
       /\ op.step # "record" => op.left \cap doc.ids = {}

PairingInv ==
    /\ \A i \in doc.ids : reg[i] = "gone"
    /\ \A r \in Confirmations : QueuedOk(r)
    /\ RunningOk

(* The entries whose ciphertext is whole, or known not to be.              *)
Accounted == cipher \cup doubt \cup damaged

(* The removal that runs may still have to write a ciphertext back.        *)
Unlinking == op.kind = "remove" /\ op.step \in {"write", "rollback", "rewrite"}

(* What the operation under way knows of the vault is still so.            *)
VaultInv ==
    /\ doc.ids \subseteq Accounted \cup op.now
    /\ op.kind = "confirm" /\ op.step = "write" => op.left \subseteq cipher
    /\ op.kind \in {"edit", "group"} /\ op.step = "write" => op.before.ids = doc.ids
    /\ op.now # {} => Unlinking
    /\ Unlinking /\ op.had = "nothing" => op.now \subseteq doubt
    /\ Unlinking /\ op.step = "rewrite" => op.now \subseteq Accounted

(* A damaged ciphertext has been reported, or two things have failed: the  *)
(* unlinking before a rewriting is the first of them.                      *)
DamageInv ==
    /\ damaged \subseteq doubt \/ used["fault"] > 1
    /\ Unlinking /\ op.had = "cut" => op.now \subseteq doubt \/ used["fault"] > 1
    /\ Unlinking /\ op.step = "rewrite" => used["fault"] > 0

Exports == {r \in waiting : r.kind = "secrets"}

(* One secret export at a time, and no file before it has been saved.      *)
ExportInv ==
    /\ ExportIsTruthful
    /\ \A r, s \in Exports : r = s
    /\ Exports # {} => file = "none" /\ op.kind # "secrets"
    /\ op.kind = "secrets" /\ op.step \in {"read", "save"} => file = "none"

AuthInv == /\ TypeOK /\ FencedMeansCleared /\ PairingInv
           /\ VaultInv /\ DamageInv /\ ExportInv
-----------------------------------------------------------------------------
(* Types. *)

LEMMA SpentTyped ==
  ASSUME used \in [Kinds -> Nat],
         used' = used \/ \E kind \in Kinds : Spend(kind)
  PROVE  used' \in [Kinds -> Nat]
  BY DEF Spend

(* removePending only ever ends a pairing. *)
LEMMA RemovedEnds ==
  ASSUME TypeOK, NEW S
  PROVE  /\ Removed(S) \in [Ids -> {"none", "asked", "checked", "open",
                                    "confirming", "gone"}]
         /\ \A i \in Ids : Removed(S)[i] \in {reg[i], "gone"}
         /\ \A i \in Ids : i \in S => Removed(S)[i] \notin {"open", "confirming"}
  BY DEF TypeOK, Removed, Open

LEMMA NoOpTyped == NoOp \in Ops
  BY DEF NoOp, Ops, Blank, Documents, Held

LEMMA StepTyped ==
  ASSUME op \in Ops,
         NEW step \in {"idle", "read", "seal", "write", "rollback", "rewrite",
                       "next", "save", "check", "record"},
         To(step)
  PROVE  /\ op' \in Ops
         /\ op' = [op EXCEPT !.step = step]
         /\ op'.step = step
         /\ op'.kind = op.kind /\ op'.left = op.left /\ op'.gen = op.gen
         /\ op'.before = op.before /\ op'.groups = op.groups
         /\ op'.now = op.now /\ op'.had = op.had
  BY DEF To, Ops

LEMMA InitTyped == Init => TypeOK
<1> SUFFICES ASSUME Init PROVE TypeOK
  OBVIOUS
<1>1. doc \in Documents /\ cipher \subseteq Ids /\ damaged \subseteq Ids
  BY IdsAssumption DEF Init, Documents
<1>2. /\ reg \in [Ids -> {"none", "asked", "checked", "open", "confirming", "gone"}]
      /\ answer \in [Ids -> {"none", "saved", "failed", "discarded", "full",
                             "uncertain"}]
      /\ asked \in [Ids -> Nat]
  BY DEF Init
<1>3. used \in [Kinds -> Nat]
  BY DEF Init
<1>4. list \in [step: {"off", "read", "groups"}, gen: Nat]
  BY DEF Init, Free
<1>5. /\ restricted \in BOOLEAN /\ leases \in Nat /\ gen \in Nat
      /\ waiting \subseteq Requests /\ op \in Ops /\ undo \subseteq Ids
      /\ groups \subseteq Groups /\ shown \in BOOLEAN /\ token \in BOOLEAN
      /\ file = "none" /\ exported = "none" /\ doubt \subseteq Ids
  BY NoOpTyped DEF Init
<1> QED
  BY <1>1, <1>2, <1>3, <1>4, <1>5 DEF TypeOK

LEMMA FenceTyped ==
  ASSUME TypeOK, Fence
  PROVE  TypeOK'
<1>1. used' \in [Kinds -> Nat]
  BY SpentTyped DEF Fence, SetRestricted, RestoreBegin, RestoreReset, RestoreEnd,
                    TypeOK, Kinds
<1>2. reg' \in [Ids -> {"none", "asked", "checked", "open", "confirming", "gone"}]
  BY RemovedEnds DEF Fence, SetRestricted, RestoreBegin, RestoreReset, RestoreEnd,
                     TypeOK
<1>3. /\ restricted' \in BOOLEAN
      /\ leases' \in Nat
      /\ gen' \in Nat
  <2>1. restricted' \in BOOLEAN
    BY DEF Fence, SetRestricted, RestoreBegin, RestoreReset, RestoreEnd, TypeOK
  <2>2. /\ leases \in Nat /\ gen \in Nat
        /\ gen' = gen + 1
        /\ \/ leases' = leases \/ leases' = leases + 1
           \/ leases > 0 /\ leases' = leases - 1
    BY DEF Fence, SetRestricted, RestoreBegin, RestoreReset, RestoreEnd, TypeOK
  <2> QED
    BY <2>1, <2>2
<1>4. /\ token' \in BOOLEAN /\ groups' \subseteq Groups
      /\ UNCHANGED <<doc, cipher, damaged, asked, answer, undo, waiting, op, list,
                     shown, file, exported, doubt>>
  BY DEF Fence, SetRestricted, RestoreBegin, RestoreReset, RestoreEnd, TypeOK,
         vault, export
<1> QED
  BY <1>1, <1>2, <1>3, <1>4 DEF TypeOK

LEMMA PairingTyped ==
  ASSUME TypeOK, NEW i \in Ids,
         \/ Prepare(i) \/ PrepareChecked(i) \/ PrepareDone(i)
         \/ Confirm(i) \/ ConfirmWrong(i) \/ Discard(i)
  PROVE  TypeOK'
<1>1. CASE Prepare(i)
  BY <1>1 DEF Prepare, Elsewhere, vault, fence, export, TypeOK
<1>2. CASE PrepareChecked(i)
  BY <1>2 DEF PrepareChecked, Elsewhere, vault, fence, export, TypeOK
<1>3. CASE PrepareDone(i)
  BY <1>3 DEF PrepareDone, Elsewhere, vault, fence, export, TypeOK
<1>4. CASE Confirm(i)
  <2>1. [kind |-> "confirm", left |-> {i}, gen |-> gen] \in Requests
    BY DEF Requests, TypeOK
  <2> QED
    BY <1>4, <2>1 DEF Confirm, Elsewhere, vault, fence, export, TypeOK
<1>5. CASE ConfirmWrong(i)
  BY <1>5, RemovedEnds DEF ConfirmWrong, Elsewhere, vault, fence, export, TypeOK
<1>6. CASE Discard(i)
  BY <1>6, RemovedEnds DEF Discard, Elsewhere, vault, fence, export, TypeOK
<1> QED
  BY <1>1, <1>2, <1>3, <1>4, <1>5, <1>6

LEMMA RequestTyped ==
  ASSUME TypeOK, RequestChange \/ RequestExport \/ Authorize \/ Revoke
  PROVE  TypeOK'
<1>1. used' \in [Kinds -> Nat]
  BY SpentTyped DEF RequestChange, RequestExport, Authorize, Revoke, TypeOK, Kinds
<1>2. CASE RequestChange
  <2>1. waiting' \subseteq Requests
    BY <1>2, IdsAssumption DEF RequestChange, Enqueue, Requests, TypeOK
  <2> QED
    BY <1>1, <1>2, <2>1 DEF RequestChange, vault, fence, pairing, export, TypeOK
<1>3. CASE RequestExport
  <2>1. waiting' \subseteq Requests
    BY <1>3, IdsAssumption DEF RequestExport, Enqueue, Requests, TypeOK
  <2> QED
    BY <1>1, <1>3, <2>1 DEF RequestExport, vault, fence, pairing, TypeOK
<1>4. CASE Authorize
  BY <1>1, <1>4 DEF Authorize, vault, fence, pairing, TypeOK
<1>5. CASE Revoke
  BY <1>1, <1>5 DEF Revoke, vault, fence, pairing, TypeOK
<1> QED
  BY <1>2, <1>3, <1>4, <1>5

(* An operation's turn begins with blank working fields.                   *)
LEMMA Started ==
  ASSUME TypeOK, NEW r \in waiting, Start(r)
  PROVE  /\ op' \in Ops
         /\ \/ op' = NoOp
            \/ /\ op'.kind = r.kind /\ op'.left = r.left /\ op'.step = "read"
               /\ op'.now = {}
         /\ r.kind = "secrets" /\ ~token => op' = NoOp
<1>1. r \in Requests /\ gen \in Nat /\ r.gen \in Nat
  BY DEF TypeOK, Requests
<1>2. CASE r.kind = "secrets" /\ ~token
  BY <1>2, NoOpTyped DEF Start
<1>3. CASE ~(r.kind = "secrets" /\ ~token)
  <2> DEFINE g == IF r.kind = "confirm" THEN r.gen ELSE gen
  <2>1. op' = [NoOp EXCEPT !.kind = r.kind, !.left = r.left, !.step = "read",
                           !.gen = g]
    BY <1>3 DEF Start
  <2>2. g \in Nat
    BY <1>1
  <2> HIDE DEF g
  <2> QED
    BY <1>1, <1>3, <2>1, <2>2 DEF NoOp, Ops, Requests, Blank, Documents, Held
<1> QED
  BY <1>2, <1>3

LEMMA StartTyped ==
  ASSUME TypeOK, NEW r \in waiting, Start(r)
  PROVE  TypeOK'
<1>1. op' \in Ops
  BY Started
<1>2. token' \in BOOLEAN /\ waiting' \subseteq Requests
  BY DEF Start, TypeOK
<1>3. exported' \in {"none", "ok", "refused", "lost"}
  BY DEF Start, TypeOK
<1>4. UNCHANGED <<doc, cipher, damaged, restricted, leases, gen, reg, asked, answer,
                  undo, groups, list, shown, file, doubt, used>>
  BY DEF Start, vault, fence, pairing
<1> QED
  BY <1>1, <1>2, <1>3, <1>4 DEF TypeOK

LEMMA GivenUp ==
  ASSUME TypeOK, NEW i \in Ids, GiveUp(i)
  PROVE  /\ op' = NoOp /\ op' \in Ops
         /\ reg' \in [Ids -> {"none", "asked", "checked", "open",
                              "confirming", "gone"}]
         /\ answer' \in [Ids -> {"none", "saved", "failed", "discarded", "full",
                                 "uncertain"}]
         /\ \A k \in Ids : \/ reg'[k] \in {reg[k], "gone"}
                           \/ k = i /\ Commit(i) /\ reg'[i] = "open"
<1>1. CASE Commit(i)
  BY <1>1, NoOpTyped DEF GiveUp, TypeOK
<1>2. CASE ~Commit(i)
  BY <1>2, NoOpTyped, RemovedEnds DEF GiveUp, TypeOK
<1> QED
  BY <1>1, <1>2

LEMMA StoppedTyped ==
  ASSUME TypeOK, NEW live, Stopped(live) \/ Going(live)
  PROVE  used' \in [Kinds -> Nat]
  BY SpentTyped DEF Stopped, Going, TypeOK, Kinds

LEMMA ConfirmTyped ==
  ASSUME TypeOK, NEW i \in Ids,
         ConfirmRead(i) \/ SealSecret(i) \/ PublishEntry(i) \/ RollBackSave(i)
  PROVE  TypeOK'
<1>1. used' \in [Kinds -> Nat]
  BY StoppedTyped, SpentTyped
     DEF ConfirmRead, SealSecret, PublishEntry, RollBackSave, TypeOK, Kinds
<1>2. op' \in Ops
  BY GivenUp, StepTyped, NoOpTyped
     DEF ConfirmRead, SealSecret, PublishEntry, RollBackSave, TypeOK
<1>3. reg' \in [Ids -> {"none", "asked", "checked", "open", "confirming", "gone"}]
  BY GivenUp, RemovedEnds
     DEF ConfirmRead, SealSecret, PublishEntry, RollBackSave, TypeOK
<1>4. answer' \in [Ids -> {"none", "saved", "failed", "discarded", "full",
                           "uncertain"}]
  BY GivenUp DEF ConfirmRead, SealSecret, PublishEntry, RollBackSave, TypeOK
<1>5. /\ doc' \in Documents /\ undo' \subseteq Ids
      /\ cipher' \subseteq Ids /\ damaged' \subseteq Ids
  BY DEF ConfirmRead, SealSecret, PublishEntry, RollBackSave, TypeOK, Documents,
         vault
<1>6. UNCHANGED <<restricted, leases, gen, asked, waiting, groups, list, shown,
                  token, file, exported, doubt>>
  BY DEF ConfirmRead, SealSecret, PublishEntry, RollBackSave, OutsideSave, fence,
         export
<1> QED
  BY <1>1, <1>2, <1>3, <1>4, <1>5, <1>6 DEF TypeOK

LEMMA UndoTyped ==
  ASSUME TypeOK, NEW i \in Ids, Undo(i)
  PROVE  TypeOK'
<1>1. used' \in [Kinds -> Nat]
  BY SpentTyped DEF Undo, TypeOK, Kinds
<1>2. reg' \in [Ids -> {"none", "asked", "checked", "open", "confirming", "gone"}]
  BY RemovedEnds DEF Undo
<1>3. answer' \in [Ids -> {"none", "saved", "failed", "discarded", "full",
                           "uncertain"}]
  BY DEF Undo, TypeOK
<1>4. undo' \subseteq Ids /\ doubt' \subseteq Ids
  BY DEF Undo, TypeOK
<1>5. UNCHANGED <<doc, cipher, damaged, restricted, leases, gen, asked, waiting, op,
                  groups, list, shown, token, file, exported>>
  BY DEF Undo, OutsideSave, vault, fence, export
<1> QED
  BY <1>1, <1>2, <1>3, <1>4, <1>5 DEF TypeOK

(* What readMutableMetadata leaves an edit with. *)
LEMMA EditReadEnds ==
  ASSUME TypeOK, EditRead
  PROVE  /\ op' \in Ops
         /\ \/ op' = NoOp
            \/ /\ op'.kind = op.kind /\ op'.step = "write" /\ op'.left = op.left
               /\ op'.before = doc /\ op'.now = op.now
         /\ groups' \subseteq Groups
<1>1. op \in Ops /\ doc \in Documents /\ groups \subseteq Groups
  BY DEF TypeOK
<1>2. CASE op' = NoOp /\ UNCHANGED groups
  BY <1>1, <1>2, NoOpTyped
<1>3. CASE /\ op' = [op EXCEPT !.step = "write", !.before = doc, !.groups = groups]
           /\ UNCHANGED groups
  BY <1>1, <1>3 DEF Ops
<1>4. ASSUME NEW next \in SUBSET Groups,
             op' = [op EXCEPT !.step = "write", !.before = doc, !.groups = next],
             groups' \in {doc.groups, doc.groups \cup next}
      PROVE  /\ op' \in Ops
             /\ op'.kind = op.kind /\ op'.step = "write" /\ op'.left = op.left
             /\ op'.before = doc /\ op'.now = op.now
             /\ groups' \subseteq Groups
  <2>1. doc.groups \subseteq Groups
    BY <1>1 DEF Documents
  <2> QED
    BY <1>1, <1>4, <2>1 DEF Ops
<1>5. \A G \in {{}} \cup {{h} : h \in Groups} :
        doc.groups \cup G \in SUBSET Groups /\ doc.groups \ G \in SUBSET Groups
  BY <1>1 DEF Documents
<1> QED
  BY <1>2, <1>3, <1>4, <1>5 DEF EditRead

LEMMA EditTyped ==
  ASSUME TypeOK, EditRead \/ PublishEdit
  PROVE  TypeOK'
<1>1. used' \in [Kinds -> Nat]
  BY StoppedTyped DEF EditRead, PublishEdit
<1>2. op \in Ops /\ op.groups \subseteq Groups /\ op.before.ids \subseteq Ids
  BY DEF TypeOK, Ops, Documents
<1>3. op' \in Ops
  BY EditReadEnds, StepTyped, NoOpTyped, <1>2 DEF PublishEdit
<1>4. doc' \in Documents
  <2>1. EditRead => doc' = doc
    BY DEF EditRead
  <2>2. PublishEdit => \/ doc' = doc
                       \/ doc' = [ids |-> op.before.ids, groups |-> op.groups]
    BY DEF PublishEdit
  <2> QED
    BY <1>2, <2>1, <2>2 DEF TypeOK, Documents
<1>5. groups' \subseteq Groups
  BY EditReadEnds, <1>2 DEF PublishEdit, TypeOK
<1>6. UNCHANGED <<cipher, damaged, restricted, leases, gen, reg, asked, answer, undo,
                  waiting, list, shown, token, file, exported, doubt>>
  BY DEF EditRead, PublishEdit, OutsideEdit, fence, pairing, export
<1> QED
  BY <1>1, <1>3, <1>4, <1>5, <1>6 DEF TypeOK

(* What a removal knows after each of its steps. *)
LEMMA RemovalEnds ==
  ASSUME TypeOK
  PROVE  /\ RemoveRead => \/ op' = NoOp
                          \/ /\ op' \in Ops /\ op'.kind = "remove"
                             /\ op'.step = "next" /\ op'.now = op.now
         /\ \A i \in Ids : UnlinkSecret(i) =>
               /\ op' \in Ops /\ op'.kind = "remove"
               /\ \/ op'.step = "next" /\ op'.now = op.now
                     /\ UNCHANGED <<cipher, damaged>>
                  \/ /\ op'.step = "rewrite" /\ op'.now = {i}
                     /\ op'.had = HeldFor(i) /\ i \in doc.ids
                     /\ UNCHANGED <<cipher, damaged>> /\ Spend("fault")
                  \/ /\ op'.step = "write" /\ op'.now = {i}
                     /\ op'.had = HeldFor(i) /\ i \in doc.ids
                     /\ cipher' = cipher \ {i} /\ damaged' = damaged \ {i}
         /\ PublishRemoval =>
               /\ op' \in Ops /\ op'.kind = "remove"
               /\ \/ /\ op'.step = "rollback" /\ op'.now = op.now
                     /\ op'.had = op.had /\ UNCHANGED doc
                  \/ /\ op'.step = "next" /\ op'.now = {}
                     /\ doc' = [doc EXCEPT !.ids = @ \ op.now]
         /\ RollBackRemoval =>
               op' \in Ops /\ op'.kind = "remove" /\ op'.step = "next" /\ op'.now = {}
<1>1. op \in Ops /\ doc \in Documents /\ op.left \subseteq Ids
  BY DEF TypeOK, Ops
<1>2. RemoveRead => \/ op' = NoOp
                    \/ /\ op' \in Ops /\ op'.kind = "remove"
                       /\ op'.step = "next" /\ op'.now = op.now
  BY <1>1 DEF RemoveRead, At, Ops
<1>3. ASSUME NEW i \in Ids, UnlinkSecret(i)
      PROVE  /\ op' \in Ops /\ op'.kind = "remove"
             /\ \/ op'.step = "next" /\ op'.now = op.now
                   /\ UNCHANGED <<cipher, damaged>>
                \/ /\ op'.step = "rewrite" /\ op'.now = {i}
                   /\ op'.had = HeldFor(i) /\ i \in doc.ids
                   /\ UNCHANGED <<cipher, damaged>> /\ Spend("fault")
                \/ /\ op'.step = "write" /\ op'.now = {i}
                   /\ op'.had = HeldFor(i) /\ i \in doc.ids
                   /\ cipher' = cipher \ {i} /\ damaged' = damaged \ {i}
  <2> DEFINE had == HeldFor(i)
             ready == Live(op.gen) /\ i \in op.before.ids \cap doc.ids
             Take(step) == op' = [op EXCEPT !.step = step, !.left = @ \ {i},
                                            !.now = {i}, !.had = had]
  <2>1. op.kind = "remove" /\ op.step = "next"
    BY <1>3 DEF UnlinkSecret, At
  <2>2. had \in Held
    BY DEF HeldFor, Held
  <2>3. \/ op' = [op EXCEPT !.left = @ \ {i}] /\ UNCHANGED <<cipher, damaged>>
        \/ /\ ready /\ Spend("fault") /\ Take("rewrite")
           /\ UNCHANGED <<cipher, damaged>>
        \/ /\ ready /\ Take("write")
           /\ cipher' = cipher \ {i} /\ damaged' = damaged \ {i}
    BY <1>3 DEF UnlinkSecret, Going
  <2>4. ready => i \in doc.ids
    OBVIOUS
  <2> HIDE DEF had, ready
  <2>5. CASE op' = [op EXCEPT !.left = @ \ {i}] /\ UNCHANGED <<cipher, damaged>>
    BY <1>1, <2>1, <2>5 DEF Ops
  <2>6. ASSUME NEW step \in {"rewrite", "write"}, Take(step)
        PROVE  /\ op' \in Ops /\ op'.kind = "remove"
               /\ op'.step = step /\ op'.now = {i} /\ op'.had = had
    BY <1>1, <2>1, <2>2, <2>6 DEF Ops
  <2> HIDE DEF Take
  <2> QED
    BY <2>3, <2>4, <2>5, <2>6 DEF had
<1>4. PublishRemoval =>
         /\ op' \in Ops /\ op'.kind = "remove"
         /\ \/ /\ op'.step = "rollback" /\ op'.now = op.now
               /\ op'.had = op.had /\ UNCHANGED doc
            \/ /\ op'.step = "next" /\ op'.now = {}
               /\ doc' = [doc EXCEPT !.ids = @ \ op.now]
  BY <1>1 DEF PublishRemoval, At, To, Ops
<1>5. RollBackRemoval =>
         op' \in Ops /\ op'.kind = "remove" /\ op'.step = "next" /\ op'.now = {}
  BY <1>1 DEF RollBackRemoval, Ops
<1> QED
  BY <1>2, <1>3, <1>4, <1>5

LEMMA RemovalTyped ==
  ASSUME TypeOK,
         \/ RemoveRead \/ PublishRemoval \/ RollBackRemoval \/ RemoveDone
         \/ \E i \in Ids : UnlinkSecret(i)
  PROVE  TypeOK'
<1>1. used' \in [Kinds -> Nat]
  BY StoppedTyped, SpentTyped
     DEF RemoveRead, UnlinkSecret, PublishRemoval, RollBackRemoval, RemoveDone,
         TypeOK, Kinds
<1>2. op' \in Ops
  BY RemovalEnds, StepTyped, NoOpTyped DEF RemoveDone, TypeOK
<1>3. doc' \in Documents
  <2>1. \/ doc' = doc
        \/ doc' = [doc EXCEPT !.ids = @ \ op.now]
    BY RemovalEnds DEF RemoveRead, UnlinkSecret, RollBackRemoval, RemoveDone, vault
  <2> QED
    BY <2>1 DEF TypeOK, Documents
<1>4. cipher' \subseteq Ids /\ damaged' \subseteq Ids /\ doubt' \subseteq Ids
  <2>1. /\ op.now \subseteq Ids /\ cipher \subseteq Ids
        /\ damaged \subseteq Ids /\ doubt \subseteq Ids
    BY DEF TypeOK, Ops
  <2>2. /\ cipher' \subseteq cipher \cup op.now
        /\ damaged' \subseteq damaged \cup op.now
    BY DEF RemoveRead, UnlinkSecret, PublishRemoval, RollBackRemoval, RemoveDone,
           CutShort, vault
  <2>3. doubt' \subseteq doubt \cup op.now
    BY DEF RemoveRead, UnlinkSecret, PublishRemoval, RollBackRemoval, RemoveDone
  <2> QED
    BY <2>1, <2>2, <2>3
<1>5. UNCHANGED <<restricted, leases, gen, reg, asked, answer, undo, waiting,
                  groups, list, shown, token, file, exported>>
  BY DEF RemoveRead, UnlinkSecret, PublishRemoval, RollBackRemoval, RemoveDone,
         OutsideRemove, fence, pairing, export
<1> QED
  BY <1>1, <1>2, <1>3, <1>4, <1>5 DEF TypeOK

LEMMA ExportTyped ==
  ASSUME TypeOK, ReadSecrets \/ SaveFile \/ CheckFile \/ Record
  PROVE  TypeOK'
<1>1. used' \in [Kinds -> Nat]
  BY StoppedTyped, SpentTyped
     DEF ReadSecrets, SaveFile, CheckFile, Record, TypeOK, Kinds
<1>2. op' \in Ops
  BY StepTyped, NoOpTyped DEF ReadSecrets, SaveFile, CheckFile, Record, TypeOK
<1>3. /\ file' \in {"none", "written", "stray"}
      /\ exported' \in {"none", "ok", "refused", "lost"}
  BY DEF ReadSecrets, SaveFile, CheckFile, Record, TypeOK, export
<1>4. UNCHANGED <<doc, cipher, damaged, restricted, leases, gen, reg, asked, answer,
                  undo, waiting, groups, list, shown, token, doubt>>
  BY DEF ReadSecrets, SaveFile, CheckFile, Record, OutsideExport, vault, fence,
         pairing, export
<1> QED
  BY <1>1, <1>2, <1>3, <1>4 DEF TypeOK

LEMMA ListTyped ==
  ASSUME TypeOK, Listing
  PROVE  TypeOK'
<1>1. used' \in [Kinds -> Nat]
  BY StoppedTyped, SpentTyped DEF Listing, ListCall, ListRead, ListAnswer, TypeOK,
                                  Kinds
<1>2. list' \in [step: {"off", "read", "groups"}, gen: Nat]
  BY DEF Listing, ListCall, ListRead, ListAnswer, TypeOK, Free
<1>3. groups' \subseteq Groups /\ shown' \in BOOLEAN
  BY DEF Listing, ListCall, ListRead, ListAnswer, TypeOK, Documents
<1>4. UNCHANGED <<doc, cipher, damaged, restricted, leases, gen, reg, asked, answer,
                  undo, waiting, op, token, file, exported, doubt>>
  BY DEF Listing, ListCall, ListRead, ListAnswer, OutsideList, vault, fence,
         pairing, export
<1> QED
  BY <1>1, <1>2, <1>3, <1>4 DEF TypeOK

LEMMA CrashTyped ==
  ASSUME TypeOK, Crash
  PROVE  TypeOK'
<1>1. used' \in [Kinds -> Nat]
  BY SpentTyped DEF Crash, TypeOK, Kinds
<1>2. /\ reg' \in [Ids -> {"none", "asked", "checked", "open", "confirming", "gone"}]
      /\ asked' \in [Ids -> Nat]
  BY DEF Crash, TypeOK
<1>3. list' \in [step: {"off", "read", "groups"}, gen: Nat]
  BY DEF Crash, Free
<1>4. /\ file' \in {"none", "written", "stray"}
      /\ exported' \in {"none", "ok", "refused", "lost"}
  BY DEF Crash, TypeOK
<1>5. /\ doubt' \subseteq Ids /\ cipher' \subseteq Ids
      /\ damaged' \subseteq Ids
  BY DEF Crash, CutShort, TypeOK, Ops
<1>6. /\ op' \in Ops /\ leases' = 0 /\ gen' = 0 /\ waiting' = {} /\ undo' = {}
      /\ groups' = {} /\ shown' = FALSE /\ token' = FALSE
      /\ UNCHANGED <<doc, restricted, answer>>
  BY NoOpTyped DEF Crash
<1> QED
  BY <1>1, <1>2, <1>3, <1>4, <1>5, <1>6 DEF TypeOK

LEMMA TypeStep ==
  ASSUME TypeOK, [Next]_vars
  PROVE  TypeOK'
<1>1. CASE Next
  BY <1>1, FenceTyped, PairingTyped, RequestTyped, StartTyped, ConfirmTyped,
     UndoTyped, EditTyped, RemovalTyped, ExportTyped, ListTyped, CrashTyped
     DEF Next, Pairing, Serial, Undoing
<1>2. CASE UNCHANGED vars
  BY <1>2 DEF TypeOK, vars
<1> QED
  BY <1>1, <1>2
-----------------------------------------------------------------------------
(* No pairing is kept behind a fence. *)

LEMMA ClearedFrame ==
  ASSUME FencedMeansCleared, Open' \subseteq Open, Allowed' = Allowed
  PROVE  FencedMeansCleared'
  BY DEF FencedMeansCleared

LEMMA FenceCleared ==
  ASSUME TypeOK, FencedMeansCleared, Fence
  PROVE  FencedMeansCleared'
<1>1. reg' = Removed(Ids) => Open' = {}
  BY RemovedEnds DEF Open
<1>2. reg' = reg => Open' = Open
  BY DEF Open
<1>3. restricted \in BOOLEAN /\ leases \in Nat
  BY DEF TypeOK
<1>4. CASE SetRestricted
  <2>1. leases' = leases /\ restricted' = ~restricted
    BY <1>4 DEF SetRestricted
  <2>2. CASE restricted'
    BY <1>1, <1>4, <2>2 DEF SetRestricted, FencedMeansCleared
  <2>3. CASE ~restricted'
    <3>1. restricted
      BY <2>1, <2>3
    <3>2. Open = {}
      BY <3>1 DEF FencedMeansCleared, Allowed
    <3>3. reg' = reg
      BY <1>4, <2>3 DEF SetRestricted
    <3> QED
      BY <1>2, <3>2, <3>3 DEF FencedMeansCleared
  <2> QED
    BY <2>2, <2>3
<1>5. CASE RestoreBegin \/ RestoreReset
  BY <1>1, <1>5 DEF RestoreBegin, RestoreReset, FencedMeansCleared
<1>6. CASE RestoreEnd
  <2>1. Open = {}
    BY <1>3, <1>6 DEF RestoreEnd, FencedMeansCleared, Allowed
  <2> QED
    BY <1>1, <1>2, <1>6, <2>1 DEF RestoreEnd, FencedMeansCleared
<1> QED
  BY <1>4, <1>5, <1>6 DEF Fence

(* A preview is kept only by a prepare that no fence has crossed.          *)
LEMMA PairingCleared ==
  ASSUME TypeOK, FencedMeansCleared, NEW i \in Ids,
         \/ Prepare(i) \/ PrepareChecked(i) \/ PrepareDone(i)
         \/ Confirm(i) \/ ConfirmWrong(i) \/ Discard(i)
  PROVE  FencedMeansCleared'
<1>1. Allowed' = Allowed
  BY DEF Prepare, PrepareChecked, PrepareDone, Confirm, ConfirmWrong, Discard,
         Elsewhere, fence, Allowed
<1>2. CASE Prepare(i) \/ PrepareChecked(i)
  <2>1. Open' \subseteq Open
    BY <1>2 DEF Prepare, PrepareChecked, Open, TypeOK
  <2> QED
    BY <1>1, <2>1, ClearedFrame
<1>3. CASE PrepareDone(i)
  <2>1. CASE Allowed
    BY <1>1, <2>1 DEF FencedMeansCleared
  <2>2. CASE ~Allowed
    <3>1. Open' \subseteq Open
      BY <1>3, <2>2 DEF PrepareDone, Live, Open, TypeOK
    <3> QED
      BY <1>1, <3>1, ClearedFrame
  <2> QED
    BY <2>1, <2>2
<1>4. CASE Confirm(i)
  BY <1>1, <1>4 DEF Confirm, FencedMeansCleared
<1>5. CASE ConfirmWrong(i) \/ Discard(i)
  <2>1. Open' \subseteq Open
    BY <1>5, RemovedEnds DEF ConfirmWrong, Discard, Open
  <2> QED
    BY <1>1, <2>1, ClearedFrame
<1> QED
  BY <1>2, <1>3, <1>4, <1>5

LEMMA ConfirmCleared ==
  ASSUME TypeOK, FencedMeansCleared, NEW i \in Ids,
         \/ ConfirmRead(i) \/ SealSecret(i) \/ PublishEntry(i) \/ RollBackSave(i)
         \/ Undo(i)
  PROVE  FencedMeansCleared'
<1>1. Allowed' = Allowed
  BY DEF ConfirmRead, SealSecret, PublishEntry, RollBackSave, Undo, OutsideSave,
         fence, Allowed
<1>2. CASE Allowed
  BY <1>1, <1>2 DEF FencedMeansCleared
<1>3. CASE ~Allowed
  <2>1. ~Commit(i)
    BY <1>3 DEF Commit, Live
  <2>2. \A k \in Ids : reg'[k] \in {reg[k], "gone"}
    BY <2>1, RemovedEnds, GivenUp
       DEF ConfirmRead, SealSecret, PublishEntry, RollBackSave, Undo
  <2>3. Open' \subseteq Open
    BY <2>2 DEF Open
  <2> QED
    BY <1>1, <2>3, ClearedFrame
<1> QED
  BY <1>2, <1>3

LEMMA ClearedStep ==
  ASSUME TypeOK, FencedMeansCleared, [Next]_vars
  PROVE  FencedMeansCleared'
<1>1. CASE Crash
  BY <1>1 DEF Crash, Open, FencedMeansCleared
<1>2. ASSUME UNCHANGED <<restricted, leases, reg>>
      PROVE  FencedMeansCleared'
  BY <1>2 DEF FencedMeansCleared, Allowed, Open
<1>3. CASE RequestChange \/ RequestExport \/ Authorize \/ Revoke
  BY <1>2, <1>3 DEF RequestChange, RequestExport, Authorize, Revoke, fence, pairing
<1>4. CASE \E r \in waiting : Start(r)
  BY <1>2, <1>4 DEF Start, fence, pairing
<1>5. CASE EditRead \/ PublishEdit
  BY <1>2, <1>5 DEF EditRead, PublishEdit, OutsideEdit, fence, pairing
<1>6. CASE \/ RemoveRead \/ PublishRemoval \/ RollBackRemoval \/ RemoveDone
           \/ \E i \in Ids : UnlinkSecret(i)
  BY <1>2, <1>6 DEF RemoveRead, UnlinkSecret, PublishRemoval, RollBackRemoval,
                    RemoveDone, OutsideRemove, fence, pairing
<1>7. CASE ReadSecrets \/ SaveFile \/ CheckFile \/ Record
  BY <1>2, <1>7 DEF ReadSecrets, SaveFile, CheckFile, Record, OutsideExport, fence,
                    pairing
<1>8. CASE Listing
  BY <1>2, <1>8 DEF Listing, ListCall, ListRead, ListAnswer, OutsideList, fence,
                    pairing
<1>9. CASE UNCHANGED vars
  BY <1>2, <1>9 DEF vars
<1> QED
  BY <1>1, <1>3, <1>4, <1>5, <1>6, <1>7, <1>8, <1>9, FenceCleared, PairingCleared,
     ConfirmCleared DEF Next, Pairing, Serial, Undoing
-----------------------------------------------------------------------------
(* Pairings. *)

(* A step that queues no confirmation, lists nothing new, starts none and  *)
(* touches no pairing that a confirmation is for, except to end it or, at  *)
(* the end of its own, to open it again.                                   *)
LEMMA PairingFrame ==
  ASSUME TypeOK, TypeOK', PairingInv,
         doc'.ids \subseteq doc.ids,
         Confirmations' \subseteq Confirmations,
         op'.kind = "confirm" => /\ op.kind = "confirm" /\ op'.left = op.left
                                 /\ op'.step # "record" => op.step # "record",
         \A i \in Ids : \/ reg'[i] \in {reg[i], "gone"}
                        \/ reg[i] \notin {"confirming", "gone"}
                        \/ /\ op.kind = "confirm" /\ op.step # "record"
                           /\ i \in op.left /\ op'.kind # "confirm"
  PROVE  PairingInv'
<1>1. doc.ids \subseteq Ids /\ op.left \subseteq Ids
  BY DEF TypeOK, Documents, Ops
<1>2. ASSUME NEW i \in doc'.ids
      PROVE  reg'[i] = "gone"
  BY <1>1, <1>2 DEF PairingInv, RunningOk
<1>3. ASSUME NEW r \in Confirmations'
      PROVE  QueuedOk(r)'
  <2>1. r \in Confirmations /\ QueuedOk(r)
    BY DEF PairingInv
  <2>2. \E i \in Ids : r.left = {i}
    BY <2>1 DEF QueuedOk
  <2>3. ASSUME NEW i \in r.left
        PROVE  reg'[i] \in {"confirming", "gone"} /\ i \notin doc'.ids
    <3>1. i \in Ids /\ reg[i] \in {"confirming", "gone"} /\ i \notin doc.ids
      BY <2>1, <2>2, <2>3 DEF QueuedOk
    <3>2. ~(op.kind = "confirm" /\ op.step # "record" /\ i \in op.left)
      BY <2>1, <2>3 DEF QueuedOk
    <3> QED
      BY <3>1, <3>2
  <2>4. \A s \in Confirmations' : s # r => s.left \cap r.left = {}
    BY <2>1 DEF QueuedOk
  <2>5. op'.kind = "confirm" /\ op'.step # "record" => op'.left \cap r.left = {}
    BY <2>1 DEF QueuedOk
  <2> QED
    BY <2>2, <2>3, <2>4, <2>5 DEF QueuedOk
<1>4. RunningOk'
  BY <1>1 DEF PairingInv, RunningOk
<1> QED
  BY <1>2, <1>3, <1>4 DEF PairingInv

(* A pairing that is open is confirmed by no request yet.                  *)
LEMMA ConfirmQueued ==
  ASSUME TypeOK, PairingInv, NEW i \in Ids, Confirm(i)
  PROVE  PairingInv'
<1> DEFINE new == [kind |-> "confirm", left |-> {i}, gen |-> gen]
<1>1. /\ reg[i] = "open" /\ reg' = [reg EXCEPT ![i] = "confirming"]
      /\ waiting' = waiting \cup {new}
      /\ op' = op /\ doc' = doc
  BY DEF Confirm, Elsewhere, vault
<1>2. reg'[i] = "confirming" /\ \A k \in Ids : k # i => reg'[k] = reg[k]
  BY <1>1 DEF TypeOK
<1>3. /\ new.kind = "confirm" /\ new.left = {i}
      /\ Confirmations' = Confirmations \cup {new}
  BY <1>1 DEF Confirmations
<1> HIDE DEF new
<1>4. i \notin doc.ids
  BY <1>1 DEF PairingInv
<1>5. \A r \in Confirmations : i \notin r.left
  BY <1>1 DEF PairingInv, QueuedOk
<1>6. op.kind = "confirm" => i \notin op.left
  BY <1>1 DEF PairingInv, RunningOk
<1>7. doc.ids \subseteq Ids
  BY DEF TypeOK, Documents
<1>8. \A k \in doc'.ids : reg'[k] = "gone"
  BY <1>1, <1>2, <1>4, <1>7 DEF PairingInv
<1>9. ASSUME NEW r, r = new
      PROVE  QueuedOk(r)'
  <2>1. r.left = {i} /\ \E k \in Ids : r.left = {k}
    BY <1>3, <1>9
  <2>2. \A k \in r.left : reg'[k] \in {"confirming", "gone"} /\ k \notin doc'.ids
    BY <1>1, <1>2, <1>4, <2>1
  <2>3. \A s \in Confirmations' : s # r => s.left \cap r.left = {}
    BY <1>3, <1>5, <1>9, <2>1
  <2>4. op'.kind = "confirm" /\ op'.step # "record" => op'.left \cap r.left = {}
    BY <1>1, <1>6, <2>1
  <2> QED
    BY <2>1, <2>2, <2>3, <2>4 DEF QueuedOk
<1>10. ASSUME NEW r \in Confirmations
       PROVE  QueuedOk(r)'
  <2>1. QueuedOk(r)
    BY DEF PairingInv
  <2>2. \A k \in r.left : reg'[k] \in {"confirming", "gone"} /\ k \notin doc'.ids
    <3>1. r.left \subseteq Ids
      BY <2>1 DEF QueuedOk
    <3> QED
      BY <1>1, <1>2, <1>5, <2>1, <3>1 DEF QueuedOk
  <2>3. \A s \in Confirmations' : s # r => s.left \cap r.left = {}
    BY <1>3, <1>5, <2>1 DEF QueuedOk
  <2> QED
    BY <1>1, <2>1, <2>2, <2>3 DEF QueuedOk
<1>11. RunningOk'
  <2>1. op.left \subseteq Ids
    BY DEF TypeOK, Ops
  <2> QED
    BY <1>1, <1>2, <1>6, <2>1 DEF PairingInv, RunningOk
<1> QED
  BY <1>3, <1>8, <1>9, <1>10, <1>11 DEF PairingInv

LEMMA ConfirmStarted ==
  ASSUME TypeOK, TypeOK', PairingInv, NEW r \in waiting, Start(r)
  PROVE  PairingInv'
<1>1. /\ waiting' = waiting \ {r} /\ reg' = reg /\ doc' = doc /\ op = NoOp
  BY DEF Start, pairing, vault
<1>2. Confirmations' \subseteq Confirmations
  BY <1>1 DEF Confirmations
<1>3. op.kind = "none"
  BY <1>1 DEF NoOp
<1>4. CASE op'.kind # "confirm"
  BY <1>1, <1>2, <1>4, PairingFrame
<1>5. CASE op'.kind = "confirm"
  <2>1. op'.kind = r.kind /\ op'.left = r.left /\ op'.step = "read"
    BY <1>5, Started DEF NoOp
  <2>2. r \in Confirmations /\ r \notin Confirmations'
    BY <1>1, <1>5, <2>1 DEF Confirmations
  <2>3. QueuedOk(r)
    BY <2>2 DEF PairingInv
  <2>4. RunningOk'
    BY <1>1, <2>1, <2>3 DEF RunningOk, QueuedOk
  <2>5. ASSUME NEW s \in Confirmations'
        PROVE  QueuedOk(s)'
    <3>1. s \in Confirmations /\ QueuedOk(s) /\ s # r
      BY <1>2, <2>2 DEF PairingInv
    <3>2. op'.left \cap s.left = {}
      BY <2>1, <2>2, <3>1 DEF QueuedOk
    <3> QED
      BY <1>1, <1>2, <3>1, <3>2 DEF QueuedOk
  <2> QED
    BY <1>1, <2>4, <2>5 DEF PairingInv
<1> QED
  BY <1>4, <1>5

LEMMA ConfirmPaired ==
  ASSUME TypeOK, TypeOK', PairingInv, NEW i \in Ids,
         ConfirmRead(i) \/ SealSecret(i) \/ PublishEntry(i) \/ RollBackSave(i)
  PROVE  PairingInv'
<1>1. op.kind = "confirm" /\ op.left = {i} /\ op \in Ops
  BY DEF ConfirmRead, SealSecret, PublishEntry, RollBackSave, Confirming, At, TypeOK
<1>2. waiting' = waiting /\ Confirmations' = Confirmations
  BY DEF ConfirmRead, SealSecret, PublishEntry, RollBackSave, OutsideSave,
         Confirmations
<1>3. op.step # "record"
  BY DEF ConfirmRead, SealSecret, PublishEntry, RollBackSave, Confirming, At
<1>4. NoOp.kind = "none"
  BY DEF NoOp
<1>5. CASE doc' # doc
  <2>1. /\ PublishEntry(i) /\ Commit(i) /\ To("record")
        /\ doc' = [doc EXCEPT !.ids = @ \cup {i}] /\ reg' = Removed({i})
    BY <1>5 DEF ConfirmRead, SealSecret, PublishEntry, RollBackSave, vault, Going
  <2>2. doc'.ids = doc.ids \cup {i} /\ doc.ids \subseteq Ids
    BY <2>1 DEF TypeOK, Documents
  <2>3. op'.kind = "confirm" /\ op'.left = {i} /\ op'.step = "record"
    BY <1>1, <2>1, StepTyped
  <2>4. reg'[i] = "gone" /\ \A k \in Ids : reg'[k] \in {reg[k], "gone"}
    BY <2>1, RemovedEnds DEF Commit, TypeOK
  <2>5. \A k \in doc'.ids : reg'[k] = "gone"
    BY <2>2, <2>4 DEF PairingInv
  <2>6. RunningOk'
    BY <2>3, <2>4 DEF RunningOk
  <2>7. ASSUME NEW r \in Confirmations'
        PROVE  QueuedOk(r)'
    <3>1. r \in Confirmations /\ QueuedOk(r)
      BY <1>2 DEF PairingInv
    <3>2. i \notin r.left
      BY <1>1, <1>3, <3>1 DEF QueuedOk
    <3>3. r.left \subseteq Ids
      BY <3>1 DEF QueuedOk
    <3>4. \A k \in r.left : reg'[k] \in {"confirming", "gone"} /\ k \notin doc'.ids
      BY <2>2, <2>4, <3>1, <3>2, <3>3 DEF QueuedOk
    <3> QED
      BY <1>2, <2>3, <3>1, <3>4 DEF QueuedOk
  <2> QED
    BY <2>5, <2>6, <2>7 DEF PairingInv
<1>6. CASE doc' = doc
  <2>1. op'.kind = "confirm" => op'.left = op.left
    BY <1>1, <1>4, StepTyped, GivenUp
       DEF ConfirmRead, SealSecret, PublishEntry, RollBackSave
  <2>2. \/ \A k \in Ids : reg'[k] \in {reg[k], "gone"}
        \/ /\ op' = NoOp
           /\ \A k \in Ids : k # i => reg'[k] \in {reg[k], "gone"}
    BY GivenUp, RemovedEnds
       DEF ConfirmRead, SealSecret, PublishEntry, RollBackSave
  <2> QED
    BY <1>1, <1>2, <1>3, <1>4, <1>6, <2>1, <2>2, PairingFrame
<1> QED
  BY <1>5, <1>6

LEMMA PairingStep ==
  ASSUME TypeOK, TypeOK', PairingInv, VaultInv, [Next]_vars
  PROVE  PairingInv'
<1> DEFINE Ends == \A i \in Ids : reg'[i] \in {reg[i], "gone"}
<1>1. reg' = reg => Ends
  OBVIOUS
<1>2. op' = op => (op'.kind = "confirm" =>
                     /\ op.kind = "confirm" /\ op'.left = op.left
                     /\ op'.step # "record" => op.step # "record")
  OBVIOUS
<1>3. waiting' \subseteq waiting => Confirmations' \subseteq Confirmations
  BY DEF Confirmations
<1>4. NoOp.kind = "none" /\ op \in Ops
  BY DEF NoOp, TypeOK
<1>5. CASE Fence
  <2>1. Ends
    BY <1>5, RemovedEnds DEF Fence, SetRestricted, RestoreBegin, RestoreReset, RestoreEnd
  <2>2. op' = op /\ waiting' = waiting /\ doc' = doc
    BY <1>5 DEF Fence, SetRestricted, RestoreBegin, RestoreReset, RestoreEnd, vault
  <2> HIDE DEF Ends
  <2> QED
    BY <1>2, <1>3, <2>1, <2>2, PairingFrame DEF Ends
<1>6. ASSUME NEW i \in Ids,
             Prepare(i) \/ PrepareChecked(i) \/ PrepareDone(i)
      PROVE  PairingInv'
  <2>1. op' = op /\ waiting' = waiting /\ doc' = doc
    BY <1>6 DEF Prepare, PrepareChecked, PrepareDone, Elsewhere, vault
  <2>2. \A k \in Ids : reg'[k] = reg[k] \/ reg[k] \notin {"confirming", "gone"}
    BY <1>6 DEF Prepare, PrepareChecked, PrepareDone, TypeOK
  <2> QED
    BY <1>2, <1>3, <2>1, <2>2, PairingFrame
<1>7. ASSUME NEW i \in Ids, ConfirmWrong(i) \/ Discard(i) \/ Undo(i)
      PROVE  PairingInv'
  <2>1. op' = op /\ waiting' = waiting /\ doc' = doc
    BY <1>7 DEF ConfirmWrong, Discard, Undo, Elsewhere, OutsideSave, vault
  <2>2. Ends
    BY <1>7, RemovedEnds DEF ConfirmWrong, Discard, Undo
  <2> HIDE DEF Ends
  <2> QED
    BY <1>2, <1>3, <2>1, <2>2, PairingFrame DEF Ends
<1>8. CASE RequestChange \/ RequestExport \/ Authorize \/ Revoke
  <2>1. op' = op /\ reg' = reg /\ doc' = doc
    BY <1>8 DEF RequestChange, RequestExport, Authorize, Revoke, pairing, vault
  <2>2. Confirmations' \subseteq Confirmations
    BY <1>8 DEF RequestChange, RequestExport, Authorize, Revoke, Enqueue,
                Confirmations
  <2> QED
    BY <1>2, <2>1, <2>2, PairingFrame
<1>9. CASE EditRead \/ PublishEdit
  <2>1. waiting' = waiting /\ reg' = reg
    BY <1>9 DEF EditRead, PublishEdit, OutsideEdit, pairing
  <2>2. op'.kind # "confirm"
    BY <1>4, <1>9, EditReadEnds, StepTyped DEF EditRead, PublishEdit
  <2>3. doc'.ids = doc.ids
    <3>1. EditRead => doc' = doc
      BY DEF EditRead
    <3>2. PublishEdit => doc' = doc \/ doc'.ids = op.before.ids
      BY DEF PublishEdit
    <3>3. PublishEdit => op.before.ids = doc.ids
      BY DEF PublishEdit, VaultInv
    <3> QED
      BY <1>9, <3>1, <3>2, <3>3
  <2> QED
    BY <1>3, <2>1, <2>2, <2>3, PairingFrame
<1>10. CASE \/ RemoveRead \/ PublishRemoval \/ RollBackRemoval \/ RemoveDone
            \/ \E i \in Ids : UnlinkSecret(i)
  <2>1. waiting' = waiting /\ reg' = reg
    BY <1>10 DEF RemoveRead, UnlinkSecret, PublishRemoval, RollBackRemoval,
                 RemoveDone, OutsideRemove, pairing
  <2>2. op'.kind # "confirm"
    BY <1>4, <1>10, RemovalEnds, StepTyped DEF RemoveDone, At
  <2>3. doc'.ids \subseteq doc.ids
    <3>1. PublishRemoval => doc'.ids \subseteq doc.ids
      BY DEF PublishRemoval, TypeOK, Documents
    <3> QED
      BY <1>10, <3>1 DEF RemoveRead, UnlinkSecret, RollBackRemoval, RemoveDone, vault
  <2> QED
    BY <1>3, <2>1, <2>2, <2>3, PairingFrame
<1>11. CASE ReadSecrets \/ SaveFile \/ CheckFile \/ Record
  <2>1. waiting' = waiting /\ reg' = reg /\ doc' = doc
    BY <1>11 DEF ReadSecrets, SaveFile, CheckFile, Record, OutsideExport, pairing,
                 vault
  <2>2. op'.kind # "confirm"
    BY <1>4, <1>11, StepTyped DEF ReadSecrets, SaveFile, CheckFile, Record, At
  <2> QED
    BY <1>3, <2>1, <2>2, PairingFrame
<1>12. CASE Listing
  <2>1. op' = op /\ waiting' = waiting /\ reg' = reg /\ doc' = doc
    BY <1>12 DEF Listing, ListCall, ListRead, ListAnswer, OutsideList, vault, pairing
  <2> QED
    BY <1>2, <1>3, <2>1, PairingFrame
<1>13. CASE Crash
  <2>1. op' = NoOp /\ waiting' = {} /\ doc' = doc
    BY <1>13 DEF Crash, vault
  <2>2. \A k \in Ids : reg'[k] \in {reg[k], "gone"}
    BY <1>13 DEF Crash
  <2> QED
    BY <1>3, <1>4, <2>1, <2>2, PairingFrame
<1>14. CASE UNCHANGED vars
  <2>1. op' = op /\ waiting' = waiting /\ reg' = reg /\ doc' = doc
    BY <1>14 DEF vars
  <2> QED
    BY <1>2, <1>3, <2>1, PairingFrame
<1> QED
  BY <1>5, <1>6, <1>7, <1>8, <1>9, <1>10, <1>11, <1>12, <1>13, <1>14,
     ConfirmQueued, ConfirmStarted, ConfirmPaired
     DEF Next, Pairing, Serial, Undoing
-----------------------------------------------------------------------------
(* The vault. *)

(* A step that leaves the vault and the operation alone.                   *)
LEMMA VaultUntouched ==
  ASSUME VaultInv, doc' = doc, cipher' = cipher, damaged' = damaged, op' = op,
         doubt \subseteq doubt'
  PROVE  VaultInv'
  BY DEF VaultInv, Accounted, Unlinking

(* A step of an operation that has removed no secret, to a point where it  *)
(* holds on to nothing it has read.                                        *)
LEMMA VaultFrame ==
  ASSUME VaultInv, doc'.ids \subseteq Accounted',
         op'.now = {}, op'.step \notin {"write", "rollback", "rewrite"}
  PROVE  VaultInv'
  BY DEF VaultInv, Unlinking

LEMMA BlankStep == NoOp.now = {} /\ NoOp.step = "idle" /\ NoOp.kind = "none"
  BY DEF NoOp

LEMMA ConfirmVault ==
  ASSUME TypeOK, PairingInv, VaultInv, NEW i \in Ids,
         ConfirmRead(i) \/ SealSecret(i) \/ PublishEntry(i) \/ RollBackSave(i)
  PROVE  VaultInv'
<1>1. op.kind = "confirm" /\ op.left = {i} /\ op \in Ops
  BY DEF ConfirmRead, SealSecret, PublishEntry, RollBackSave, Confirming, At, TypeOK
<1>2. op.now = {} /\ doc.ids \subseteq Accounted
  BY <1>1 DEF VaultInv, Unlinking
<1>3. doubt' = doubt
  BY DEF ConfirmRead, SealSecret, PublishEntry, RollBackSave
<1>4. CASE ConfirmRead(i)
  <2>1. doc' = doc /\ Accounted' = Accounted
    BY <1>4 DEF ConfirmRead, vault, Accounted
  <2>2. op'.now = {} /\ op'.step \notin {"write", "rollback", "rewrite"}
    BY <1>1, <1>2, <1>4, GivenUp, StepTyped, BlankStep DEF ConfirmRead
  <2> QED
    BY <1>2, <2>1, <2>2, VaultFrame
<1>5. CASE SealSecret(i)
  <2>1. CASE GiveUp(i) /\ UNCHANGED <<cipher, damaged>>
    <3>1. op'.now = {} /\ op'.step \notin {"write", "rollback", "rewrite"}
      BY <2>1, GivenUp, BlankStep
    <3>2. doc' = doc /\ Accounted' = Accounted
      BY <1>3, <1>5, <2>1 DEF SealSecret, Accounted
    <3> QED
      BY <1>2, <3>1, <3>2, VaultFrame
  <2>2. CASE /\ cipher' = cipher \cup {i} /\ damaged' = damaged \ {i}
             /\ To("write")
    <3>1. /\ op'.kind = "confirm" /\ op'.left = {i} /\ op'.now = {}
          /\ op'.step = "write"
      BY <1>1, <1>2, <2>2, StepTyped
    <3>2. doc' = doc /\ Accounted \subseteq Accounted' /\ i \in cipher'
      BY <1>3, <1>5, <2>2 DEF SealSecret, Accounted
    <3> QED
      BY <1>2, <3>1, <3>2 DEF VaultInv, Unlinking
  <2> QED
    BY <1>5, <2>1, <2>2 DEF SealSecret
<1>6. CASE PublishEntry(i)
  <2>1. Accounted' = Accounted /\ cipher' = cipher /\ i \in cipher
    BY <1>1, <1>3, <1>6 DEF PublishEntry, Confirming, At, VaultInv, Accounted
  <2>2. doc'.ids \subseteq doc.ids \cup {i}
    BY <1>6 DEF PublishEntry, TypeOK, Documents
  <2>3. op'.kind = "confirm" /\ op'.now = {} /\ op'.step \in {"rollback", "record"}
    BY <1>1, <1>2, <1>6, StepTyped DEF PublishEntry
  <2>4. doc'.ids \subseteq Accounted'
    BY <1>2, <2>1, <2>2 DEF Accounted
  <2> QED
    BY <2>3, <2>4 DEF VaultInv, Unlinking
<1>7. CASE RollBackSave(i)
  <2>1. i \notin doc.ids /\ doc' = doc
    BY <1>1, <1>7 DEF RollBackSave, Confirming, At, PairingInv, RunningOk
  <2>2. cipher \ {i} \subseteq cipher' /\ damaged' = damaged
    BY <1>7 DEF RollBackSave
  <2>3. op' = NoOp
    BY <1>7, GivenUp DEF RollBackSave
  <2>4. doc'.ids \subseteq Accounted'
    BY <1>2, <1>3, <2>1, <2>2 DEF Accounted
  <2> QED
    BY <2>3, <2>4, BlankStep, VaultFrame
<1> QED
  BY <1>4, <1>5, <1>6, <1>7

LEMMA EditVault ==
  ASSUME TypeOK, VaultInv, EditRead \/ PublishEdit
  PROVE  VaultInv'
<1>1. op.kind \in {"edit", "group"} /\ op \in Ops
  BY DEF EditRead, PublishEdit, TypeOK
<1>2. op.now = {} /\ doc.ids \subseteq Accounted
  BY <1>1 DEF VaultInv, Unlinking
<1>3. Accounted' = Accounted
  BY DEF EditRead, PublishEdit, OutsideEdit, Accounted
<1>4. CASE EditRead
  <2>1. doc' = doc
    BY <1>4 DEF EditRead
  <2>2. CASE op' = NoOp
    BY <1>2, <1>3, <2>1, <2>2, BlankStep, VaultFrame
  <2>3. CASE /\ op'.kind = op.kind /\ op'.step = "write"
             /\ op'.before = doc /\ op'.now = op.now
    BY <1>1, <1>2, <1>3, <2>1, <2>3 DEF VaultInv, Unlinking
  <2> QED
    BY <1>4, <2>2, <2>3, EditReadEnds
<1>5. CASE PublishEdit
  <2>1. doc' = doc \/ doc'.ids = op.before.ids
    BY <1>5 DEF PublishEdit
  <2>2. op.before.ids = doc.ids
    BY <1>5 DEF PublishEdit, VaultInv
  <2>3. op'.now = {} /\ op'.step \notin {"write", "rollback", "rewrite"}
    BY <1>1, <1>2, <1>5, StepTyped, BlankStep DEF PublishEdit
  <2> QED
    BY <1>2, <1>3, <2>1, <2>2, <2>3, VaultFrame
<1> QED
  BY <1>4, <1>5

(* What the removal takes away is in now, or in doubt already, until the   *)
(* metadata no longer list it, it is back, or it is known to be damaged.   *)
LEMMA RemovalVault ==
  ASSUME TypeOK, VaultInv,
         \/ RemoveRead \/ PublishRemoval \/ RollBackRemoval \/ RemoveDone
         \/ \E i \in Ids : UnlinkSecret(i)
  PROVE  VaultInv'
<1>1. op.kind = "remove" /\ op \in Ops
  BY DEF RemoveRead, UnlinkSecret, PublishRemoval, RollBackRemoval, RemoveDone, At,
         TypeOK
<1>2. CASE RemoveRead \/ RemoveDone
  <2>1. doc' = doc /\ Accounted' = Accounted
    BY <1>2 DEF RemoveRead, RemoveDone, vault, Accounted
  <2>2. op.now = {}
    BY <1>2 DEF RemoveRead, RemoveDone, At, VaultInv, Unlinking
  <2>3. op'.now = {} /\ op'.step \notin {"write", "rollback", "rewrite"}
    BY <1>1, <1>2, <2>2, RemovalEnds, StepTyped, BlankStep DEF RemoveDone
  <2> QED
    BY <2>1, <2>2, <2>3, VaultFrame DEF VaultInv
<1>3. ASSUME NEW i \in Ids, UnlinkSecret(i)
      PROVE  VaultInv'
  <2>1. doc' = doc /\ doubt' = doubt
    BY <1>3 DEF UnlinkSecret
  <2>2. op.now = {} /\ doc.ids \subseteq Accounted
    BY <1>3 DEF UnlinkSecret, At, VaultInv, Unlinking
  <2>3. CASE /\ op'.step = "next" /\ op'.now = op.now
             /\ UNCHANGED <<cipher, damaged>>
    <3>1. Accounted' = Accounted
      BY <2>1, <2>3 DEF Accounted
    <3> QED
      BY <2>1, <2>2, <2>3, <3>1, VaultFrame
  <2>4. CASE /\ op'.kind = "remove" /\ op'.step = "rewrite" /\ op'.now = {i}
             /\ op'.had = HeldFor(i) /\ i \in doc.ids
             /\ UNCHANGED <<cipher, damaged>>
    <3>1. Accounted' = Accounted
      BY <2>1, <2>4 DEF Accounted
    <3>2. op'.had = "nothing" => op'.now \subseteq doubt'
      BY <2>1, <2>2, <2>4 DEF HeldFor, Accounted
    <3> QED
      BY <2>1, <2>2, <2>4, <3>1, <3>2 DEF VaultInv, Unlinking
  <2>5. CASE /\ op'.kind = "remove" /\ op'.step = "write" /\ op'.now = {i}
             /\ op'.had = HeldFor(i) /\ i \in doc.ids
             /\ cipher' = cipher \ {i} /\ damaged' = damaged \ {i}
    <3>1. Accounted \subseteq Accounted' \cup {i}
      BY <2>1, <2>5 DEF Accounted
    <3>2. op'.had = "nothing" => op'.now \subseteq doubt'
      BY <2>1, <2>2, <2>5 DEF HeldFor, Accounted
    <3> QED
      BY <2>1, <2>2, <2>5, <3>1, <3>2 DEF VaultInv, Unlinking
  <2> QED
    BY <1>3, <2>3, <2>4, <2>5, RemovalEnds
<1>4. CASE PublishRemoval
  <2>1. Accounted' = Accounted /\ doubt' = doubt /\ op.step = "write"
    BY <1>4 DEF PublishRemoval, At, Accounted
  <2>2. CASE op'.step = "rollback" /\ op'.now = op.now /\ op'.had = op.had /\ doc' = doc
    <3>1. op'.kind = "remove"
      BY <1>4, RemovalEnds
    <3> QED
      BY <1>1, <2>1, <2>2, <3>1 DEF VaultInv, Unlinking
  <2>3. CASE /\ op'.step = "next" /\ op'.now = {}
             /\ doc' = [doc EXCEPT !.ids = @ \ op.now]
    <3>1. doc'.ids = doc.ids \ op.now
      BY <2>3 DEF TypeOK, Documents
    <3> QED
      BY <2>1, <2>3, <3>1, VaultFrame DEF VaultInv
  <2> QED
    BY <1>4, <2>2, <2>3, RemovalEnds
<1>5. CASE RollBackRemoval
  <2>1. doc' = doc /\ op'.now = {} /\ op'.step = "next"
    BY <1>5, RemovalEnds DEF RollBackRemoval
  <2>2. Unlinking /\ op.step \in {"rollback", "rewrite"}
    BY <1>5 DEF RollBackRemoval, Unlinking
  <2>3. op.had \in {"nothing", "whole", "cut"}
    BY <1>1 DEF Ops, Held
  <2>4. Accounted \subseteq Accounted' \cup op.now /\ doubt \subseteq doubt'
    BY <1>5 DEF RollBackRemoval, CutShort, Accounted
  <2>5. CASE op.had = "nothing"
    <3>1. op.now \subseteq doubt'
      BY <2>2, <2>4, <2>5 DEF VaultInv
    <3> QED
      BY <2>1, <2>4, <3>1, VaultFrame DEF VaultInv, Accounted
  <2>6. CASE op.had # "nothing" /\ op.now \subseteq cipher' \cup damaged' \cup doubt'
    BY <2>1, <2>4, <2>6, VaultFrame DEF VaultInv, Accounted
  <2>7. CASE /\ op.had # "nothing" /\ op.step = "rewrite"
             /\ UNCHANGED <<cipher, damaged, doubt>>
    <3>1. op.now \subseteq Accounted /\ Accounted' = Accounted
      BY <2>2, <2>7 DEF VaultInv, Accounted
    <3> QED
      BY <2>1, <3>1, VaultFrame DEF VaultInv
  <2>8. \/ op.had = "nothing"
        \/ op.now \subseteq cipher' \cup damaged' \cup doubt'
        \/ op.step = "rewrite" /\ UNCHANGED <<cipher, damaged, doubt>>
    BY <1>5, <2>2, <2>3 DEF RollBackRemoval, CutShort
  <2> QED
    BY <2>5, <2>6, <2>7, <2>8
<1> QED
  BY <1>2, <1>3, <1>4, <1>5

LEMMA VaultStep ==
  ASSUME TypeOK, PairingInv, VaultInv, [Next]_vars
  PROVE  VaultInv'
<1>1. op \in Ops
  BY DEF TypeOK
<1>2. CASE Fence \/ Pairing \/ RequestChange \/ RequestExport \/ Authorize \/ Revoke
           \/ Undoing \/ Listing \/ UNCHANGED vars
  <2>1. doc' = doc /\ cipher' = cipher /\ damaged' = damaged /\ op' = op
    BY <1>2 DEF Fence, SetRestricted, RestoreBegin, RestoreReset, RestoreEnd, Pairing,
                Prepare, PrepareChecked, PrepareDone, Confirm, ConfirmWrong, Discard,
                Elsewhere, RequestChange, RequestExport, Authorize, Revoke, Undoing,
                Undo, Listing, ListCall, ListRead, ListAnswer, OutsideList, vault, vars
  <2>2. doubt \subseteq doubt'
    BY <1>2 DEF Fence, SetRestricted, RestoreBegin, RestoreReset, RestoreEnd, Pairing,
                Prepare, PrepareChecked, PrepareDone, Confirm, ConfirmWrong, Discard,
                Elsewhere, RequestChange, RequestExport, Authorize, Revoke, Undoing,
                Undo, Listing, ListCall, ListRead, ListAnswer, OutsideList, vars
  <2> QED
    BY <2>1, <2>2, VaultUntouched
<1>3. ASSUME NEW r \in waiting, Start(r)
      PROVE  VaultInv'
  <2>1. doc' = doc /\ Accounted' = Accounted /\ op = NoOp
    BY <1>3 DEF Start, vault, Accounted
  <2>2. op'.now = {} /\ op'.step \notin {"write", "rollback", "rewrite"}
    BY <1>3, Started, BlankStep
  <2> QED
    BY <2>1, <2>2, BlankStep, VaultFrame DEF VaultInv
<1>4. CASE ReadSecrets \/ SaveFile \/ CheckFile \/ Record
  <2>1. doc' = doc /\ Accounted' = Accounted
    BY <1>4 DEF ReadSecrets, SaveFile, CheckFile, Record, OutsideExport, vault,
                Accounted
  <2>2. op.now = {}
    BY <1>4 DEF ReadSecrets, SaveFile, CheckFile, Record, At, VaultInv, Unlinking
  <2>3. op'.now = {} /\ op'.step \notin {"write", "rollback", "rewrite"}
    BY <1>1, <1>4, <2>2, StepTyped, BlankStep DEF ReadSecrets, SaveFile, CheckFile, Record
  <2> QED
    BY <2>1, <2>2, <2>3, VaultFrame DEF VaultInv
<1>5. CASE Crash
  <2>1. doc' = doc /\ doubt' = doubt \cup op.now /\ op' = NoOp
    BY <1>5 DEF Crash
  <2>2. cipher \cup damaged \subseteq cipher' \cup damaged' \cup op.now
    BY <1>5 DEF Crash, CutShort
  <2>3. doc'.ids \subseteq Accounted'
    BY <2>1, <2>2 DEF VaultInv, Accounted
  <2> QED
    BY <2>1, <2>3, BlankStep, VaultFrame
<1> QED
  BY <1>2, <1>3, <1>4, <1>5, ConfirmVault, EditVault, RemovalVault DEF Next, Serial
-----------------------------------------------------------------------------
(* Damage. *)

(* Faults are counted, and never forgotten. *)
LEMMA FaultsCount ==
  ASSUME TypeOK, [Next]_vars
  PROVE  /\ used["fault"] \in Nat /\ used'["fault"] \in Nat
         /\ used'["fault"] >= used["fault"]
         /\ Spend("fault") => used'["fault"] = used["fault"] + 1
<1>1. used \in [Kinds -> Nat] /\ used' \in [Kinds -> Nat]
  BY TypeStep DEF TypeOK
<1>2. \/ used' = used
      \/ \E kind \in Kinds : used' = [used EXCEPT ![kind] = @ + 1]
  BY DEF Next, Fence, SetRestricted, RestoreBegin, RestoreReset, RestoreEnd, Pairing,
         Prepare, PrepareChecked, PrepareDone, Confirm, ConfirmWrong, Discard,
         Elsewhere, RequestChange, RequestExport, Authorize, Revoke, Serial, Start,
         ConfirmRead, SealSecret, PublishEntry, RollBackSave, UnlinkSecret, EditRead,
         PublishEdit, RemoveRead, PublishRemoval, RollBackRemoval, RemoveDone,
         ReadSecrets, SaveFile, CheckFile, Record, Undoing, Undo, Listing, ListCall,
         ListRead, ListAnswer, Crash, Stopped, Going, Spend, Kinds, vars
<1>3. "fault" \in Kinds
  BY DEF Kinds
<1>4. Spend("fault") => used'["fault"] = used["fault"] + 1
  BY <1>1, <1>3 DEF Spend
<1>5. used'["fault"] \in {used["fault"], used["fault"] + 1}
  BY <1>1, <1>2, <1>3
<1>6. used["fault"] \in Nat /\ used'["fault"] \in Nat
  BY <1>1, <1>3
<1> QED
  BY <1>4, <1>5, <1>6

(* A step that damages nothing, and from which nothing is rewritten.       *)
LEMMA DamageFrame ==
  ASSUME DamageInv, damaged' \subseteq damaged, doubt \subseteq doubt',
         used["fault"] \in Nat, used'["fault"] \in Nat,
         used'["fault"] >= used["fault"],
         ~Unlinking' \/ op' = op
  PROVE  DamageInv'
<1>1. used["fault"] > 1 => used'["fault"] > 1
  OBVIOUS
<1>2. used["fault"] > 0 => used'["fault"] > 0
  OBVIOUS
<1>3. damaged' \subseteq doubt' \/ used'["fault"] > 1
  BY <1>1 DEF DamageInv
<1>4. op' = op => Unlinking' = Unlinking
  BY DEF Unlinking
<1> QED
  BY <1>1, <1>2, <1>3, <1>4 DEF DamageInv

LEMMA RemovalDamage ==
  ASSUME TypeOK, VaultInv, DamageInv, [Next]_vars,
         \/ PublishRemoval \/ RollBackRemoval \/ \E i \in Ids : UnlinkSecret(i)
  PROVE  DamageInv'
<1>1. op.kind = "remove" /\ op \in Ops
  BY DEF UnlinkSecret, PublishRemoval, RollBackRemoval, At, TypeOK
<1>2. /\ used["fault"] \in Nat /\ used'["fault"] \in Nat
      /\ used'["fault"] >= used["fault"]
  BY FaultsCount
<1>3. used["fault"] > 1 => used'["fault"] > 1
  BY <1>2
<1>4. ASSUME NEW i \in Ids, UnlinkSecret(i)
      PROVE  DamageInv'
  <2>1. doubt' = doubt /\ damaged' \subseteq damaged
    BY <1>4 DEF UnlinkSecret
  <2>2. CASE op'.step = "next"
    BY <1>2, <2>1, <2>2, DamageFrame DEF Unlinking
  <2>3. CASE op'.step # "next"
    <3>1. op'.now = {i} /\ op'.had = HeldFor(i)
      BY <1>4, <2>3, RemovalEnds
    <3>2. op'.had = "cut" => op'.now \subseteq damaged
      BY <3>1 DEF HeldFor
    <3>3. op'.step = "rewrite" => Spend("fault")
      BY <1>4, RemovalEnds
    <3>4. op'.step = "rewrite" => used'["fault"] > 0
      BY <1>2, <3>3, FaultsCount
    <3> QED
      BY <1>3, <2>1, <3>2, <3>4 DEF DamageInv
  <2> QED
    BY <2>2, <2>3
<1>5. CASE PublishRemoval
  <2>1. damaged' = damaged /\ doubt' = doubt /\ op.step = "write"
    BY <1>5 DEF PublishRemoval, At
  <2>2. CASE op'.step = "next"
    BY <1>2, <2>1, <2>2, DamageFrame DEF Unlinking
  <2>3. CASE op'.step = "rollback" /\ op'.now = op.now /\ op'.had = op.had
    BY <1>1, <1>3, <2>1, <2>3 DEF DamageInv, Unlinking
  <2> QED
    BY <1>5, <2>2, <2>3, RemovalEnds
<1>6. CASE RollBackRemoval
  <2>1. op'.step = "next" /\ doubt \subseteq doubt'
    BY <1>6, RemovalEnds DEF RollBackRemoval
  <2>2. Unlinking
    BY <1>6 DEF RollBackRemoval, Unlinking
  <2>3. CASE damaged' = damaged
    BY <1>2, <2>1, <2>3, DamageFrame DEF Unlinking
  <2>4. CASE op.had = "cut" /\ damaged' = damaged \cup op.now
    <3>1. damaged' \subseteq doubt' \/ used'["fault"] > 1
      BY <1>3, <2>1, <2>2, <2>4 DEF DamageInv
    <3> QED
      BY <2>1, <3>1 DEF DamageInv, Unlinking
  <2>5. CASE /\ Spend("fault") /\ damaged' = damaged \cup op.now
             /\ doubt' = doubt \cup op.now
    <3>1. damaged' \subseteq doubt' \/ used'["fault"] > 1
      BY <1>3, <2>5 DEF DamageInv
    <3> QED
      BY <2>1, <3>1 DEF DamageInv, Unlinking
  <2>6. CASE Spend("fault") /\ op.step = "rewrite"
    <3>1. used["fault"] > 0
      BY <2>2, <2>6 DEF DamageInv
    <3>2. used'["fault"] > 1
      BY <1>2, <2>6, <3>1, FaultsCount
    <3> QED
      BY <2>1, <3>2 DEF DamageInv, Unlinking
  <2> QED
    BY <1>6, <2>3, <2>4, <2>5, <2>6 DEF RollBackRemoval, CutShort
<1> QED
  BY <1>4, <1>5, <1>6

LEMMA DamageStep ==
  ASSUME TypeOK, VaultInv, DamageInv, [Next]_vars
  PROVE  DamageInv'
<1>1. op \in Ops
  BY DEF TypeOK
<1>2. /\ used["fault"] \in Nat /\ used'["fault"] \in Nat
      /\ used'["fault"] >= used["fault"]
  BY FaultsCount
<1>3. CASE Fence \/ Pairing \/ RequestChange \/ RequestExport \/ Authorize \/ Revoke
           \/ Undoing \/ Listing \/ UNCHANGED vars
  <2>1. damaged' = damaged /\ op' = op /\ doubt \subseteq doubt'
    BY <1>3 DEF Fence, SetRestricted, RestoreBegin, RestoreReset, RestoreEnd, Pairing,
                Prepare, PrepareChecked, PrepareDone, Confirm, ConfirmWrong, Discard,
                Elsewhere, RequestChange, RequestExport, Authorize, Revoke, Undoing,
                Undo, OutsideSave, Listing, ListCall, ListRead, ListAnswer,
                OutsideList, vault, vars
  <2> QED
    BY <1>2, <2>1, DamageFrame
<1>4. ASSUME NEW r \in waiting, Start(r)
      PROVE  DamageInv'
  <2>1. damaged' = damaged /\ doubt' = doubt
    BY <1>4 DEF Start, vault
  <2>2. ~Unlinking'
    BY <1>4, Started, BlankStep DEF Unlinking
  <2> QED
    BY <1>2, <2>1, <2>2, DamageFrame
<1>5. ASSUME NEW i \in Ids,
             \/ ConfirmRead(i) \/ SealSecret(i) \/ PublishEntry(i) \/ RollBackSave(i)
      PROVE  DamageInv'
  <2>1. damaged' \subseteq damaged /\ doubt' = doubt
    BY <1>5 DEF ConfirmRead, SealSecret, PublishEntry, RollBackSave, vault
  <2>2. op.kind = "confirm"
    BY <1>5 DEF ConfirmRead, SealSecret, PublishEntry, RollBackSave, Confirming, At
  <2>3. op'.kind # "remove"
    BY <1>1, <1>5, <2>2, GivenUp, StepTyped, BlankStep
       DEF ConfirmRead, SealSecret, PublishEntry, RollBackSave
  <2> QED
    BY <1>2, <2>1, <2>3, DamageFrame DEF Unlinking
<1>6. CASE EditRead \/ PublishEdit
  <2>1. damaged' = damaged /\ doubt' = doubt
    BY <1>6 DEF EditRead, PublishEdit, OutsideEdit
  <2>2. op.kind \in {"edit", "group"}
    BY <1>6 DEF EditRead, PublishEdit
  <2>3. op'.kind # "remove"
    BY <1>1, <1>6, <2>2, EditReadEnds, StepTyped, BlankStep DEF PublishEdit
  <2> QED
    BY <1>2, <2>1, <2>3, DamageFrame DEF Unlinking
<1>7. CASE \/ RemoveRead \/ RemoveDone
           \/ ReadSecrets \/ SaveFile \/ CheckFile \/ Record
  <2>1. damaged' = damaged /\ doubt' = doubt
    BY <1>7 DEF RemoveRead, RemoveDone, ReadSecrets, SaveFile, CheckFile, Record,
                OutsideExport, vault
  <2>2. op'.step \notin {"write", "rollback", "rewrite"}
    BY <1>1, <1>7, RemovalEnds, StepTyped, BlankStep
       DEF RemoveDone, ReadSecrets, SaveFile, CheckFile, Record
  <2> QED
    BY <1>2, <2>1, <2>2, DamageFrame DEF Unlinking
<1>8. CASE Crash
  <2>1. op' = NoOp /\ doubt' = doubt \cup op.now
    BY <1>8 DEF Crash
  <2>2. damaged' \subseteq damaged \cup op.now
    BY <1>8 DEF Crash, CutShort
  <2>3. damaged' \subseteq doubt' \/ used'["fault"] > 1
    BY <1>2, <2>1, <2>2 DEF DamageInv
  <2>4. ~Unlinking'
    BY <2>1, BlankStep DEF Unlinking
  <2> QED
    BY <2>3, <2>4 DEF DamageInv
<1> QED
  BY <1>3, <1>4, <1>5, <1>6, <1>7, <1>8, RemovalDamage DEF Next, Serial
-----------------------------------------------------------------------------
(* The secret export. *)

LEMMA ExportFrame ==
  ASSUME ExportInv, file' = file, exported' = exported,
         Exports' \subseteq Exports,
         op'.kind = "secrets" => op' = op,
         At("secrets", "check") => op' = op
  PROVE  ExportInv'
  BY DEF ExportInv, ExportIsTruthful, At

LEMMA StartExport ==
  ASSUME TypeOK, ExportInv, NEW r \in waiting, Start(r)
  PROVE  ExportInv'
<1>1. /\ waiting' = waiting \ {r} /\ file' = file /\ op.kind = "none"
      /\ Exports' \subseteq Exports
  BY BlankStep DEF Start, Exports
<1>2. CASE r.kind # "secrets"
  <2>1. exported' = exported
    BY <1>2 DEF Start
  <2>2. op'.kind # "secrets"
    BY <1>2, Started, BlankStep
  <2> QED
    BY <1>1, <2>1, <2>2, ExportFrame DEF At
<1>3. CASE r.kind = "secrets"
  <2>1. r \in Exports /\ file = "none"
    BY <1>3 DEF Exports, ExportInv
  <2>2. Exports' = {}
    BY <1>1, <2>1 DEF Exports, ExportInv
  <2>3. file' = "none"
    BY <1>1, <2>1
  <2> QED
    BY <2>2, <2>3 DEF ExportInv, ExportIsTruthful
<1> QED
  BY <1>2, <1>3

LEMMA ExportRun ==
  ASSUME TypeOK, ExportInv, ReadSecrets \/ SaveFile \/ CheckFile
  PROVE  ExportInv'
<1>1. op.kind = "secrets" /\ op \in Ops /\ waiting' = waiting
  BY DEF ReadSecrets, SaveFile, CheckFile, At, OutsideExport, TypeOK
<1>2. Exports' = {}
  BY <1>1 DEF Exports, ExportInv
<1>3. CASE ReadSecrets
  <2>1. file' = "none"
    BY <1>3 DEF ReadSecrets, At, ExportInv
  <2> QED
    BY <1>2, <2>1 DEF ExportInv, ExportIsTruthful
<1>4. CASE SaveFile
  <2>1. file = "none"
    BY <1>4 DEF SaveFile, At, ExportInv
  <2>2. CASE op' = NoOp /\ file' = file
    BY <1>2, <2>1, <2>2 DEF ExportInv, ExportIsTruthful, NoOp
  <2>3. CASE To("check")
    <3>1. op'.kind = "secrets" /\ op'.step = "check"
      BY <1>1, <2>3, StepTyped
    <3> QED
      BY <1>2, <3>1 DEF ExportInv, ExportIsTruthful, At
  <2> QED
    BY <1>4, <2>2, <2>3 DEF SaveFile
<1>5. CASE CheckFile
  <2>1. CASE exported' = "ok" /\ To("record")
    <3>1. op'.step = "record"
      BY <1>1, <2>1, StepTyped
    <3> QED
      BY <1>2, <2>1, <3>1 DEF ExportInv, ExportIsTruthful
  <2>2. CASE op' = NoOp /\ file' \in {"none", "stray"}
    BY <1>2, <2>2 DEF ExportInv, ExportIsTruthful, NoOp
  <2> QED
    BY <1>5, <2>1, <2>2 DEF CheckFile
<1> QED
  BY <1>3, <1>4, <1>5

LEMMA ExportStep ==
  ASSUME TypeOK, ExportInv, [Next]_vars
  PROVE  ExportInv'
<1>1. op \in Ops
  BY DEF TypeOK
<1>2. waiting' \subseteq waiting => Exports' \subseteq Exports
  BY DEF Exports
<1>3. CASE Fence \/ Undoing \/ Listing \/ Authorize \/ Revoke \/ UNCHANGED vars
  <2>1. file' = file /\ exported' = exported /\ op' = op /\ waiting' = waiting
    BY <1>3 DEF Fence, SetRestricted, RestoreBegin, RestoreReset, RestoreEnd, Undoing,
                Undo, OutsideSave, Listing, ListCall, ListRead, ListAnswer,
                OutsideList, Authorize, Revoke, export, vars
  <2> QED
    BY <1>2, <2>1, ExportFrame
<1>4. CASE Pairing \/ RequestChange
  <2>1. file' = file /\ exported' = exported /\ op' = op
    BY <1>4 DEF Pairing, Prepare, PrepareChecked, PrepareDone, Confirm, ConfirmWrong,
                Discard, Elsewhere, RequestChange, export
  <2>2. \/ waiting' = waiting
        \/ \E r : r.kind # "secrets" /\ waiting' = waiting \cup {r}
    <3>1. ASSUME NEW i \in Ids, Confirm(i)
          PROVE  \E r : r.kind # "secrets" /\ waiting' = waiting \cup {r}
      <4> DEFINE r == [kind |-> "confirm", left |-> {i}, gen |-> gen]
      <4>1. r.kind # "secrets" /\ waiting' = waiting \cup {r}
        BY <3>1 DEF Confirm
      <4> QED
        BY <4>1
    <3>2. CASE RequestChange
      <4>1. \A S : /\ [kind |-> "group", left |-> S, gen |-> 0].kind # "secrets"
                   /\ [kind |-> "edit", left |-> S, gen |-> 0].kind # "secrets"
                   /\ [kind |-> "remove", left |-> S, gen |-> 0].kind # "secrets"
        OBVIOUS
      <4> QED
        BY <3>2, <4>1, Zenon DEF RequestChange, Enqueue
    <3> QED
      BY <1>4, <3>1, <3>2 DEF Pairing, Prepare, PrepareChecked, PrepareDone,
                              ConfirmWrong, Discard
  <2>3. Exports' \subseteq Exports
    BY <2>2 DEF Exports
  <2> QED
    BY <2>1, <2>3, ExportFrame
<1>5. CASE RequestExport
  <2>1. Exports = {} /\ op' = op /\ op.kind # "secrets" /\ file' = "none"
    BY <1>5 DEF RequestExport, Exports
  <2>2. PICK S \in Selections :
          waiting' = waiting \cup {[kind |-> "secrets", left |-> S, gen |-> 0]}
    BY <1>5 DEF RequestExport, Enqueue
  <2>3. \A r \in Exports' : r = [kind |-> "secrets", left |-> S, gen |-> 0]
    BY <2>1, <2>2 DEF Exports
  <2> QED
    BY <2>1, <2>3 DEF ExportInv, ExportIsTruthful
<1>6. ASSUME NEW i \in Ids,
             \/ ConfirmRead(i) \/ SealSecret(i) \/ PublishEntry(i) \/ RollBackSave(i)
      PROVE  ExportInv'
  <2>1. file' = file /\ exported' = exported /\ waiting' = waiting
    BY <1>6 DEF ConfirmRead, SealSecret, PublishEntry, RollBackSave, OutsideSave, export
  <2>2. op.kind = "confirm"
    BY <1>6 DEF ConfirmRead, SealSecret, PublishEntry, RollBackSave, Confirming, At
  <2>3. op'.kind # "secrets"
    BY <1>1, <1>6, <2>2, GivenUp, StepTyped, BlankStep
       DEF ConfirmRead, SealSecret, PublishEntry, RollBackSave
  <2> QED
    BY <1>2, <2>1, <2>2, <2>3, ExportFrame DEF At
<1>7. CASE EditRead \/ PublishEdit
  <2>1. file' = file /\ exported' = exported /\ waiting' = waiting
    BY <1>7 DEF EditRead, PublishEdit, OutsideEdit, export
  <2>2. op.kind \in {"edit", "group"}
    BY <1>7 DEF EditRead, PublishEdit
  <2>3. op'.kind # "secrets"
    BY <1>1, <1>7, <2>2, EditReadEnds, StepTyped, BlankStep DEF PublishEdit
  <2> QED
    BY <1>2, <2>1, <2>2, <2>3, ExportFrame DEF At
<1>8. CASE \/ RemoveRead \/ PublishRemoval \/ RollBackRemoval \/ RemoveDone
           \/ \E i \in Ids : UnlinkSecret(i)
  <2>1. file' = file /\ exported' = exported /\ waiting' = waiting
    BY <1>8 DEF RemoveRead, UnlinkSecret, PublishRemoval, RollBackRemoval, RemoveDone,
                OutsideRemove, export
  <2>2. op.kind = "remove"
    BY <1>8 DEF RemoveRead, UnlinkSecret, PublishRemoval, RollBackRemoval, RemoveDone, At
  <2>3. op'.kind # "secrets"
    BY <1>1, <1>8, <2>2, RemovalEnds, StepTyped, BlankStep DEF RemoveDone
  <2> QED
    BY <1>2, <2>1, <2>2, <2>3, ExportFrame DEF At
<1>9. CASE Record
  <2>1. /\ file' = file /\ exported' = exported /\ waiting' = waiting
        /\ op' = NoOp /\ op.step = "record"
    BY <1>9 DEF Record, export
  <2> QED
    BY <1>2, <2>1, BlankStep, ExportFrame DEF At
<1>10. CASE Crash
  <2>1. Exports' = {} /\ op' = NoOp
    BY <1>10 DEF Crash, Exports
  <2>2. file' = "written" => exported' = "ok"
    BY <1>10 DEF Crash, TypeOK
  <2> QED
    BY <2>1, <2>2, BlankStep DEF ExportInv, ExportIsTruthful
<1> QED
  BY <1>3, <1>4, <1>5, <1>6, <1>7, <1>8, <1>9, <1>10, StartExport, ExportRun
     DEF Next, Serial
-----------------------------------------------------------------------------
(* The invariant, and what follows from it. *)

LEMMA AuthInitially == Init => AuthInv
<1> SUFFICES ASSUME Init PROVE AuthInv
  OBVIOUS
<1>1. TypeOK
  BY InitTyped
<1>2. doc.ids \subseteq Ids
  BY <1>1 DEF TypeOK, Documents
<1>3. \A i \in Ids : reg[i] = IF i \in doc.ids THEN "gone" ELSE "none"
  BY DEF Init
<1>4. FencedMeansCleared
  BY <1>3 DEF FencedMeansCleared, Open
<1>5. PairingInv
  BY <1>2, <1>3 DEF Init, PairingInv, RunningOk, Confirmations, NoOp
<1>6. VaultInv /\ DamageInv
  BY DEF Init, VaultInv, DamageInv, Accounted, Unlinking, NoOp
<1>7. ExportInv
  BY DEF Init, ExportInv, ExportIsTruthful, Exports, NoOp
<1> QED
  BY <1>1, <1>4, <1>5, <1>6, <1>7 DEF AuthInv

LEMMA AuthStep == AuthInv /\ [Next]_vars => AuthInv'
<1> SUFFICES ASSUME AuthInv, [Next]_vars PROVE AuthInv'
  OBVIOUS
<1>1. TypeOK'
  BY TypeStep DEF AuthInv
<1> QED
  BY <1>1, ClearedStep, PairingStep, VaultStep, DamageStep, ExportStep DEF AuthInv

(* What the authenticator's main-process side keeps at every step: types,  *)
(* no open pairing behind a fence, confirmations that cannot meet, a vault *)
(* as whole as the operation under way leaves it, the damage of a removal  *)
(* whose rewriting failed included, and one secret export.                 *)
THEOREM AuthInvariant == Spec => []AuthInv
  BY AuthInitially, AuthStep, PTL DEF Spec

(* The lines of setRestricted, setHistoryRestoreInProgress and             *)
(* resetAfterHistoryRestore that clear the pending registrations do so for *)
(* good: no prepare or confirm that was under way brings one back while    *)
(* the fence is up (authenticator-service.ts:210-233, 332-340).            *)
THEOREM FencesClear == Spec => []FencedMeansCleared
<1>1. AuthInv => FencedMeansCleared
  BY DEF AuthInv
<1> QED
  BY <1>1, AuthInvariant, PTL

(* Every listed entry keeps its whole ciphertext through saves and         *)
(* removals that fail, are fenced or are cut short, but the one reported   *)
(* uncertain and the one whose ciphertext a failing rewriting has damaged, *)
(* and one failure alone damages none that is not reported                 *)
(* (authenticator-vault.ts:219-321).                                       *)
THEOREM VaultStaysWhole == Spec => []VaultIsWhole
<1>1. AuthInv => VaultIsWhole
  BY DEF AuthInv, VaultInv, DamageInv, Accounted, VaultIsWhole
<1> QED
  BY <1>1, AuthInvariant, PTL

(* The file of a secret export is there only while it is checked or once   *)
(* the export has been answered as done (authenticator-service.ts:984-998).*)
THEOREM ExportsAreTruthful == Spec => []ExportIsTruthful
<1>1. AuthInv => ExportIsTruthful
  BY DEF AuthInv, ExportInv
<1> QED
  BY <1>1, AuthInvariant, PTL

(* An entry whose pairing has ended and that is not listed is never listed *)
(* again: what an edit writes back is what the serial has kept unchanged   *)
(* since it was read, and a confirmation publishes only the pairing that   *)
(* is still being confirmed (authenticator-service.ts:590-626).            *)
THEOREM GoneForGood == Spec => NothingComesBack
<1>1. ASSUME AuthInv, [Next]_vars
      PROVE  \A i \in Ids : reg[i] = "gone" /\ i \notin doc.ids => i \notin doc'.ids
  <2> SUFFICES ASSUME NEW i \in Ids, reg[i] = "gone", i \notin doc.ids
               PROVE  i \notin doc'.ids
    OBVIOUS
  <2>1. TypeOK /\ VaultInv
    BY <1>1 DEF AuthInv
  <2>2. ASSUME NEW k \in Ids, PublishEntry(k)
        PROVE  i \notin doc'.ids
    <3>1. \/ doc' = doc
          \/ Commit(k) /\ doc' = [doc EXCEPT !.ids = @ \cup {k}]
      BY <2>2 DEF PublishEntry, Going
    <3> QED
      BY <2>1, <3>1 DEF Commit, TypeOK, Documents
  <2>3. CASE PublishEdit
    <3>1. op.before.ids = doc.ids
      BY <2>1, <2>3 DEF PublishEdit, VaultInv
    <3> QED
      BY <2>3, <3>1 DEF PublishEdit
  <2>4. CASE PublishRemoval
    BY <2>1, <2>4 DEF PublishRemoval, TypeOK, Documents
  <2>5. CASE Fence \/ Pairing \/ RequestChange \/ RequestExport \/ Authorize \/ Revoke
             \/ Undoing \/ Listing \/ UNCHANGED vars
    BY <2>5 DEF Fence, SetRestricted, RestoreBegin, RestoreReset, RestoreEnd, Pairing,
                Prepare, PrepareChecked, PrepareDone, Confirm, ConfirmWrong, Discard,
                Elsewhere, RequestChange, RequestExport, Authorize, Revoke, Undoing,
                Undo, Listing, ListCall, ListRead, ListAnswer, OutsideList, vault, vars
  <2>6. CASE \/ \E r \in waiting : Start(r)
             \/ \E k \in Ids : \/ ConfirmRead(k) \/ SealSecret(k) \/ RollBackSave(k)
                               \/ UnlinkSecret(k)
             \/ EditRead \/ RemoveRead \/ RollBackRemoval \/ RemoveDone
             \/ ReadSecrets \/ SaveFile \/ CheckFile \/ Record \/ Crash
    BY <2>6 DEF Start, ConfirmRead, SealSecret, RollBackSave, UnlinkSecret, EditRead,
                RemoveRead, RollBackRemoval, RemoveDone, ReadSecrets, SaveFile,
                CheckFile, Record, Crash, OutsideExport, vault
  <2> QED
    BY <1>1, <2>2, <2>3, <2>4, <2>5, <2>6 DEF Next, Serial
<1> QED
  BY <1>1, AuthInvariant, PTL DEF NothingComesBack, Spec
=============================================================================
