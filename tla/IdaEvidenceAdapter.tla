------------------------ MODULE IdaEvidenceAdapter ------------------------
(***************************************************************************)
(* Persistence of the evidence ledger in the IDB: ida_evidence_store.cpp   *)
(* (two envelope slots, a commit marker, the former one-node layout) with  *)
(* the restore and persist calls viy.cpp makes around a session.           *)
(*                                                                         *)
(* An envelope is the set of observations it encodes; the SHA-256 trailer  *)
(* and the decoder are what make "valid" differ from "torn".  The decoder   *)
(* refuses more observations than DecodeLimit; the encoder has no limit.   *)
(* Writing a blob takes two steps, so a crash can fall inside it.  Besides *)
(* succeeding, the storage may                                             *)
(*   die with the process between two steps, tearing the blob that is      *)
(*     being written or the marker that is being set;                      *)
(*   read a blob back differently from what was written;                   *)
(*   refuse: setblob returns false, leaving the slot torn or as it was, or *)
(*     altset returns false, leaving the marker alone.                     *)
(***************************************************************************)
EXTENDS Integers, FiniteSets

CONSTANTS
    Observations,
    DecodeLimit     \* StoreCodecLimits::max_observations

Slots == {"A", "B"}
Absent == [state |-> "absent", obs |-> {}]
Torn == [state |-> "torn", obs |-> {}]
Envelope(obs) == [state |-> "valid", obs |-> obs]
Contents == {Absent, Torn} \cup {Envelope(o) : o \in SUBSET Observations}
NoMarker == "none"      \* altval of an index never set
TornMarker == "torn"

VARIABLES
    node,       \* the marker netnode exists
    marker,     \* its altval(kActiveIndex)
    slot,       \* the two separate slot netnodes
    legacy,     \* envelopes of the adjacent-index layout, in the marker node
    pc,         \* closed, running, or inside a read_blob / write_blob
    target,     \* the slot being staged or committed
    blob,       \* the bytes being staged or committed
    mode,       \* why: "write", "repair" or "migrate"
    ledger,     \* the in-memory EvidenceStore of the open session
    committed,  \* history: everything any successful write_blob held
    offered,    \* history: what the last read_blob found to restore
    refused     \* history: the storage has refused a write

vars == <<node, marker, slot, legacy, pc, target, blob, mode, ledger,
          committed, offered, refused>>
disk == <<node, marker, slot, legacy>>

Other(s) == IF s = "A" THEN "B" ELSE "A"

(* EvidenceStore::deserialize accepts the envelope of a ledger.           *)
Decodes(obs) == Cardinality(obs) <= DecodeLimit

Valid(content) == content.state = "valid" /\ Decodes(content.obs)
ValidSlots == {s \in Slots : Valid(slot[s])}
ValidLegacy == {s \in Slots : Valid(legacy[s])}
MarkerInvalid == marker \notin Slots

(* The legacy envelope that read_blob tries first: the active index, then *)
(* the other.                                                             *)
LegacyChoice == IF marker \in ValidLegacy THEN marker ELSE Other(marker)

(* What read_blob would restore from the database as it stands.           *)
Recoverable ==
    IF ~node THEN {}
    ELSE IF MarkerInvalid
    THEN LET merged == UNION {slot[s].obs : s \in ValidSlots}
         IN IF Decodes(merged) THEN merged ELSE {}
    ELSE IF marker \in ValidSlots THEN slot[marker].obs
    ELSE IF Other(marker) \in ValidSlots THEN slot[Other(marker)].obs
    ELSE IF ValidLegacy # {} THEN legacy[LegacyChoice].obs
    ELSE {}

(* A database viy never wrote to, or one written with the former layout,  *)
(* whose overlapping blobs need not both have survived; if they did, the  *)
(* active one is the later ledger.                                        *)
Init ==
    /\ \/ /\ node = FALSE
          /\ marker = NoMarker
          /\ legacy = [s \in Slots |-> Absent]
          /\ committed = {}
       \/ /\ node = TRUE
          /\ marker \in Slots
          /\ legacy \in [Slots -> Contents \ {Absent}]
          /\ \A s \in Slots : Decodes(legacy[s].obs)
          /\ ValidLegacy # {}
          /\ ValidLegacy = Slots =>
                legacy[Other(marker)].obs \subseteq legacy[marker].obs
          /\ committed = legacy[LegacyChoice].obs
    /\ slot = [s \in Slots |-> Absent]
    /\ pc = "closed"
    /\ target = "A"
    /\ blob = {}
    /\ mode = "write"
    /\ ledger = {}
    /\ offered = {}
    /\ refused = FALSE

-----------------------------------------------------------------------------
(* read_blob, called by EvidenceStore::restore(Replace) from the          *)
(* constructor of viy_t.                                                  *)

(* restore returns: with the decoded envelope, or false and an empty      *)
(* ledger.  The session runs in both cases.                               *)
Restored(obs) ==
    /\ pc' = "running"
    /\ ledger' = obs
    /\ UNCHANGED <<target, blob, mode>>

(* read_blob goes on to change the database.                              *)
Repair(step, s, obs, why) ==
    /\ pc' = step
    /\ target' = s
    /\ blob' = obs
    /\ mode' = why
    /\ UNCHANGED ledger

OpenNotFound ==
    /\ ~node
    /\ Restored({})

(* Mutant: slot A wins where both envelopes are valid.                    *)
OpenMarkerInvalidKeepsOne ==
    /\ node /\ MarkerInvalid
    /\ \/ /\ ValidSlots = {}
          /\ Restored({})
       \/ /\ ValidSlots = Slots
          /\ Repair("mark", "A", slot["A"].obs, "repair")
       \/ \E s \in Slots :
             /\ ValidSlots = {s}
             /\ Repair("mark", s, slot[s].obs, "repair")

(* The marker names no slot: both valid envelopes are merged and staged   *)
(* into slot A; a single valid one is made active.                        *)
OpenMarkerInvalid ==
    /\ node /\ MarkerInvalid
    /\ \/ /\ ValidSlots = {}
          /\ Restored({})
       \/ /\ ValidSlots = Slots
          /\ Repair("stage", "A", slot["A"].obs \cup slot["B"].obs, "repair")
       \/ \E s \in Slots :
             /\ ValidSlots = {s}
             /\ Repair("mark", s, slot[s].obs, "repair")

(* The active slot, else the fallback, else a legacy envelope.            *)
OpenMarkerValid ==
    /\ node /\ ~MarkerInvalid
    /\ \/ /\ marker \in ValidSlots
          /\ Restored(slot[marker].obs)
       \/ /\ marker \notin ValidSlots
          /\ Other(marker) \in ValidSlots
          /\ Repair("mark", Other(marker), slot[Other(marker)].obs, "repair")
       \/ /\ ValidSlots = {}
          /\ ValidLegacy # {}
          /\ Repair("stage", LegacyChoice, legacy[LegacyChoice].obs, "migrate")
       \/ /\ ValidSlots = {} /\ ValidLegacy = {}
          /\ Restored({})

Open ==
    /\ pc = "closed"
    /\ OpenNotFound \/ OpenMarkerInvalid \/ OpenMarkerValid
    /\ offered' = Recoverable
    /\ UNCHANGED <<disk, committed, refused>>

-----------------------------------------------------------------------------
(* The session records an observation; the ledger only grows.             *)
Record ==
    /\ pc = "running"
    /\ \E o \in Observations \ ledger : ledger' = ledger \cup {o}
    /\ UNCHANGED <<disk, pc, target, blob, mode, committed, offered, refused>>

(* Mutants: the active slot itself, and the marker as it stands when it   *)
(* names no slot.                                                         *)
ActiveSlot == IF marker = "B" THEN "B" ELSE "A"

(* The slot write_blob stages into.                                       *)
InactiveSlot == IF marker = "A" THEN "B" ELSE "A"

(* persist -> write_blob, up to choosing the slot that is not active; an  *)
(* envelope that does not decode is refused before anything is touched.   *)
Persist ==
    /\ pc = "running" /\ Decodes(ledger)
    /\ node' = TRUE
    /\ target' = InactiveSlot
    /\ blob' = ledger
    /\ mode' = "write"
    /\ pc' = "stage"
    /\ UNCHANGED <<marker, slot, legacy, ledger, committed, offered, refused>>

(* stage_slot: setblob starts to replace the slot's old bytes.            *)
StageBegin ==
    /\ pc = "stage"
    /\ slot' = [slot EXCEPT ![target] = Torn]
    /\ pc' = "staging"
    /\ UNCHANGED <<node, marker, legacy, target, blob, mode, ledger, committed, offered, refused>>

StageEnd ==
    /\ pc = "staging"
    /\ slot' = [slot EXCEPT ![target] = Envelope(blob)]
    /\ pc' = IF mode = "write" THEN "verify" ELSE "mark"
    /\ UNCHANGED <<node, marker, legacy, target, blob, mode, ledger, committed, offered, refused>>

(* Mutant: the result of stage_slot is not looked at.                     *)
StageFailureIgnored ==
    /\ pc \in {"stage", "staging"}
    /\ pc' = "mark"
    /\ refused' = TRUE
    /\ UNCHANGED <<disk, target, blob, mode, ledger, committed, offered>>

(* create or setblob returns false: write_blob and the merge repair give  *)
(* up; a migration of the active legacy slot goes on to the other one.    *)
StageFails ==
    /\ pc \in {"stage", "staging"}
    /\ IF mode = "migrate" /\ target = marker /\ Other(marker) \in ValidLegacy
       THEN Repair("stage", Other(marker), legacy[Other(marker)].obs, "migrate")
       ELSE pc' = "running" /\ UNCHANGED <<target, blob, mode, ledger>>
    /\ refused' = TRUE
    /\ UNCHANGED <<disk, committed, offered>>

(* write_blob reads the staged slot back and compares and decodes it.     *)
VerifyOk ==
    /\ pc = "verify"
    /\ slot[target] = Envelope(blob) /\ Decodes(blob)
    /\ pc' = "mark"
    /\ UNCHANGED <<disk, target, blob, mode, ledger, committed, offered, refused>>

VerifyFails ==
    /\ pc = "verify"
    /\ slot' = [slot EXCEPT ![target] = Absent]
    /\ pc' = "running"
    /\ UNCHANGED <<node, marker, legacy, target, blob, mode, ledger, committed, offered, refused>>

(* What restore makes of the blob read_blob returns: a merged envelope    *)
(* may be too large to decode.                                            *)
RestoredLedger == IF Decodes(blob) THEN blob ELSE {}

(* altset succeeds: write_blob has committed, read_blob returns the blob. *)
Mark ==
    /\ pc = "mark"
    /\ marker' = target
    /\ pc' = "running"
    /\ IF mode = "write"
       THEN /\ committed' = committed \cup blob
            /\ UNCHANGED ledger
       ELSE /\ ledger' = RestoredLedger
            /\ UNCHANGED committed
    /\ UNCHANGED <<node, slot, legacy, target, blob, mode, offered, refused>>

(* altset returns false: write_blob kills the staged slot; read_blob      *)
(* ignores the result.                                                    *)
MarkFails ==
    /\ pc = "mark"
    /\ pc' = "running"
    /\ refused' = TRUE
    /\ IF mode = "write"
       THEN /\ slot' = [slot EXCEPT ![target] = Absent]
            /\ UNCHANGED ledger
       ELSE /\ ledger' = RestoredLedger
            /\ UNCHANGED slot
    /\ UNCHANGED <<node, marker, legacy, target, blob, mode, committed, offered>>

(* IdaEvidenceAdapter::erase *)
Erase ==
    /\ pc = "running"
    /\ node' = FALSE
    /\ marker' = NoMarker
    /\ slot' = [s \in Slots |-> Absent]
    /\ legacy' = [s \in Slots |-> Absent]
    /\ committed' = {}
    /\ offered' = {}
    /\ UNCHANGED <<pc, target, blob, mode, ledger, refused>>

Close ==
    /\ pc = "running"
    /\ pc' = "closed"
    /\ ledger' = {}
    /\ UNCHANGED <<disk, target, blob, mode, committed, offered, refused>>

(* The process dies; a marker that was being set may be torn.             *)
Crash ==
    /\ pc # "closed"
    /\ pc' = "closed"
    /\ ledger' = {}
    /\ \/ UNCHANGED marker
       \/ pc = "mark" /\ marker' = TornMarker
    /\ UNCHANGED <<node, slot, legacy, target, blob, mode, committed, offered, refused>>

Next ==
    \/ Open \/ Record \/ Persist
    \/ StageBegin \/ StageEnd \/ StageFails
    \/ VerifyOk \/ VerifyFails
    \/ Mark \/ MarkFails
    \/ Erase \/ Close \/ Crash

Spec == Init /\ [][Next]_vars

-----------------------------------------------------------------------------
(* Properties *)

(* An interruption leaves the old or the new envelope, never less: at     *)
(* every instant, whatever is in progress, a restart would restore every  *)
(* observation a successful write_blob ever held (the storage may crash   *)
(* and misread, but has not refused a write).                             *)
CommittedSurvives == ~refused => committed \subseteq Recoverable

(* Once the marker names a valid envelope it never again names a partial  *)
(* one, whatever fails: only a torn marker or erase() takes it away       *)
(* (ida_evidence_store.cpp:218, "never a committed partial                *)
(* serialization").  And as long as the storage refused no write, a valid *)
(* envelope is only ever overwritten by a write when the other slot is    *)
(* the validated active one (ida_evidence_store.cpp:247).                 *)
NeverCommitsPartial ==
    [][/\ (marker \in ValidSlots) =>
             (marker' \in ValidSlots' \/ marker' \notin Slots)
       /\ (/\ mode = "write" /\ pc = "stage" /\ pc' = "staging"
           /\ Valid(slot[target]) /\ ~refused)
             => marker = Other(target) /\ Valid(slot[marker])]_vars

(* write_blob returns true.                                               *)
WriteCommits == mode = "write" /\ pc = "mark" /\ marker' = target

(* When write_blob returns true, a restart restores exactly the ledger it *)
(* was given, whatever failed before and whatever the slots, the marker   *)
(* and the legacy node held; and as long as the storage refused no write, *)
(* that ledger holds all that the envelopes committed before it held.     *)
WriteReadsBack ==
    [][WriteCommits => /\ Recoverable' = blob
                       /\ ~refused => committed \subseteq blob]_vars

(* What read_blob repairs or migrates it also restores: when it has set   *)
(* the marker, the session holds all that the database had to offer, and  *)
(* a restart restores the same.  Nobody checks that the union of two      *)
(* envelopes is small enough to decode; it is, because one of them always *)
(* contains the other as long as the storage refused no write.            *)
RepairRestoresAll ==
    [][(mode # "write" /\ pc = "mark" /\ pc' = "running" /\ ~refused')
          => Recoverable' = ledger' /\ offered \subseteq ledger']_vars

(* "The persisted ledger is append-only history" (README.md:213), also    *)
(* when a repair or a migration could not be staged.                      *)
PersistedLedgerIsAppendOnly == [][WriteCommits => committed \subseteq blob]_vars

(* Recovery discards nothing: what one restart found to restore, the next *)
(* restart can restore too (ida_evidence_store.cpp:114).                  *)
RecoveryDiscardsNothing ==
    (pc = "closed" /\ ~refused) => offered \subseteq Recoverable
=============================================================================
