---------------------- MODULE IdaEvidenceAdapterProofs ----------------------
(***************************************************************************)
(* Proofs about the persisted evidence ledger, for every set of            *)
(* observations and every decoder limit.                                   *)
(***************************************************************************)
EXTENDS IdaEvidenceAdapter, TLAPS

Content == [state : {"absent", "torn", "valid"}, obs : SUBSET Observations]

(* read_blob or write_blob is changing the database.                      *)
Writing == pc \in {"stage", "staging", "verify", "mark"}

AdapterTypes ==
    /\ node \in BOOLEAN
    /\ marker \in Slots \cup {NoMarker, TornMarker}
    /\ slot \in [Slots -> Content]
    /\ legacy \in [Slots -> Content]
    /\ pc \in {"closed", "running", "stage", "staging", "verify", "mark"}
    /\ target \in Slots
    /\ mode \in {"write", "repair", "migrate"}
    /\ blob \in SUBSET Observations
    /\ ledger \in SUBSET Observations
    /\ refused \in BOOLEAN

(* Whatever the storage does: a write stages the ledger it was given into *)
(* the slot that is not active, a repair or a migration is only under way *)
(* while the marker names no valid envelope, and the slot that is about   *)
(* to be made active holds the blob.                                      *)
StagingInOrder ==
    /\ ~node => /\ marker = NoMarker
                /\ \A s \in Slots : slot[s] = Absent /\ legacy[s] = Absent
    /\ Writing => node
    /\ Writing /\ mode = "write" =>
          target = InactiveSlot /\ blob = ledger /\ Decodes(blob)
    /\ Writing /\ mode # "write" /\ marker \in ValidSlots =>
          pc = "mark" /\ marker = target
    /\ pc = "verify" => mode = "write"
    /\ pc \in {"verify", "mark"} => slot[target] = Envelope(blob)

(* What a restart would restore holds all that was committed; while the   *)
(* marker names no slot, so does each valid envelope, and one of two      *)
(* contains the other.                                                    *)
DiskHoldsCommitted ==
    /\ MarkerInvalid =>
          /\ \A s \in ValidSlots : committed \subseteq slot[s].obs
          /\ ValidSlots = {} => committed = {}
          /\ ValidSlots = Slots => \/ slot["A"].obs \subseteq slot["B"].obs
                                   \/ slot["B"].obs \subseteq slot["A"].obs
    /\ ~MarkerInvalid =>
          \/ marker \in ValidSlots /\ committed \subseteq slot[marker].obs
          \/ /\ marker \notin ValidSlots
             /\ Other(marker) \in ValidSlots
             /\ committed \subseteq slot[Other(marker)].obs
          \/ /\ ValidSlots = {} /\ ValidLegacy # {}
             /\ committed \subseteq legacy[LegacyChoice].obs

(* An open session that is not repairing holds the active envelope, or    *)
(* there is nothing committed and no envelope but the one being staged.   *)
SessionHoldsCommitted ==
    (pc = "running" \/ (Writing /\ mode = "write")) =>
        \/ /\ marker \in ValidSlots
           /\ committed \subseteq slot[marker].obs
           /\ slot[marker].obs \subseteq ledger
        \/ /\ MarkerInvalid /\ committed = {}
           /\ \A s \in ValidSlots : pc \in {"verify", "mark"} /\ s = target

(* A repair writes all that read_blob found, keeping a slot that holds    *)
(* what was committed until the blob is in place.                         *)
RepairHoldsCommitted ==
    (Writing /\ mode = "repair") =>
        /\ offered = blob /\ committed \subseteq blob /\ Decodes(blob)
        /\ pc \in {"stage", "staging"} =>
              /\ target = "A" /\ MarkerInvalid /\ "B" \in ValidSlots
              /\ slot["B"].obs \subseteq blob
        /\ pc = "mark" =>
              /\ MarkerInvalid \/ marker = Other(target) \/ marker = target
              /\ Other(target) \in ValidSlots =>
                    /\ MarkerInvalid
                    /\ committed \subseteq slot[Other(target)].obs
                    /\ slot[Other(target)].obs \subseteq blob

(* A migration copies the legacy envelope that read_blob chose.           *)
MigrationHoldsCommitted ==
    (Writing /\ mode = "migrate") =>
        /\ ~MarkerInvalid /\ ValidLegacy # {}
        /\ target = LegacyChoice /\ blob = legacy[target].obs
        /\ offered = blob /\ committed \subseteq blob /\ Decodes(blob)
        /\ pc \in {"stage", "staging"} => ValidSlots = {}
        /\ Other(target) \notin ValidSlots

AdapterInv ==
    /\ AdapterTypes
    /\ StagingInOrder
    /\ ~refused => /\ DiskHoldsCommitted
                   /\ SessionHoldsCommitted
                   /\ RepairHoldsCommitted
                   /\ MigrationHoldsCommitted

-----------------------------------------------------------------------------
(* What the decoder accepts of the three kinds of contents.               *)
LEMMA ValidContents ==
    /\ ~Valid(Torn) /\ ~Valid(Absent)
    /\ \A obs : Valid(Envelope(obs)) <=> Decodes(obs)
    /\ \A obs : Envelope(obs).obs = obs
    /\ Torn \in Content /\ Absent \in Content
    /\ \A obs \in SUBSET Observations : Envelope(obs) \in Content
  BY DEF Valid, Torn, Absent, Envelope, Content

(* What read_blob restores in each state of the database.                 *)
LEMMA RecoverableCases ==
    ASSUME AdapterTypes, node
    PROVE  /\ MarkerInvalid /\ ValidSlots = {} => Recoverable = {}
           /\ MarkerInvalid /\ ValidSlots = Slots =>
                 Recoverable = IF Decodes(slot["A"].obs \cup slot["B"].obs)
                               THEN slot["A"].obs \cup slot["B"].obs ELSE {}
           /\ \A s \in Slots : MarkerInvalid /\ ValidSlots = {s} => Recoverable = slot[s].obs
           /\ marker \in ValidSlots => Recoverable = slot[marker].obs
           /\ marker \in Slots \ ValidSlots /\ Other(marker) \in ValidSlots =>
                 Recoverable = slot[Other(marker)].obs
           /\ marker \in Slots /\ ValidSlots = {} /\ ValidLegacy # {} =>
                 Recoverable = legacy[LegacyChoice].obs
  <1>1. ASSUME MarkerInvalid
        PROVE  Recoverable = IF Decodes(UNION {slot[s].obs : s \in ValidSlots})
                             THEN UNION {slot[s].obs : s \in ValidSlots} ELSE {}
    BY <1>1 DEF Recoverable
  <1>2. ASSUME MarkerInvalid, ValidSlots = {}
        PROVE  Recoverable = {}
    <2>1. UNION {slot[s].obs : s \in ValidSlots} = {}
      BY <1>2
    <2> QED BY <1>1, <1>2, <2>1
  <1>3. ASSUME MarkerInvalid, ValidSlots = Slots
        PROVE  Recoverable = IF Decodes(slot["A"].obs \cup slot["B"].obs)
                             THEN slot["A"].obs \cup slot["B"].obs ELSE {}
    <2>1. UNION {slot[s].obs : s \in ValidSlots} = slot["A"].obs \cup slot["B"].obs
      BY <1>3 DEF Slots
    <2> QED BY <1>1, <1>3, <2>1, Zenon
  <1>4. ASSUME NEW s \in Slots, MarkerInvalid, ValidSlots = {s}
        PROVE  Recoverable = slot[s].obs
    <2>1. UNION {slot[u].obs : u \in ValidSlots} = slot[s].obs
      BY <1>4
    <2>2. Decodes(slot[s].obs)
      BY <1>4 DEF ValidSlots, Valid
    <2> QED BY <1>1, <1>4, <2>1, <2>2
  <1>5. ~MarkerInvalid <=> marker \in Slots
    BY DEF MarkerInvalid
  <1>6. ValidSlots \subseteq Slots
    BY DEF ValidSlots
  <1>7. ASSUME marker \in Slots
        PROVE  Recoverable = IF marker \in ValidSlots THEN slot[marker].obs
                             ELSE IF Other(marker) \in ValidSlots THEN slot[Other(marker)].obs
                             ELSE IF ValidLegacy # {} THEN legacy[LegacyChoice].obs
                             ELSE {}
    BY <1>5, <1>7 DEF Recoverable
  <1> QED BY <1>2, <1>3, <1>4, <1>5, <1>6, <1>7

(* The initial databases.                                                 *)
LEMMA InitAdapter == Init => AdapterInv
  <1> SUFFICES ASSUME Init PROVE AdapterInv
    OBVIOUS
  <1>1. AdapterTypes
    <2>1. Contents \subseteq Content
      BY ValidContents DEF Contents
    <2>2. slot \in [Slots -> Content] /\ legacy \in [Slots -> Content]
      BY <2>1, ValidContents DEF Init
    <2>3. node \in BOOLEAN /\ refused \in BOOLEAN
      BY Zenon DEF Init
    <2>4. marker \in Slots \cup {NoMarker, TornMarker}
      BY DEF Init
    <2> QED BY <2>2, <2>3, <2>4 DEF Init, AdapterTypes, Slots
  <1>2. ValidSlots = {}
    BY ValidContents DEF Init, ValidSlots
  <1>3. StagingInOrder
    BY DEF Init, StagingInOrder, Writing
  <1>4. DiskHoldsCommitted
    BY <1>2 DEF Init, DiskHoldsCommitted, MarkerInvalid, Slots, NoMarker
  <1>5. SessionHoldsCommitted /\ RepairHoldsCommitted /\ MigrationHoldsCommitted
    BY DEF Init, SessionHoldsCommitted, RepairHoldsCommitted,
           MigrationHoldsCommitted, Writing
  <1> QED BY <1>1, <1>3, <1>4, <1>5 DEF AdapterInv

(* A step that leaves the disk alone and starts no repair or write.       *)
LEMMA QuietSteps ==
    ASSUME AdapterInv, UNCHANGED <<disk, committed>>,
           \/ Record \/ VerifyOk \/ Close
    PROVE  AdapterInv'
  <1>0. /\ AdapterTypes /\ StagingInOrder
        /\ ~refused => DiskHoldsCommitted /\ SessionHoldsCommitted
    BY DEF AdapterInv
  <1>1. UNCHANGED <<node, marker, slot, legacy, committed, refused, MarkerInvalid,
                    ValidSlots, ValidLegacy, LegacyChoice, InactiveSlot>>
    BY DEF disk, MarkerInvalid, ValidSlots, ValidLegacy, LegacyChoice, InactiveSlot,
           Record, VerifyOk, Close
  <1>2. AdapterTypes'
    BY <1>0, <1>1 DEF AdapterTypes, Record, VerifyOk, Close
  <1>3. StagingInOrder'
    BY <1>0, <1>1 DEF StagingInOrder, Writing, Record, VerifyOk, Close
  <1>4. ~refused => DiskHoldsCommitted'
    BY <1>0, <1>1 DEF DiskHoldsCommitted
  <1>5. ~refused => SessionHoldsCommitted'
    BY <1>0, <1>1 DEF StagingInOrder, SessionHoldsCommitted, Writing, Record, VerifyOk, Close
  <1>6. RepairHoldsCommitted' /\ MigrationHoldsCommitted'
    BY <1>0 DEF StagingInOrder, RepairHoldsCommitted, MigrationHoldsCommitted, Writing,
                Record, VerifyOk, Close
  <1> QED BY <1>1, <1>2, <1>3, <1>4, <1>5, <1>6 DEF AdapterInv

(* Slots and their validity, for the case analyses below.                 *)
LEMMA SlotFacts ==
    /\ Slots = {"A", "B"}
    /\ \A s \in Slots : Other(s) \in Slots /\ Other(s) # s /\ Other(Other(s)) = s
    /\ \A s, u \in Slots : u = s \/ u = Other(s)
    /\ \A s : s \in ValidSlots <=> s \in Slots /\ Valid(slot[s])
    /\ \A s : s \in ValidLegacy <=> s \in Slots /\ Valid(legacy[s])
    /\ InactiveSlot \in Slots
    /\ MarkerInvalid <=> marker \notin Slots
    /\ ~MarkerInvalid => InactiveSlot = Other(marker)
  BY DEF Slots, Other, ValidSlots, ValidLegacy, InactiveSlot, MarkerInvalid

(* One slot is rewritten; the other keeps its contents.                   *)
LEMMA RewrittenSlot ==
    ASSUME AdapterTypes, NEW s \in Slots, NEW content \in Content,
           slot' = [slot EXCEPT ![s] = content]
    PROVE  /\ slot' \in [Slots -> Content]
           /\ slot'[s] = content /\ slot'[Other(s)] = slot[Other(s)]
           /\ \A u \in Slots \ {s} : slot'[u] = slot[u]
           /\ Valid(content) => ValidSlots' = ValidSlots \cup {s}
           /\ ~Valid(content) => ValidSlots' = ValidSlots \ {s}
  <1>1. slot' \in [Slots -> Content]
    BY DEF AdapterTypes
  <1>2. slot'[s] = content /\ \A u \in Slots \ {s} : slot'[u] = slot[u]
    BY DEF AdapterTypes
  <1>3. Other(s) \in Slots \ {s}
    BY SlotFacts
  <1> QED BY <1>1, <1>2, <1>3 DEF ValidSlots

(* persist starts a write of the session's ledger.                        *)
LEMMA PersistAdapter ==
    ASSUME AdapterInv, Persist
    PROVE  AdapterInv'
  <1>0. /\ AdapterTypes /\ StagingInOrder
        /\ ~refused => DiskHoldsCommitted /\ SessionHoldsCommitted
    BY DEF AdapterInv
  <1>1. /\ UNCHANGED <<marker, slot, legacy, committed, refused, ledger, MarkerInvalid,
                       ValidSlots, ValidLegacy, LegacyChoice, InactiveSlot>>
        /\ pc = "running" /\ pc' = "stage" /\ mode' = "write" /\ blob' = ledger
        /\ target' = InactiveSlot /\ Decodes(ledger)
    BY DEF Persist, MarkerInvalid, ValidSlots, ValidLegacy, LegacyChoice, InactiveSlot
  <1>n. node' = TRUE
    BY Zenon DEF Persist
  <1>2. AdapterTypes'
    <2>1. node' \in BOOLEAN
      BY <1>n, Zenon
    <2> QED BY <1>0, <1>1, <2>1, SlotFacts DEF AdapterTypes
  <1>3. StagingInOrder'
    BY <1>1, <1>n DEF StagingInOrder, Writing
  <1>4. ~refused => DiskHoldsCommitted'
    BY <1>0, <1>1 DEF DiskHoldsCommitted
  <1>5. ~refused => SessionHoldsCommitted'
    BY <1>0, <1>1 DEF SessionHoldsCommitted, Writing
  <1>6. RepairHoldsCommitted' /\ MigrationHoldsCommitted'
    BY <1>1 DEF RepairHoldsCommitted, MigrationHoldsCommitted, Writing
  <1> QED BY <1>1, <1>2, <1>3, <1>4, <1>5, <1>6 DEF AdapterInv

(* setblob starts to replace the target slot, which is not the active one *)
(* of a write and is not the one a repair depends on.                     *)
LEMMA StageBeginAdapter ==
    ASSUME AdapterInv, StageBegin
    PROVE  AdapterInv'
  <1>0. /\ AdapterTypes /\ StagingInOrder
        /\ ~refused => /\ DiskHoldsCommitted /\ SessionHoldsCommitted
                       /\ RepairHoldsCommitted /\ MigrationHoldsCommitted
    BY DEF AdapterInv
  <1>1. /\ UNCHANGED <<node, marker, legacy, committed, offered, refused, ledger, target,
                       blob, mode, MarkerInvalid, ValidLegacy, LegacyChoice, InactiveSlot>>
        /\ pc = "stage" /\ pc' = "staging" /\ slot' = [slot EXCEPT ![target] = Torn]
    BY DEF StageBegin, MarkerInvalid, ValidLegacy, LegacyChoice, InactiveSlot
  <1>2. /\ slot' \in [Slots -> Content]
        /\ ValidSlots' = ValidSlots \ {target} /\ target \in Slots
        /\ \A u \in Slots \ {target} : slot'[u] = slot[u]
    BY <1>0, <1>1, RewrittenSlot, ValidContents, Zenon DEF AdapterTypes
  <1>3. AdapterTypes'
    BY <1>0, <1>1, <1>2 DEF AdapterTypes
  <1>4. StagingInOrder'
    BY <1>0, <1>1, <1>2, SlotFacts DEF StagingInOrder, Writing
  <1>5. ~refused => SessionHoldsCommitted'
    BY <1>0, <1>1, <1>2, SlotFacts DEF SessionHoldsCommitted, StagingInOrder, Writing
  <1>6. ~refused => RepairHoldsCommitted'
    BY <1>0, <1>1, <1>2, SlotFacts DEF RepairHoldsCommitted, Writing
  <1>7. ~refused => MigrationHoldsCommitted'
    BY <1>0, <1>1, <1>2, SlotFacts DEF MigrationHoldsCommitted, Writing
  <1>8. ~refused => DiskHoldsCommitted'
    <2> SUFFICES ASSUME ~refused PROVE DiskHoldsCommitted'
      OBVIOUS
    <2>1. CASE mode = "write"
      BY <1>0, <1>1, <1>2, <1>5, <2>1, SlotFacts
         DEF SessionHoldsCommitted, DiskHoldsCommitted, Writing
    <2>2. CASE mode = "repair"
      BY <1>0, <1>1, <1>2, <2>2, SlotFacts
         DEF RepairHoldsCommitted, DiskHoldsCommitted, Writing
    <2>3. CASE mode = "migrate"
      BY <1>0, <1>1, <1>2, <2>3, SlotFacts
         DEF MigrationHoldsCommitted, DiskHoldsCommitted, Writing
    <2> QED BY <1>0, <2>1, <2>2, <2>3 DEF AdapterTypes
  <1> QED BY <1>1, <1>3, <1>4, <1>5, <1>6, <1>7, <1>8 DEF AdapterInv

(* setblob has written the blob.                                          *)
LEMMA StageEndAdapter ==
    ASSUME AdapterInv, StageEnd
    PROVE  AdapterInv'
  <1>0. /\ AdapterTypes /\ StagingInOrder
        /\ ~refused => /\ DiskHoldsCommitted /\ SessionHoldsCommitted
                       /\ RepairHoldsCommitted /\ MigrationHoldsCommitted
    BY DEF AdapterInv
  <1>1. /\ UNCHANGED <<node, marker, legacy, committed, offered, refused, ledger, target,
                       blob, mode, MarkerInvalid, ValidLegacy, LegacyChoice, InactiveSlot>>
        /\ pc = "staging" /\ slot' = [slot EXCEPT ![target] = Envelope(blob)]
        /\ pc' = IF mode = "write" THEN "verify" ELSE "mark"
    BY DEF StageEnd, MarkerInvalid, ValidLegacy, LegacyChoice, InactiveSlot
  <1>2. /\ slot' \in [Slots -> Content]
        /\ target \in Slots /\ slot'[target] = Envelope(blob) /\ slot'[target].obs = blob
        /\ Decodes(blob) => ValidSlots' = ValidSlots \cup {target}
        /\ ~Decodes(blob) => ValidSlots' = ValidSlots \ {target}
        /\ \A u \in Slots \ {target} : slot'[u] = slot[u]
    BY <1>0, <1>1, RewrittenSlot, ValidContents, Zenon DEF AdapterTypes
  <1>3. AdapterTypes'
    BY <1>0, <1>1, <1>2 DEF AdapterTypes
  <1>4. StagingInOrder'
    BY <1>0, <1>1, <1>2, SlotFacts DEF StagingInOrder, Writing
  <1>5. ~refused => SessionHoldsCommitted'
    BY <1>0, <1>1, <1>2, SlotFacts DEF SessionHoldsCommitted, StagingInOrder, Writing
  <1>6. ~refused => RepairHoldsCommitted'
    BY <1>0, <1>1, <1>2, SlotFacts DEF RepairHoldsCommitted, DiskHoldsCommitted, Writing
  <1>7. ~refused => MigrationHoldsCommitted'
    BY <1>0, <1>1, <1>2, SlotFacts DEF MigrationHoldsCommitted, Writing
  <1>8. ~refused => DiskHoldsCommitted'
    <2> SUFFICES ASSUME ~refused PROVE DiskHoldsCommitted'
      OBVIOUS
    <2>1. CASE mode = "write"
      BY <1>0, <1>1, <1>2, <1>5, <2>1, SlotFacts
         DEF SessionHoldsCommitted, DiskHoldsCommitted, Writing
    <2>2. CASE mode = "repair"
      BY <1>0, <1>1, <1>2, <2>2, SlotFacts
         DEF RepairHoldsCommitted, DiskHoldsCommitted, Writing
    <2>3. CASE mode = "migrate"
      BY <1>0, <1>1, <1>2, <2>3, SlotFacts
         DEF MigrationHoldsCommitted, DiskHoldsCommitted, Writing
    <2> QED BY <1>0, <2>1, <2>2, <2>3 DEF AdapterTypes
  <1> QED BY <1>1, <1>3, <1>4, <1>5, <1>6, <1>7, <1>8 DEF AdapterInv

(* setblob has returned false: from here on the storage has refused a     *)
(* write, and a migration may go on to the other legacy envelope.         *)
LEMMA StageFailsAdapter ==
    ASSUME AdapterInv, StageFails
    PROVE  AdapterInv'
  <1>0. AdapterTypes /\ StagingInOrder
    BY DEF AdapterInv
  <1>1. UNCHANGED <<node, marker, slot, legacy, ValidSlots, ValidLegacy, InactiveSlot>>
    BY DEF StageFails, disk, ValidSlots, ValidLegacy, InactiveSlot
  <1>2. refused' = TRUE
    BY Zenon DEF StageFails
  <1>3. CASE mode = "migrate" /\ target = marker /\ Other(marker) \in ValidLegacy
    <2>1. /\ pc \in {"stage", "staging"} /\ pc' = "stage" /\ target' = Other(marker)
          /\ blob' = legacy[Other(marker)].obs /\ mode' = "migrate" /\ ledger' = ledger
      BY <1>3 DEF StageFails, Repair
    <2>2. blob' \in SUBSET Observations /\ target' \in Slots
      BY <1>0, <1>3, <2>1, SlotFacts DEF AdapterTypes, Content
    <2>3. AdapterTypes'
      <3>1. refused' \in BOOLEAN
        BY <1>2, Zenon
      <3> QED BY <1>0, <1>1, <2>1, <2>2, <3>1 DEF AdapterTypes
    <2>4. StagingInOrder'
      BY <1>0, <1>1, <1>3, <2>1 DEF StagingInOrder, Writing
    <2> QED BY <1>2, <2>3, <2>4 DEF AdapterInv
  <1>4. CASE ~(mode = "migrate" /\ target = marker /\ Other(marker) \in ValidLegacy)
    <2>1. /\ pc \in {"stage", "staging"} /\ pc' = "running"
          /\ UNCHANGED <<target, blob, mode, ledger>>
      BY <1>4 DEF StageFails
    <2>2. AdapterTypes'
      <3>1. refused' \in BOOLEAN
        BY <1>2, Zenon
      <3> QED BY <1>0, <1>1, <2>1, <3>1 DEF AdapterTypes
    <2>3. StagingInOrder'
      BY <1>0, <1>1, <2>1 DEF StagingInOrder, Writing
    <2> QED BY <1>2, <2>2, <2>3 DEF AdapterInv
  <1> QED BY <1>3, <1>4

(* The staged slot does not read back: it is killed, and was not active.  *)
LEMMA VerifyFailsAdapter ==
    ASSUME AdapterInv, VerifyFails
    PROVE  AdapterInv'
  <1>0. /\ AdapterTypes /\ StagingInOrder
        /\ ~refused => DiskHoldsCommitted /\ SessionHoldsCommitted
    BY DEF AdapterInv
  <1>1. /\ UNCHANGED <<node, marker, legacy, committed, offered, refused, ledger, target,
                       blob, mode, MarkerInvalid, ValidLegacy, LegacyChoice, InactiveSlot>>
        /\ pc = "verify" /\ pc' = "running" /\ slot' = [slot EXCEPT ![target] = Absent]
    BY DEF VerifyFails, MarkerInvalid, ValidLegacy, LegacyChoice, InactiveSlot
  <1>2. /\ slot' \in [Slots -> Content]
        /\ ValidSlots' = ValidSlots \ {target} /\ target \in Slots
        /\ \A u \in Slots \ {target} : slot'[u] = slot[u]
    BY <1>0, <1>1, RewrittenSlot, ValidContents, Zenon DEF AdapterTypes
  <1>3. AdapterTypes'
    BY <1>0, <1>1, <1>2 DEF AdapterTypes
  <1>4. StagingInOrder' /\ mode = "write" /\ target = InactiveSlot
    BY <1>0, <1>1, <1>2 DEF StagingInOrder, Writing
  <1>5. ~refused => SessionHoldsCommitted'
    BY <1>0, <1>1, <1>2, <1>4, SlotFacts DEF SessionHoldsCommitted, Writing
  <1>6. ~refused => DiskHoldsCommitted'
    BY <1>1, <1>2, <1>5, SlotFacts DEF SessionHoldsCommitted, DiskHoldsCommitted
  <1>7. RepairHoldsCommitted' /\ MigrationHoldsCommitted'
    BY <1>1 DEF RepairHoldsCommitted, MigrationHoldsCommitted, Writing
  <1> QED BY <1>1, <1>3, <1>4, <1>5, <1>6, <1>7 DEF AdapterInv

(* altset makes the target active, which holds the blob.                  *)
LEMMA MarkAdapter ==
    ASSUME AdapterInv, Mark
    PROVE  AdapterInv'
  <1>0. /\ AdapterTypes /\ StagingInOrder
        /\ ~refused => /\ SessionHoldsCommitted
                       /\ RepairHoldsCommitted /\ MigrationHoldsCommitted
    BY DEF AdapterInv
  <1>1. /\ UNCHANGED <<node, slot, legacy, refused, target, blob, mode, ValidSlots>>
        /\ pc = "mark" /\ pc' = "running" /\ marker' = target
        /\ mode = "write" => committed' = committed \cup blob /\ ledger' = ledger
        /\ mode # "write" => ledger' = RestoredLedger /\ committed' = committed
    BY DEF Mark, ValidSlots
  <1>2. /\ slot[target] = Envelope(blob) /\ slot[target].obs = blob /\ target \in Slots /\ node
        /\ Decodes(blob) => target \in ValidSlots
        /\ mode = "write" => blob = ledger /\ Decodes(blob)
    BY <1>0, <1>1, ValidContents DEF StagingInOrder, Writing, AdapterTypes, ValidSlots
  <1>3. AdapterTypes'
    BY <1>0, <1>1, <1>2 DEF AdapterTypes, RestoredLedger
  <1>4. StagingInOrder'
    BY <1>1, <1>2 DEF StagingInOrder, Writing
  <1>5. ~refused => /\ Decodes(blob) /\ committed' \subseteq blob
                    /\ ledger' = blob
    <2> SUFFICES ASSUME ~refused
                 PROVE  /\ Decodes(blob) /\ committed' \subseteq blob
                        /\ ledger' = blob
      OBVIOUS
    <2>1. CASE mode = "write"
      BY <1>0, <1>1, <1>2, <2>1 DEF SessionHoldsCommitted, Writing
    <2>2. CASE mode = "repair"
      BY <1>0, <1>1, <2>2 DEF RepairHoldsCommitted, Writing, RestoredLedger
    <2>3. CASE mode = "migrate"
      BY <1>0, <1>1, <2>3 DEF MigrationHoldsCommitted, Writing, RestoredLedger
    <2> QED BY <1>0, <2>1, <2>2, <2>3 DEF AdapterTypes
  <1>6. ~refused => SessionHoldsCommitted'
    BY <1>1, <1>2, <1>5 DEF SessionHoldsCommitted
  <1>7. ~refused => DiskHoldsCommitted'
    BY <1>1, <1>2, <1>5 DEF DiskHoldsCommitted, MarkerInvalid
  <1>8. RepairHoldsCommitted' /\ MigrationHoldsCommitted'
    BY <1>1 DEF RepairHoldsCommitted, MigrationHoldsCommitted, Writing
  <1> QED BY <1>1, <1>3, <1>4, <1>6, <1>7, <1>8 DEF AdapterInv

(* altset returns false: the storage has refused.                         *)
LEMMA MarkFailsAdapter ==
    ASSUME AdapterInv, MarkFails
    PROVE  AdapterInv'
  <1>0. AdapterTypes /\ StagingInOrder
    BY DEF AdapterInv
  <1>1. refused' = TRUE
    BY Zenon DEF MarkFails
  <1>2. /\ UNCHANGED <<node, marker, legacy, target, blob, mode>>
        /\ pc = "mark" /\ pc' = "running"
        /\ slot' = [slot EXCEPT ![target] = Absent] \/ slot' = slot
        /\ ledger' = RestoredLedger \/ ledger' = ledger
    BY DEF MarkFails
  <1>3. slot' \in [Slots -> Content] /\ ledger' \in SUBSET Observations
    BY <1>0, <1>2, RewrittenSlot, ValidContents DEF AdapterTypes, RestoredLedger
  <1>4. AdapterTypes'
    <2>1. refused' \in BOOLEAN
      BY <1>1, Zenon
    <2> QED BY <1>0, <1>2, <1>3, <2>1 DEF AdapterTypes
  <1>5. StagingInOrder'
    BY <1>0, <1>2 DEF StagingInOrder, Writing
  <1> QED BY <1>1, <1>4, <1>5 DEF AdapterInv

(* erase leaves an empty database and forgets what was committed.         *)
LEMMA EraseAdapter ==
    ASSUME AdapterInv, Erase
    PROVE  AdapterInv'
  <1>0. AdapterTypes
    BY DEF AdapterInv
  <1>1. /\ marker' = NoMarker /\ slot' = [s \in Slots |-> Absent]
        /\ legacy' = [s \in Slots |-> Absent] /\ committed' = {}
        /\ pc = "running" /\ UNCHANGED <<pc, target, blob, mode, ledger, refused>>
    BY DEF Erase
  <1>2. node' \in BOOLEAN
    BY Zenon DEF Erase
  <1>3. AdapterTypes'
    BY <1>0, <1>1, <1>2, ValidContents DEF AdapterTypes
  <1>4. ValidSlots' = {} /\ MarkerInvalid'
    BY <1>1, ValidContents DEF ValidSlots, MarkerInvalid, Slots, NoMarker
  <1>5. StagingInOrder'
    BY <1>1 DEF StagingInOrder, Writing
  <1>6. DiskHoldsCommitted' /\ SessionHoldsCommitted'
    BY <1>1, <1>4 DEF DiskHoldsCommitted, SessionHoldsCommitted, Slots
  <1>7. RepairHoldsCommitted' /\ MigrationHoldsCommitted'
    BY <1>1 DEF RepairHoldsCommitted, MigrationHoldsCommitted, Writing
  <1> QED BY <1>3, <1>5, <1>6, <1>7 DEF AdapterInv

(* The process dies inside a read_blob or a write_blob.                   *)
LEMMA CrashAdapter ==
    ASSUME AdapterInv, Crash
    PROVE  AdapterInv'
  <1>0. /\ AdapterTypes /\ StagingInOrder
        /\ ~refused => /\ DiskHoldsCommitted /\ SessionHoldsCommitted
                       /\ RepairHoldsCommitted /\ MigrationHoldsCommitted
    BY DEF AdapterInv
  <1>1. /\ UNCHANGED <<node, slot, legacy, target, blob, mode, committed, offered, refused,
                       ValidSlots, ValidLegacy>>
        /\ pc' = "closed" /\ ledger' = {}
        /\ marker' = marker \/ (pc = "mark" /\ marker' = TornMarker)
    BY DEF Crash, ValidSlots, ValidLegacy
  <1>2. AdapterTypes'
    BY <1>0, <1>1 DEF AdapterTypes
  <1>3. StagingInOrder'
    BY <1>0, <1>1 DEF StagingInOrder, Writing
  <1>4. /\ SessionHoldsCommitted' /\ RepairHoldsCommitted' /\ MigrationHoldsCommitted'
    BY <1>1 DEF SessionHoldsCommitted, RepairHoldsCommitted, MigrationHoldsCommitted, Writing
  <1>5. ~refused => DiskHoldsCommitted'
    <2> SUFFICES ASSUME ~refused PROVE DiskHoldsCommitted'
      OBVIOUS
    <2>1. CASE marker' = marker
      <3>1. UNCHANGED <<MarkerInvalid, LegacyChoice>>
        BY <1>1, <2>1 DEF MarkerInvalid, LegacyChoice
      <3> QED BY <1>0, <1>1, <2>1, <3>1 DEF DiskHoldsCommitted
    <2>2. CASE pc = "mark" /\ marker' = TornMarker
      <3>1. /\ MarkerInvalid' /\ target \in Slots
            /\ slot[target] = Envelope(blob) /\ slot[target].obs = blob
        BY <1>0, <2>2, ValidContents DEF MarkerInvalid, Slots, TornMarker, StagingInOrder, AdapterTypes
      <3>2. /\ committed \subseteq blob /\ target \in ValidSlots
            /\ Other(target) \in ValidSlots => /\ committed \subseteq slot[Other(target)].obs
                                               /\ slot[Other(target)].obs \subseteq blob
        <4>0. Decodes(blob) => target \in ValidSlots
          BY <3>1, ValidContents DEF ValidSlots
        <4>1. CASE mode = "write"
          BY <1>0, <2>2, <4>0, <4>1, SlotFacts DEF SessionHoldsCommitted, StagingInOrder, Writing
        <4>2. CASE mode = "repair"
          BY <1>0, <2>2, <4>0, <4>2 DEF RepairHoldsCommitted, Writing
        <4>3. CASE mode = "migrate"
          BY <1>0, <2>2, <4>0, <4>3 DEF MigrationHoldsCommitted, Writing
        <4> QED BY <1>0, <4>1, <4>2, <4>3 DEF AdapterTypes
      <3> QED BY <1>1, <3>1, <3>2, SlotFacts DEF DiskHoldsCommitted
    <2> QED BY <1>1, <2>1, <2>2
  <1> QED BY <1>1, <1>2, <1>3, <1>4, <1>5 DEF AdapterInv

(* read_blob restores at once, or has chosen what to repair or migrate.   *)
LEMMA OpenAdapter ==
    ASSUME AdapterInv, Open
    PROVE  AdapterInv'
  <1>0. /\ AdapterTypes /\ StagingInOrder
        /\ ~refused => DiskHoldsCommitted
    BY DEF AdapterInv
  <1>1. /\ UNCHANGED <<node, marker, slot, legacy, committed, refused, ValidSlots, ValidLegacy,
                       MarkerInvalid, LegacyChoice, InactiveSlot>>
        /\ offered' = Recoverable
    BY DEF Open, disk, ValidSlots, ValidLegacy, MarkerInvalid, LegacyChoice, InactiveSlot
  <1>2. /\ \A s \in Slots : slot[s].obs \in SUBSET Observations /\ legacy[s].obs \in SUBSET Observations
    BY <1>0 DEF AdapterTypes, Content
  <1>3. ~refused => DiskHoldsCommitted'
    BY <1>0, <1>1 DEF DiskHoldsCommitted
  <1>4. ASSUME NEW obs \in SUBSET Observations, Restored(obs),
               ~refused => \/ marker \in ValidSlots /\ obs = slot[marker].obs
                           \/ MarkerInvalid /\ ValidSlots = {}
        PROVE  AdapterInv'
    <2>1. pc' = "running" /\ ledger' = obs /\ UNCHANGED <<target, blob, mode>>
      BY <1>4 DEF Restored
    <2>2. AdapterTypes'
      BY <1>0, <1>1, <2>1 DEF AdapterTypes
    <2>3. StagingInOrder'
      BY <1>0, <1>1, <2>1 DEF StagingInOrder, Writing
    <2>4. RepairHoldsCommitted' /\ MigrationHoldsCommitted'
      BY <2>1 DEF RepairHoldsCommitted, MigrationHoldsCommitted, Writing
    <2>5. ~refused => SessionHoldsCommitted'
      BY <1>0, <1>1, <1>4, <2>1, SlotFacts DEF SessionHoldsCommitted, DiskHoldsCommitted
    <2> QED BY <1>1, <1>3, <2>2, <2>3, <2>4, <2>5 DEF AdapterInv
  <1>5. ASSUME NEW step \in {"stage", "mark"}, NEW s \in Slots, NEW obs \in SUBSET Observations,
               NEW why \in {"repair", "migrate"}, Repair(step, s, obs, why),
               node, marker \notin ValidSlots,
               step = "mark" => slot[s] = Envelope(obs),
               ~refused => RepairHoldsCommitted' /\ MigrationHoldsCommitted'
        PROVE  AdapterInv'
    <2>1. /\ pc' = step /\ target' = s /\ blob' = obs /\ mode' = why /\ ledger' = ledger
      BY <1>5 DEF Repair
    <2>2. AdapterTypes'
      BY <1>0, <1>1, <1>5, <2>1 DEF AdapterTypes
    <2>3. StagingInOrder'
      BY <1>0, <1>1, <1>5, <2>1 DEF StagingInOrder, Writing
    <2>4. SessionHoldsCommitted'
      BY <1>5, <2>1 DEF SessionHoldsCommitted
    <2> QED BY <1>1, <1>3, <1>5, <2>2, <2>3, <2>4 DEF AdapterInv
  <1>6. CASE OpenNotFound
    <2>1. MarkerInvalid /\ ValidSlots = {}
      BY <1>0, <1>6, ValidContents DEF OpenNotFound, StagingInOrder, MarkerInvalid, Slots,
                                       NoMarker, ValidSlots
    <2> QED BY <1>4, <1>6, <2>1 DEF OpenNotFound
  <1>v. \A s \in ValidSlots : s \in Slots /\ slot[s] = Envelope(slot[s].obs) /\ Decodes(slot[s].obs)
    BY <1>0 DEF ValidSlots, Valid, Envelope, AdapterTypes, Content
  <1>w. \A s \in ValidLegacy : s \in Slots /\ Decodes(legacy[s].obs)
    BY DEF ValidLegacy, Valid
  <1>7. CASE OpenMarkerInvalid
    <2>0. node /\ MarkerInvalid /\ marker \notin ValidSlots
      BY <1>7, SlotFacts DEF OpenMarkerInvalid
    <2>1. CASE ValidSlots = {} /\ Restored({})
      BY <1>4, <2>0, <2>1
    <2>2. CASE ValidSlots = Slots /\ Repair("stage", "A", slot["A"].obs \cup slot["B"].obs, "repair")
      <3> DEFINE merged == slot["A"].obs \cup slot["B"].obs
      <3>1. /\ pc' = "stage" /\ target' = "A" /\ blob' = merged /\ mode' = "repair"
        BY <2>2 DEF Repair
      <3>2. ASSUME ~refused
            PROVE  RepairHoldsCommitted'
        <4>1. /\ committed \subseteq slot["A"].obs /\ committed \subseteq slot["B"].obs
              /\ merged = slot["A"].obs \/ merged = slot["B"].obs
          BY <1>0, <2>0, <2>2, <3>2 DEF DiskHoldsCommitted, Slots
        <4>2. Decodes(merged)
          BY <1>v, <2>2, <4>1, SMTT(30) DEF Slots
        <4>3. Recoverable = merged
          BY <1>0, <2>0, <2>2, <4>2, RecoverableCases
        <4> HIDE DEF merged
        <4>4. slot["B"].obs \subseteq merged /\ "B" \in ValidSlots
          BY <2>2 DEF merged, Slots
        <4> QED BY <1>1, <2>0, <3>1, <4>1, <4>2, <4>3, <4>4 DEF RepairHoldsCommitted
      <3>3. MigrationHoldsCommitted'
        BY <3>1 DEF MigrationHoldsCommitted
      <3>4. merged \in SUBSET Observations /\ "A" \in Slots
        BY <1>2 DEF Slots
      <3> QED BY <1>5, <2>0, <2>2, <3>2, <3>3, <3>4
    <2>3. ASSUME NEW s \in Slots, ValidSlots = {s}, Repair("mark", s, slot[s].obs, "repair")
          PROVE  AdapterInv'
      <3>1. /\ pc' = "mark" /\ target' = s /\ blob' = slot[s].obs /\ mode' = "repair"
        BY <2>3 DEF Repair
      <3>2. ASSUME ~refused
            PROVE  RepairHoldsCommitted'
        <4>1. /\ committed \subseteq slot[s].obs /\ Decodes(slot[s].obs)
              /\ Recoverable = slot[s].obs /\ Other(s) \notin ValidSlots
          BY <1>0, <1>v, <2>0, <2>3, <3>2, RecoverableCases, SlotFacts DEF DiskHoldsCommitted
        <4> QED BY <1>1, <2>0, <3>1, <4>1 DEF RepairHoldsCommitted
      <3>3. MigrationHoldsCommitted'
        BY <3>1 DEF MigrationHoldsCommitted
      <3> QED BY <1>2, <1>5, <1>v, <2>0, <2>3, <3>2, <3>3
    <2> QED BY <1>7, <2>1, <2>2, <2>3 DEF OpenMarkerInvalid
  <1>8. CASE OpenMarkerValid
    <2>0. node /\ ~MarkerInvalid /\ marker \in Slots /\ Other(marker) \in Slots
      BY <1>8, SlotFacts DEF OpenMarkerValid
    <2>1. CASE marker \in ValidSlots /\ Restored(slot[marker].obs)
      BY <1>2, <1>4, <2>0, <2>1
    <2>2. CASE /\ marker \notin ValidSlots /\ Other(marker) \in ValidSlots
               /\ Repair("mark", Other(marker), slot[Other(marker)].obs, "repair")
      <3>1. /\ pc' = "mark" /\ target' = Other(marker) /\ mode' = "repair"
            /\ blob' = slot[Other(marker)].obs
        BY <2>2 DEF Repair
      <3>2. ASSUME ~refused
            PROVE  RepairHoldsCommitted'
        <4>1. /\ committed \subseteq slot[Other(marker)].obs /\ Decodes(slot[Other(marker)].obs)
              /\ Recoverable = slot[Other(marker)].obs /\ Other(Other(marker)) = marker
          BY <1>0, <1>v, <2>0, <2>2, <3>2, RecoverableCases, SlotFacts DEF DiskHoldsCommitted
        <4> QED BY <1>1, <2>2, <3>1, <4>1, SMTT(30) DEF RepairHoldsCommitted
      <3>3. MigrationHoldsCommitted'
        BY <3>1 DEF MigrationHoldsCommitted
      <3> QED BY <1>2, <1>5, <1>v, <2>0, <2>2, <3>2, <3>3
    <2>3. CASE /\ ValidSlots = {} /\ ValidLegacy # {}
               /\ Repair("stage", LegacyChoice, legacy[LegacyChoice].obs, "migrate")
      <3>1. /\ pc' = "stage" /\ target' = LegacyChoice /\ mode' = "migrate"
            /\ blob' = legacy[LegacyChoice].obs
        BY <2>3 DEF Repair
      <3>2. LegacyChoice \in ValidLegacy
        BY <2>0, <2>3, SlotFacts DEF LegacyChoice
      <3>3. ASSUME ~refused
            PROVE  MigrationHoldsCommitted'
        <4>1. /\ committed \subseteq legacy[LegacyChoice].obs
              /\ Recoverable = legacy[LegacyChoice].obs
          BY <1>0, <2>0, <2>3, <3>3, RecoverableCases, SlotFacts DEF DiskHoldsCommitted
        <4> QED BY <1>1, <1>w, <2>0, <2>3, <3>1, <3>2, <4>1 DEF MigrationHoldsCommitted
      <3>4. RepairHoldsCommitted'
        BY <3>1 DEF RepairHoldsCommitted
      <3> QED BY <1>2, <1>5, <1>w, <2>0, <2>3, <3>2, <3>3, <3>4
    <2>4. CASE ValidSlots = {} /\ ValidLegacy = {} /\ Restored({})
      <3>1. refused
        BY <1>0, <2>0, <2>4, SlotFacts DEF DiskHoldsCommitted
      <3> QED BY <1>4, <2>4, <3>1
    <2> QED BY <1>8, <2>1, <2>2, <2>3, <2>4 DEF OpenMarkerValid
  <1> QED BY <1>6, <1>7, <1>8 DEF Open

(* Every step of the adapter keeps the invariant.                         *)
LEMMA NextAdapter == AdapterInv /\ [Next]_vars => AdapterInv'
  <1> SUFFICES ASSUME AdapterInv, [Next]_vars PROVE AdapterInv'
    OBVIOUS
  <1>1. CASE Record \/ VerifyOk \/ Close
    BY <1>1, QuietSteps DEF Record, VerifyOk, Close
  <1>2. CASE UNCHANGED vars
    <2>1. UNCHANGED <<MarkerInvalid, ValidSlots, ValidLegacy, LegacyChoice, InactiveSlot,
                      Writing>>
      BY <1>2 DEF vars, MarkerInvalid, ValidSlots, ValidLegacy, LegacyChoice, InactiveSlot,
                  Writing
    <2>2. AdapterTypes = AdapterTypes' /\ StagingInOrder = StagingInOrder'
      BY <1>2, <2>1 DEF vars, AdapterTypes, StagingInOrder
    <2>3. DiskHoldsCommitted = DiskHoldsCommitted'
      BY <1>2, <2>1, Zenon DEF vars, DiskHoldsCommitted
    <2>4. SessionHoldsCommitted = SessionHoldsCommitted'
      BY <1>2, <2>1, Zenon DEF vars, SessionHoldsCommitted
    <2>5. RepairHoldsCommitted = RepairHoldsCommitted'
      BY <1>2, <2>1 DEF vars, RepairHoldsCommitted
    <2>6. MigrationHoldsCommitted = MigrationHoldsCommitted'
      BY <1>2, <2>1 DEF vars, MigrationHoldsCommitted
    <2> QED BY <1>2, <2>2, <2>3, <2>4, <2>5, <2>6, Zenon DEF vars, AdapterInv
  <1> QED BY <1>1, <1>2, OpenAdapter, PersistAdapter, StageBeginAdapter, StageEndAdapter,
             StageFailsAdapter, VerifyFailsAdapter, MarkAdapter, MarkFailsAdapter,
             EraseAdapter, CrashAdapter DEF Next

(* The invariant of the adapter.                                          *)
LEMMA AdapterInvariant == Spec => []AdapterInv
  BY InitAdapter, NextAdapter, PTL DEF Spec

-----------------------------------------------------------------------------
(* As long as the storage has not refused a write, a restart at any       *)
(* instant, inside write_blob, a repair or a migration included, restores *)
(* every observation that a successful write_blob ever held.              *)
THEOREM CommittedLedgerSurvives == Spec => []CommittedSurvives
  <1>1. AdapterInv => CommittedSurvives
    <2> SUFFICES ASSUME AdapterInv, ~refused PROVE committed \subseteq Recoverable
      BY DEF CommittedSurvives
    <2>0. AdapterTypes /\ StagingInOrder /\ DiskHoldsCommitted
      BY DEF AdapterInv
    <2>1. CASE ~node
      <3>1. MarkerInvalid /\ ValidSlots = {}
        BY <2>0, <2>1, ValidContents DEF StagingInOrder, MarkerInvalid, Slots, NoMarker, ValidSlots
      <3> QED BY <2>0, <3>1 DEF DiskHoldsCommitted
    <2>2. CASE node /\ MarkerInvalid
      <3>1. CASE ValidSlots = {}
        BY <2>0, <2>2, <3>1 DEF DiskHoldsCommitted
      <3>2. CASE ValidSlots = Slots
        <4>1. /\ committed \subseteq slot["A"].obs
              /\ \/ slot["A"].obs \cup slot["B"].obs = slot["A"].obs
                 \/ slot["A"].obs \cup slot["B"].obs = slot["B"].obs
          BY <2>0, <2>2, <3>2 DEF DiskHoldsCommitted, Slots
        <4>2. Decodes(slot["A"].obs) /\ Decodes(slot["B"].obs)
          BY <3>2 DEF ValidSlots, Valid, Slots
        <4>3. Decodes(slot["A"].obs \cup slot["B"].obs)
          BY <4>1, <4>2, Zenon
        <4> QED BY <2>0, <2>2, <3>2, <4>1, <4>3, RecoverableCases
      <3>3. ASSUME NEW s \in Slots, ValidSlots = {s}
            PROVE  committed \subseteq Recoverable
        BY <2>0, <2>2, <3>3, RecoverableCases DEF DiskHoldsCommitted
      <3> QED BY <3>1, <3>2, <3>3 DEF ValidSlots, Slots
    <2>3. CASE node /\ ~MarkerInvalid
      BY <2>0, <2>3, RecoverableCases, SlotFacts DEF DiskHoldsCommitted
    <2> QED BY <2>1, <2>2, <2>3
  <1> QED BY <1>1, AdapterInvariant, PTL

(* A valid active envelope is never replaced by a partial one.            *)
LEMMA ActiveStaysValid ==
    ASSUME AdapterInv, [Next]_vars, marker \in ValidSlots
    PROVE  marker' \in ValidSlots' \/ marker' \notin Slots
  <1>0. AdapterTypes /\ StagingInOrder /\ marker \in Slots /\ ~MarkerInvalid
    BY SlotFacts DEF AdapterInv
  <1>1. CASE UNCHANGED <<marker, slot>>
    BY <1>1 DEF ValidSlots
  <1>2. ASSUME NEW content \in Content, slot' = [slot EXCEPT ![target] = content],
               marker' = marker, marker # target \/ Valid(content)
        PROVE  marker' \in ValidSlots'
    BY <1>0, <1>2, RewrittenSlot, ZenonT(30) DEF AdapterTypes
  <1>3. CASE StageBegin
    <2>1. marker # target
      BY <1>0, <1>3, SlotFacts DEF StageBegin, StagingInOrder, Writing
    <2> QED BY <1>2, <1>3, <2>1, ValidContents, Zenon DEF StageBegin
  <1>4. CASE StageEnd
    <2>1. marker # target
      BY <1>0, <1>4, SlotFacts DEF StageEnd, StagingInOrder, Writing
    <2>2. blob \in SUBSET Observations
      BY <1>0 DEF AdapterTypes
    <2> QED BY <1>2, <1>4, <2>1, <2>2, ValidContents, Zenon DEF StageEnd
  <1>5. CASE VerifyFails
    <2>1. marker # target
      BY <1>0, <1>5, SlotFacts DEF VerifyFails, StagingInOrder, Writing
    <2> QED BY <1>2, <1>5, <2>1, ValidContents, Zenon DEF VerifyFails
  <1>6. CASE MarkFails
    <2>1. CASE mode = "write"
      <3>1. marker # target
        BY <1>0, <1>6, <2>1, SlotFacts DEF MarkFails, StagingInOrder, Writing
      <3> QED BY <1>2, <1>6, <2>1, <3>1, ValidContents DEF MarkFails
    <2>2. CASE mode # "write"
      BY <1>1, <1>6, <2>2 DEF MarkFails
    <2> QED BY <2>1, <2>2
  <1>7. CASE Mark
    <2>1. target \in ValidSlots
      BY <1>0, <1>7, ValidContents DEF Mark, StagingInOrder, Writing, ValidSlots, AdapterTypes
    <2> QED BY <1>7, <2>1, SMTT(30) DEF Mark, ValidSlots
  <1>8. CASE Erase
    BY <1>8 DEF Erase, Slots, NoMarker
  <1>9. CASE Crash
    BY <1>1, <1>9 DEF Crash, Slots, TornMarker
  <1> QED BY <1>1, <1>3, <1>4, <1>5, <1>6, <1>7, <1>8, <1>9, Zenon
          DEF Next, vars, disk, Open, Record, Persist, StageFails, VerifyOk, Close

(* write_blob never commits a partial serialization: once the marker      *)
(* names a valid envelope, whatever fails, it goes on naming one until    *)
(* the marker itself is torn or erased; and if no write was refused, a    *)
(* valid envelope is only overwritten while the other slot is the valid   *)
(* active one.                                                            *)
THEOREM PartialIsNeverCommitted == Spec => NeverCommitsPartial
  <1>1. ASSUME AdapterInv, mode = "write", pc = "stage", Valid(slot[target]), ~refused
        PROVE  marker = Other(target) /\ Valid(slot[marker])
    <2>1. /\ target \in Slots /\ target = InactiveSlot /\ target \in ValidSlots
          /\ SessionHoldsCommitted
      BY <1>1, SlotFacts DEF AdapterInv, AdapterTypes, StagingInOrder, Writing
    <2>2. marker \in ValidSlots
      BY <1>1, <2>1 DEF SessionHoldsCommitted, Writing
    <2> QED BY <2>1, <2>2, SlotFacts
  <1>2. AdapterInv /\ [Next]_vars =>
          [/\ (marker \in ValidSlots) =>
                 (marker' \in ValidSlots' \/ marker' \notin Slots)
           /\ (/\ mode = "write" /\ pc = "stage" /\ pc' = "staging"
               /\ Valid(slot[target]) /\ ~refused)
                 => marker = Other(target) /\ Valid(slot[marker])]_vars
    BY <1>1, ActiveStaysValid
  <1> QED BY <1>2, AdapterInvariant, PTL DEF Spec, NeverCommitsPartial

(* The step in which altset succeeds, seen from the target slot.          *)
LEMMA MarkedIsRecoverable ==
    ASSUME AdapterInv, Mark, Decodes(blob)
    PROVE  Recoverable' = blob
  <1>1. /\ pc = "mark" /\ marker' = target /\ UNCHANGED <<node, slot>>
        /\ AdapterTypes /\ StagingInOrder
    BY DEF Mark, AdapterInv
  <1>2. node /\ target \in Slots /\ slot[target] = Envelope(blob)
    BY <1>1 DEF StagingInOrder, Writing, AdapterTypes
  <1>3. target \in ValidSlots' /\ slot'[marker'].obs = blob /\ node'
    BY <1>1, <1>2, ValidContents DEF ValidSlots
  <1>4. marker' \in Slots
    BY <1>1, <1>2
  <1> QED BY <1>1, <1>3, <1>4 DEF Recoverable, MarkerInvalid

(* Only Mark moves the marker to the target of a write.                   *)
LEMMA OnlyMarkCommits ==
    ASSUME AdapterInv, [Next]_vars, pc = "mark", mode = "write", marker' = target
    PROVE  Mark
  <1>1. target \in Slots /\ target # marker
    BY SlotFacts DEF AdapterInv, AdapterTypes, StagingInOrder, Writing
  <1>2. marker' # marker /\ marker' \in Slots
    BY <1>1
  <1> QED BY <1>2 DEF Next, vars, disk, Open, Record, Persist, StageBegin, StageEnd, StageFails,
                      VerifyOk, VerifyFails, MarkFails, Erase, Close, Crash, Slots, NoMarker,
                      TornMarker

(* When write_blob returns true, a restart restores exactly the ledger it *)
(* was given, whatever failed before; and if no write was refused, that   *)
(* ledger holds all that was committed before.                            *)
THEOREM WrittenLedgerReadsBack == Spec => WriteReadsBack
  <1>1. ASSUME AdapterInv, [Next]_vars, WriteCommits
        PROVE  /\ Recoverable' = blob
               /\ ~refused => committed \subseteq blob
    <2>1. Mark /\ mode = "write" /\ pc = "mark"
      BY <1>1, OnlyMarkCommits DEF WriteCommits
    <2>2. Decodes(blob) /\ blob = ledger
      BY <1>1, <2>1 DEF AdapterInv, StagingInOrder, Writing
    <2>3. ~refused => committed \subseteq blob
      BY <1>1, <2>1, <2>2 DEF AdapterInv, SessionHoldsCommitted, Writing
    <2> QED BY <1>1, <2>1, <2>2, <2>3, MarkedIsRecoverable
  <1>2. AdapterInv /\ [Next]_vars =>
          [WriteCommits => /\ Recoverable' = blob
                           /\ ~refused => committed \subseteq blob]_vars
    BY <1>1
  <1> QED BY <1>2, AdapterInvariant, PTL DEF Spec, WriteReadsBack

(* Whatever read_blob repairs or migrates, the session then holds, and so *)
(* does a restart: the union of two envelopes is never too large to       *)
(* decode, because one contains the other while no write was refused.     *)
THEOREM RepairsRestoreEverything == Spec => RepairRestoresAll
  <1>1. ASSUME AdapterInv, [Next]_vars, mode # "write", pc = "mark", pc' = "running", ~refused'
        PROVE  Recoverable' = ledger' /\ offered \subseteq ledger'
    <2>1. Mark
      BY <1>1 DEF Next, vars, Open, Record, Persist, StageBegin, StageEnd, StageFails, VerifyOk,
                  VerifyFails, MarkFails, Erase, Close, Crash
    <2>2. ledger' = RestoredLedger /\ refused' = refused
      BY <1>1, <2>1 DEF Mark
    <2>3. Decodes(blob) /\ offered = blob
      BY <1>1, <2>2, Zenon
         DEF AdapterInv, AdapterTypes, RepairHoldsCommitted, MigrationHoldsCommitted,
                        Writing
    <2> QED BY <1>1, <2>1, <2>2, <2>3, MarkedIsRecoverable, SMTT(30) DEF RestoredLedger
  <1>2. AdapterInv /\ [Next]_vars =>
          [(mode # "write" /\ pc = "mark" /\ pc' = "running" /\ ~refused')
              => Recoverable' = ledger' /\ offered \subseteq ledger']_vars
    BY <1>1
  <1> QED BY <1>2, AdapterInvariant, PTL DEF Spec, RepairRestoresAll
=============================================================================
