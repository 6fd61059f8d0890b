---------------------- MODULE EmulationPipelineProofs ----------------------
(***************************************************************************)
(* Proofs about the decoder audit of the pipeline, for every program,      *)
(* every budget and window, and every order of submissions, edits and runs.*)
(* Nothing is assumed of the enrichment passes: the audit is compared with *)
(* whatever database they leave.                                           *)
(***************************************************************************)
EXTENDS EmulationPipeline, EmuDriverProofs, FiniteSetTheorems

\* What the main thread asks rax about: an address, and room to read there.
Inspectable(inputs) ==
    \A i \in inputs : i.address \in Nat /\ i.window \in Nat \ {0}

\* The windows are never empty, from submission to the worker's result.
AuditInv ==
    /\ pending \in Seq(Job)
    /\ IsSequence(queue)
    /\ \A j \in Range(queue) : Inspectable(j.decoder_inputs)
    /\ {"status", "decoder_audit"} \subseteq DOMAIN result
    /\ Inspectable({x.input : x \in result.decoder_audit})

-----------------------------------------------------------------------------
(* The windows.                                                            *)

\* viy_decoder_window_size leaves room for a byte inside a chunk.
LEMMA WindowNotEmpty ==
    ASSUME NEW pc \in Nat, NEW end \in Nat, pc < end
    PROVE  viy_decoder_window_size(pc, end) \in Nat \ {0}
  <1> DEFINE S == {AuditWindow, end - pc}
  <1>1. PICK m \in S : \A y \in S : m =< y
    <2>1. AuditWindow \in Nat /\ end - pc \in Nat
      BY WindowAssumption, SMTT(30)
    <2>2. CASE AuditWindow =< end - pc
      BY <2>1, <2>2, SMTT(30)
    <2>3. CASE ~(AuditWindow =< end - pc)
      BY <2>1, <2>3, SMTT(30)
    <2> QED
      BY <2>2, <2>3, SMTT(30)
  <1>2. Min(S) \in S
    BY <1>1, Zenon DEF Min
  <1>3. \A s \in S : s \in Nat \ {0}
    BY WindowAssumption, SMTT(30)
  <1>4. ~(pc >= end)
    OBVIOUS
  <1> HIDE DEF S
  <1>5. Min(S) \in Nat \ {0}
    BY <1>2, <1>3, Zenon
  <1>6. viy_decoder_window_size(pc, end) = Min(S)
    BY <1>4, Zenon DEF viy_decoder_window_size, S
  <1> QED
    BY <1>5, <1>6, Zenon

\* Everything viy_snapshot_decoder_audit submits for a function is an
\* address of one of its chunks, with a window that ends in the chunk.
LEMMA SnapshotIsInspectable ==
    ASSUME NEW db, NEW instructions, NEW job \in Job
    PROVE  Inspectable(viy_snapshot_decoder_audit(db, instructions, job.func))
  <1> DEFINE heads(c) == {h \in c.start .. c.end - 1 : h = c.start \/ is_head(db, h)}
             visited == UNION {{[address |-> a, chunk_end |-> c.end] : a \in heads(c)}
                               : c \in job.func.chunks}
  <1>1. ASSUME NEW v \in visited
        PROVE  v.address \in Nat /\ viy_decoder_window_size(v.address, v.chunk_end) \in Nat \ {0}
    <2>1. PICK c \in job.func.chunks : \E a \in heads(c) :
                v = [address |-> a, chunk_end |-> c.end]
      BY <1>1, Zenon
    <2>2. PICK a \in heads(c) : v = [address |-> a, chunk_end |-> c.end]
      BY <2>1, Zenon
    <2>3. c.start \in Nat /\ c.end \in Nat
      BY DEF Job
    <2>4. a \in c.start .. c.end - 1
      BY <2>2, Zenon
    <2>5. a \in Nat /\ a < c.end
      BY <2>3, <2>4, SMTT(30)
    <2>6. v.address = a /\ v.chunk_end = c.end
      BY <2>2, SMTT(30)
    <2> QED
      BY <2>3, <2>5, <2>6, WindowNotEmpty, SMTT(30)
  <1>2. ASSUME NEW x \in viy_snapshot_decoder_audit(db, instructions, job.func)
        PROVE  \E v \in visited : /\ x.address = v.address
                                  /\ x.window = viy_decoder_window_size(v.address, v.chunk_end)
    <2>1. PICK v \in visited : \E i \in decode_source(db, instructions, v.address) :
             x = [address |-> v.address,
                  window |-> viy_decoder_window_size(v.address, v.chunk_end),
                  ida |-> ida_instruction_model(i),
                  control_transfer |-> features(i) # {}]
      BY <1>2, ZenonT(30) DEF viy_snapshot_decoder_audit
    <2> HIDE DEF visited
    <2> QED
      BY <2>1, SMTT(30)
  <1> HIDE DEF visited
  <1> QED
    BY <1>1, <1>2, Zenon DEF Inspectable

\* loaded_view returns at least the first byte of a window when the snapshot
\* holds it.
LEMMA LoadedWindowNotEmpty ==
    ASSUME NEW img, NEW ea \in Nat, NEW size \in Nat \ {0}
    PROVE  /\ LoadedWindow(img, ea, size) \in Nat
           /\ byte_loaded(img, ea) => LoadedWindow(img, ea, size) >= 1
  <1> DEFINE L == {a \in Span(ea, size) : \A b \in ea .. a :
                      byte_loaded(img, b) /\ segment_at(img, b) = segment_at(img, ea)}
  <1>1. IsFiniteSet(ea .. ea + size - 1)
    BY FS_Interval, SMTT(30)
  <1>2. IsFiniteSet(L)
    BY <1>1, FS_Subset, Zenon DEF Span
  <1>3. ASSUME byte_loaded(img, ea)
        PROVE  ea \in L
    <2>1. ea \in Span(ea, size)
      BY DEF Span
    <2>2. \A b \in ea .. ea : b = ea
      OBVIOUS
    <2> QED
      BY <1>3, <2>1, <2>2, Zenon
  <1>4. LoadedWindow(img, ea, size) = Cardinality(L)
    BY Zenon DEF LoadedWindow
  <1> HIDE DEF L
  <1>5. Cardinality(L) \in Nat
    BY <1>2, FS_CardinalityType, Zenon
  <1>6. L # {} => Cardinality(L) # 0
    BY <1>2, FS_EmptySet, Zenon
  <1> QED
    BY <1>3, <1>4, <1>5, <1>6, SMTT(30)

-----------------------------------------------------------------------------
(* What is left of the audit, and what it says.                            *)

\* An entry viy_discard_stale_decoder_audit keeps is about an instruction
\* the database shows, over the byte rax was given.
LEMMA KeptEntryIsCurrent ==
    ASSUME NEW img, NEW db, NEW audit, NEW x \in viy_discard_stale_decoder_audit(img, db, audit),
           Inspectable({y.input : y \in audit})
    PROVE  /\ x \in audit
           /\ is_code_head(db, x.input.address)
           /\ byte_loaded(img, x.input.address) =>
                 db.bytes[x.input.address] = snapshot_byte(img, x.input.address)
  <1>1. PICK ea : ea = x.input.address
    OBVIOUS
  <1>2. PICK n : n = LoadedWindow(img, ea, x.input.window)
    OBVIOUS
  <1>3. /\ x \in audit
        /\ \E i \in item_at(db, ea) : i.start = ea /\ i.kind = "code" /\ i.size = x.input.ida.size
        /\ current_bytes_equal(db, ea, snapshot_bytes(img, ea, n))
    BY <1>1, <1>2, Zenon DEF viy_discard_stale_decoder_audit
  <1>4. is_code_head(db, ea)
    BY <1>3, Zenon DEF is_code_head
  <1>5. ea \in Nat /\ x.input.window \in Nat \ {0}
    BY <1>1, <1>3, Zenon DEF Inspectable
  <1>6. n \in Nat /\ (byte_loaded(img, ea) => n >= 1)
    BY <1>2, <1>5, LoadedWindowNotEmpty, Zenon
  <1>7. ASSUME byte_loaded(img, ea)
        PROVE  db.bytes[ea] = snapshot_byte(img, ea)
    <2>1. PICK bytes : bytes = snapshot_bytes(img, ea, n)
      BY SMTT(30)
    <2>2. bytes = [i \in 1 .. n |-> snapshot_byte(img, ea + i - 1)]
      BY <2>1, Zenon DEF snapshot_bytes
    <2>3. Len(bytes) = n
      BY <1>6, <2>2, SMTT(30)
    <2>4. get_bytes(db, ea, n) = bytes
      BY <1>3, <2>1, <2>3, Zenon DEF current_bytes_equal
    <2>5. [i \in 1 .. n |-> db.bytes[ea + i - 1]] = [i \in 1 .. n |-> snapshot_byte(img, ea + i - 1)]
      BY <2>2, <2>4, Zenon DEF get_bytes
    <2>6. 1 \in 1 .. n
      BY <1>6, <1>7, SMTT(30)
    <2>7. db.bytes[ea + 1 - 1] = snapshot_byte(img, ea + 1 - 1)
      BY <2>5, <2>6, ZenonT(30)
    <2>8. ea + 1 - 1 = ea
      BY <1>5, SMTT(30)
    <2> QED
      BY <2>7, <2>8, Zenon
  <1> QED
    BY <1>1, <1>3, <1>4, <1>7, Zenon

\* Every fact of viy_record_smir_analysis and viy_record_decoder_audit is
\* supported by the address of the entry it comes from.
LEMMA AuditFactSupport ==
    ASSUME NEW f, NEW audit, NEW fact \in viy_record_decoder_audit(f, audit)
    PROVE  \E x \in audit : fact.support = x.input.address
  <1>1. ASSUME NEW ea, NEW method, NEW payload
        PROVE  AuditFact(f, ea, method, payload).support = ea
    BY DEF AuditFact
  <1>2. ASSUME NEW ea, NEW method, NEW target
        PROVE  emit_target(f, ea, method, target).support = ea
    BY <1>1, Zenon DEF emit_target
  <1>3. ASSUME NEW ea, NEW size, NEW kind
        PROVE  emit_region(f, ea, size, kind).support = ea
    BY <1>1, Zenon DEF emit_region
  <1>4. ASSUME NEW x, NEW s \in viy_record_smir_analysis(f, x)
        PROVE  s.support = x.input.address
    <2> DEFINE ea == x.input.address
    <2>1. \/ s \in UNION {{emit_target(f, ea, "encoded-control-target", t)
                           : t \in viy_decoder_direct_target(d)} : d \in x.decoded}
          \/ s \in {AuditFact(f, ea, "constant-register-result",
                              [from |-> ea, reg |-> e.reg, value |-> e.value])
                    : e \in {g \in x.effects : g.effect = "constant"}}
          \/ s \in {AuditFact(f, ea, "resolved-memory-access",
                              [from |-> ea, addr |-> e.addr, size |-> e.size, kind |-> e.kind])
                    : e \in {g \in x.effects : g.effect = "access"}}
      BY <1>4, Zenon DEF viy_record_smir_analysis
    <2> HIDE DEF ea
    <2>2. \/ \E t : s = emit_target(f, ea, "encoded-control-target", t)
          \/ \E method, payload : s = AuditFact(f, ea, method, payload)
      BY <2>1, Zenon
    <2>3. s.support = ea
      BY <1>1, <1>2, <2>2, SMTT(30)
    <2> QED
      BY <2>3, SMTT(30) DEF ea
  <1>5. PICK x \in audit :
           IF x.decoded = {}
           THEN fact = emit_region(f, x.input.address, x.input.ida.size, "Unknown")
           ELSE \/ fact \in viy_record_smir_analysis(f, x)
                \/ \E size : fact = emit_region(f, x.input.address, size, "Mixed")
                \/ \E t : fact = emit_target(f, x.input.address, "rax-direct-target", t)
                \/ \E t : fact = emit_target(f, x.input.address, "ida-direct-target", t)
    BY ZenonT(30) DEF viy_record_decoder_audit
  <1>6. CASE \E size, kind : fact = emit_region(f, x.input.address, size, kind)
    BY <1>3, <1>6
  <1>7. CASE fact \in viy_record_smir_analysis(f, x)
    BY <1>4, <1>7, SMTT(30)
  <1>8. CASE \E method, t : fact = emit_target(f, x.input.address, method, t)
    BY <1>2, <1>8
  <1> QED
    BY <1>5, <1>6, <1>7, <1>8, Zenon

\* Facts of the emulation itself rest on no decoded instruction.
LEMMA EmulationFactsHaveNoSupport ==
    ASSUME NEW img, NEW f, NEW events, NEW rs,
           NEW fact \in viy_record_emulation_evidence(img, f, events, rs)
    PROVE  "support" \notin DOMAIN fact
  <1>1. ASSUME NEW o, NEW method, NEW payload
        PROVE  "support" \notin DOMAIN make_evidence(f, o, method, payload)
    BY SMTT(30) DEF make_evidence
  <1>2. \E o, method, payload : fact = make_evidence(f, o, method, payload)
    <2>1. CASE \E e \in Range(events.edges) : fact \in EdgeFacts(img, f, e)
      BY <2>1, Zenon DEF EdgeFacts
    <2>2. CASE \E a \in Range(events.data) : fact \in AccessFacts(img, f, a)
      BY <2>2, Zenon DEF AccessFacts
    <2>3. CASE \E p \in events.states : fact \in StateFacts(f, p)
      BY <2>3, Zenon DEF StateFacts
    <2>4. CASE \E m \in events.final_writes : fact \in FinalWriteFacts(img, f, events, m)
      <3>1. PICK m \in events.final_writes : fact \in FinalWriteFacts(img, f, events, m)
        BY <2>4, Zenon
      <3>2. FinalWriteFacts(img, f, events, m) = {}
            \/ \E payload : FinalWriteFacts(img, f, events, m)
                              = {make_evidence(f, m, "final-written-bytes", payload)}
        BY ZenonT(30) DEF FinalWriteFacts
      <3> QED
        BY <3>1, <3>2, Zenon
    <2>5. CASE \E r \in Range(rs) : fact = OutcomeFact(f, r)
      BY <2>5, Zenon DEF OutcomeFact
    <2>6. \/ fact \in UNION {EdgeFacts(img, f, e) : e \in Range(events.edges)}
          \/ fact \in UNION {AccessFacts(img, f, a) : a \in Range(events.data)}
          \/ fact \in UNION {StateFacts(f, p) : p \in events.states}
          \/ fact \in UNION {FinalWriteFacts(img, f, events, m) : m \in events.final_writes}
          \/ fact \in {OutcomeFact(f, r) : r \in {x \in Range(rs) : x.ran}}
      BY ZenonT(30) DEF viy_record_emulation_evidence
    <2> QED
      BY <2>1, <2>2, <2>3, <2>4, <2>5, <2>6, ZenonT(30)
  <1> QED
    BY <1>1, <1>2, Zenon

\* viy_apply_static_decode adds references; items and bytes stay.
LEMMA StaticDecodeKeepsItems ==
    ASSUME NEW img, NEW cfg, NEW audit, NEW db
    PROVE  /\ viy_apply_static_decode(img, cfg, audit, db).items = db.items
           /\ viy_apply_static_decode(img, cfg, audit, db).bytes = db.bytes
  BY DEF viy_apply_static_decode

-----------------------------------------------------------------------------
(* The invariant.                                                          *)

\* Nothing is submitted or reported at the start.
LEMMA InitAudit == Init => AuditInv
  <1> SUFFICES ASSUME Init
               PROVE  AuditInv
    OBVIOUS
  <1>1. PICK s \in Scenarios : Begin(s)
    BY Zenon DEF Init
  <1>2. pending = s.jobs /\ queue = <<>> /\ result = NewResult(0, "NONE", {})
    BY <1>1, Zenon DEF Begin, DriverInit
  <1>3. pending \in Seq(Job)
    BY <1>1, <1>2, ScenarioAssumption, Zenon
  <1>4. IsSequence(queue) /\ Range(queue) = {}
    BY <1>2, EmptyList, Zenon
  <1>5. {"status", "decoder_audit"} \subseteq DOMAIN result /\ result.decoder_audit = {}
    BY <1>2, NewResultFields, SMTT(30)
  <1> QED
    BY <1>3, <1>4, <1>5, Zenon DEF AuditInv, Inspectable

\* build_emulation_job submits non-empty windows only.
LEMMA SubmitAudit ==
    ASSUME AuditInv, Submit
    PROVE  AuditInv'
  <1>1. pending # <<>> /\ pending \in Seq(Job)
    BY Zenon DEF Submit, AuditInv
  <1>2. Head(pending) \in Job /\ Tail(pending) \in Seq(Job)
    BY <1>1, HeadTailProperties, Zenon
  <1>3. PICK job : job = Head(pending)
    OBVIOUS
  <1>4. PICK rs, inputs :
          /\ queue' = Append(queue, [func |-> job.func, runs |-> rs, decoder_inputs |-> inputs])
          /\ inputs = IF setup.can_static
                      THEN viy_snapshot_decoder_audit(idb, isa, job.func) ELSE {}
    BY <1>3, ZenonT(30) DEF Submit
  <1>5. Inspectable(inputs)
    <2>1. CASE setup.can_static
      BY <1>2, <1>3, <1>4, <2>1, SnapshotIsInspectable, Zenon
    <2>2. CASE ~setup.can_static
      BY <1>4, <2>2, Zenon DEF Inspectable
    <2> QED
      BY <2>1, <2>2, Zenon
  <1>6. PICK j : j = [func |-> job.func, runs |-> rs, decoder_inputs |-> inputs]
    BY Zenon
  <1>7. j.decoder_inputs = inputs
    BY <1>6, SMTT(30)
  <1>8. /\ IsSequence(queue')
        /\ Range(queue') \subseteq Range(queue) \cup {j}
    <2>1. queue' = Append(queue, j)
      BY <1>4, <1>6, Zenon
    <2>2. IsSequence(queue)
      BY Zenon DEF AuditInv
    <2> QED
      BY <2>1, <2>2, RangeOfAppend, Zenon
  <1>9. \A k \in Range(queue') : Inspectable(k.decoder_inputs)
    BY <1>5, <1>7, <1>8, Zenon DEF AuditInv
  <1>10. pending' = Tail(pending) /\ result' = result
    BY Zenon DEF Submit, driver_vars
  <1> QED
    BY <1>2, <1>8, <1>9, <1>10, Zenon DEF AuditInv, IsSequence, Range, Inspectable

\* The worker analyses the inputs it was given, and nothing else.
LEMMA TakeJobAudit ==
    ASSUME AuditInv, TakeJob
    PROVE  AuditInv'
  <1>1. /\ Head(queue) \in Range(queue)
        /\ IsSequence(queue')
        /\ Range(queue') \subseteq Range(queue)
    BY RangeOfTail, Zenon DEF TakeJob, AuditInv
  <1>2. Inspectable(Head(queue).decoder_inputs)
    BY <1>1, Zenon DEF AuditInv
  <1>3. PICK audit : audit = {viy_analyze_decoder_input(image, setup.rax_isa, setup.rich, i)
                              : i \in Head(queue).decoder_inputs}
    BY Zenon
  <1>4. Inspectable({x.input : x \in audit})
    <2>1. ASSUME NEW i
          PROVE  viy_analyze_decoder_input(image, setup.rax_isa, setup.rich, i).input = i
      BY DEF viy_analyze_decoder_input
    <2>2. ASSUME NEW y \in {x.input : x \in audit}
          PROVE  y \in Head(queue).decoder_inputs
      <3>1. PICK i \in Head(queue).decoder_inputs :
               y = viy_analyze_decoder_input(image, setup.rax_isa, setup.rich, i).input
        BY <1>3, <2>2, Zenon
      <3> QED
        BY <2>1, <3>1, SMTT(30)
    <2> QED
      BY <1>2, <2>2, Zenon DEF Inspectable
  <1>5. \E start, status : \E kept \in {audit, {}} : result' = NewResult(start, status, kept)
    BY <1>3, Zenon DEF TakeJob, execute
  <1>6. /\ {"status", "decoder_audit"} \subseteq DOMAIN result'
        /\ result'.decoder_audit \in {audit, {}}
    BY <1>5, NewResultFields, SMTT(30)
  <1>7. Inspectable({x.input : x \in result'.decoder_audit})
    BY <1>4, <1>6, Zenon DEF Inspectable
  <1>8. pending' = pending
    BY Zenon DEF TakeJob
  <1>9. \A k \in Range(queue') : Inspectable(k.decoder_inputs)
    BY <1>1, Zenon DEF AuditInv
  <1> QED
    BY <1>1, <1>6, <1>7, <1>8, <1>9, Zenon DEF AuditInv, IsSequence, Range, Inspectable

\* The worker changes nothing of what is submitted.
LEMMA WorkAudit ==
    ASSUME AuditInv, Work
    PROVE  AuditInv'
  <1>1. WorkerStep /\ pending' = pending /\ queue' = queue
    BY Zenon DEF Work
  <1>2. /\ DOMAIN result' = DOMAIN result
        /\ result'.decoder_audit \in {result.decoder_audit, {}}
    BY <1>1, WorkerKeepsAudit, Zenon DEF AuditInv
  <1>3. Inspectable({x.input : x \in result'.decoder_audit})
    BY <1>2, Zenon DEF AuditInv, Inspectable
  <1> QED
    BY <1>1, <1>2, <1>3, Zenon DEF AuditInv

\* The result is handed over; what is submitted stays.
LEMMA ProcessAudit ==
    ASSUME AuditInv, process_function
    PROVE  AuditInv'
  <1>1. pending' = pending /\ queue' = queue /\ result' = NewResult(0, "NONE", {})
    BY ZenonT(30) DEF process_function
  <1>2. {"status", "decoder_audit"} \subseteq DOMAIN result' /\ result'.decoder_audit = {}
    BY <1>1, NewResultFields, SMTT(30)
  <1>3. Inspectable({x.input : x \in result'.decoder_audit})
    BY <1>2, Zenon DEF Inspectable
  <1> QED
    BY <1>1, <1>2, <1>3, ZenonT(30) DEF AuditInv

LEMMA NextAudit ==
    ASSUME AuditInv, [Next]_vars
    PROVE  AuditInv'
  <1>1. CASE Submit
    BY <1>1, SubmitAudit, Zenon
  <1>2. CASE TakeJob
    BY <1>2, TakeJobAudit, Zenon
  <1>3. CASE Work
    BY <1>3, WorkAudit, Zenon
  <1>4. CASE process_function
    BY <1>4, ProcessAudit, Zenon
  <1>5. CASE UserEdit \/ UNCHANGED vars
    <2>1. pending' = pending /\ queue' = queue /\ result' = result
      BY <1>5, Zenon DEF UserEdit, vars, driver_vars
    <2> QED
      BY <2>1, Zenon DEF AuditInv
  <1> QED
    BY <1>1, <1>2, <1>3, <1>4, <1>5, Zenon DEF Next

\* From submission to the result a window is never empty, whatever the user
\* and the passes over earlier functions do meanwhile.
LEMMA AuditWindows == Spec => []AuditInv
  BY InitAudit, NextAudit, PTL DEF Spec

-----------------------------------------------------------------------------
(* The audit is current.                                                   *)

\* process_function is the only step that takes a result, and the facts it
\* adds speak of the database it leaves.
LEMMA ProcessIsCurrent ==
    ASSUME AuditInv, process_function
    PROVE  AuditStep
  <1> SUFFICES ASSUME NEW f \in facts' \ facts, "support" \in DOMAIN f
               PROVE  /\ result.status # "CANCELLED"
                      /\ is_code_head(idb', f.support)
                      /\ byte_loaded(image, f.support) =>
                            idb'.bytes[f.support] = snapshot_byte(image, f.support)
    BY Zenon DEF AuditStep
  <1>1. PICK events, db, audit :
          /\ audit = IF setup.can_static /\ result.status # "CANCELLED"
                     THEN viy_discard_stale_decoder_audit(image, db, result.decoder_audit)
                     ELSE {}
          /\ facts' = facts \cup viy_record_emulation_evidence(image, func, events, result.runs)
                            \cup viy_record_decoder_audit(func, audit)
          /\ idb' = viy_apply_static_decode(image, setup.cfg, audit, db)
    BY Zenon DEF process_function
  <1>2. f \in viy_record_decoder_audit(func, audit)
    BY <1>1, EmulationFactsHaveNoSupport, Zenon
  <1>3. PICK x \in audit : f.support = x.input.address
    BY <1>2, AuditFactSupport, Zenon
  <1>4. /\ result.status # "CANCELLED"
        /\ x \in viy_discard_stale_decoder_audit(image, db, result.decoder_audit)
    BY <1>1, <1>3, Zenon
  <1>5. Inspectable({y.input : y \in result.decoder_audit})
    BY ZenonT(30) DEF AuditInv
  <1>6. /\ is_code_head(db, f.support)
        /\ byte_loaded(image, f.support) => db.bytes[f.support] = snapshot_byte(image, f.support)
    <2>1. PICK answers : answers = result.decoder_audit
      BY Zenon
    <2>2. /\ x \in viy_discard_stale_decoder_audit(image, db, answers)
          /\ Inspectable({y.input : y \in answers})
      BY <1>4, <1>5, <2>1, Zenon
    <2>3. /\ is_code_head(db, x.input.address)
          /\ byte_loaded(image, x.input.address) =>
                db.bytes[x.input.address] = snapshot_byte(image, x.input.address)
      BY <2>2, KeptEntryIsCurrent, ZenonT(30)
    <2> QED
      BY <1>3, <2>3, SMTT(30)
  <1>7. idb'.items = db.items /\ idb'.bytes = db.bytes
    BY <1>1, StaticDecodeKeepsItems, SMTT(30)
  <1>8. is_code_head(idb', f.support)
    <2>1. item_at(idb', f.support) = item_at(db, f.support)
      BY <1>7, SMTT(30) DEF item_at
    <2> QED
      BY <1>6, <2>1, Zenon DEF is_code_head
  <1> QED
    BY <1>4, <1>6, <1>7, <1>8, Zenon

\* No other step takes a result.
LEMMA OthersTakeNoResult ==
    ASSUME AuditInv, Submit \/ TakeJob \/ Work \/ UserEdit \/ UNCHANGED vars
    PROVE  ~Processed
  <1>1. CASE Submit \/ UserEdit \/ UNCHANGED vars
    <2>1. result' = result
      BY <1>1, Zenon DEF Submit, UserEdit, vars, driver_vars
    <2> QED
      BY <2>1, Zenon DEF Processed
  <1>2. CASE TakeJob
    BY <1>2, Zenon DEF TakeJob, Processed
  <1>3. CASE Work
    <2>1. result'.status \in {result.status, "CANCELLED", "COMPLETED", "FAILED"}
      BY <1>3, WorkerKeepsAudit, Zenon DEF Work, AuditInv
    <2> QED
      BY <2>1, SMTT(30) DEF Processed
  <1> QED
    BY <1>1, <1>2, <1>3, Zenon

\* What the decoder audit adds is about instructions the database still
\* shows over the bytes rax decoded, for every program, database, budget and
\* window: viy_discard_stale_decoder_audit catches every edit and every patch
\* made since viy_snapshot_decoder_audit, and a cancelled job adds nothing.
THEOREM AuditIsCurrent == Spec => AuditFactsAreCurrent
  <1>1. ASSUME AuditInv, [Next]_vars
        PROVE  AuditStep
    <2>1. CASE process_function
      BY <1>1, <2>1, ProcessIsCurrent, Zenon
    <2>2. CASE Submit \/ TakeJob \/ Work \/ UserEdit \/ UNCHANGED vars
      BY <1>1, <2>2, OthersTakeNoResult, Zenon DEF AuditStep
    <2> QED
      BY <1>1, <2>1, <2>2, Zenon DEF Next
  <1> QED
    BY <1>1, AuditWindows, PTL DEF Spec, AuditFactsAreCurrent

-----------------------------------------------------------------------------
(* The budgets of a run.                                                   *)

\* The steps outside the worker leave the driver alone, but for the result
\* that process_function takes.
LEMMA NextDriver ==
    ASSUME DriverInv, [Next]_vars
    PROVE  DriverInv'
  <1>1. CASE UNCHANGED driver_vars
    <2>1. UNCHANGED <<phase, engine, ctx, out, result>>
      BY <1>1, Zenon DEF driver_vars
    <2> QED
      BY <2>1, Zenon DEF DriverInv, RunOK, IsSequence, Range
  <1>2. CASE TakeJob
    <2>1. \E f, rs, audit : execute(f, rs, audit)
      BY <1>2, Zenon DEF TakeJob
    <2> QED
      BY <2>1, ExecuteInv, Zenon
  <1>3. CASE Work
    BY <1>3, WorkerStepInv, Zenon DEF Work
  <1>4. CASE process_function
    <2>1. /\ UNCHANGED <<engine, ctx, out>> /\ phase' = "done"
          /\ result' = NewResult(0, "NONE", {})
      BY <1>4, Zenon DEF process_function
    <2>2. "runs" \in DOMAIN result' /\ result'.runs = <<>>
      BY <2>1, NewResultRuns, SMTT(30)
    <2>3. result'.runs \in {<<>>, result.runs} /\ phase' \in {"idle", "done"}
      BY <2>1, <2>2, Zenon
    <2> QED
      BY <2>1, <2>2, <2>3, SameRuns, Zenon
  <1> QED
    BY <1>1, <1>2, <1>3, <1>4, Zenon DEF Next, Submit, UserEdit, vars

\* DriverInv is an invariant of the pipeline.
LEMMA DriverInvariant == Spec => []DriverInv
  <1>1. Init => DriverInv
    BY DriverInitInv, Zenon DEF Init, Begin
  <1>2. DriverInv /\ [Next]_vars => DriverInv'
    BY NextDriver, Zenon
  <1> QED
    BY <1>1, <1>2, PTL DEF Spec

\* A run never executes more instructions than its budget, however often call
\* summaries interrupt it; it resumes a bounded number of times; the modelled
\* heap is never left; and no run keeps more edges or accesses than the cap
\* (emulate_from, apply_summary, record_edge, record_access).
THEOREM RunsStayInBudget == Spec => []RunStaysInBudget
  <1>1. DriverInv => RunStaysInBudget
    <2> SUFFICES ASSUME DriverInv PROVE RunStaysInBudget
      OBVIOUS
    <2>1. ctx.heap_cursor \in HeapLo .. HeapHi
      BY ZenonT(30) DEF DriverInv, RunOK
    <2>2. ASSUME phase \in {"loop", "running", "ending"}
          PROVE  Used <= MaxInsns /\ ctx.resumptions <= MaxResumptions + 1
      BY <2>2, BudgetAssumption, SMTT(30) DEF DriverInv, Used
    <2> QED
      BY <2>1, <2>2, Zenon DEF RunStaysInBudget, DriverInv
  <1> QED
    BY <1>1, DriverInvariant, PTL
=============================================================================
