---------------------------- MODULE DecoderAudit ----------------------------
(***************************************************************************)
(* The decoder audit (decoder_audit.cpp, decoder_audit_core.cpp,            *)
(* decoder_core.cpp, smir_analysis.cpp, static_decoder.cpp).  When a job is *)
(* submitted, the main thread copies what IDA decodes in the function; the  *)
(* worker decodes the snapshot bytes with rax; when the result is processed,*)
(* entries the database no longer agrees with are dropped and the rest      *)
(* become facts and code references.  isa is what IDA's processor module    *)
(* decodes, risa what rax decodes: both are external and may differ.        *)
(***************************************************************************)
EXTENDS FunctionEnrich

CONSTANTS
    AuditBudget,   \* 65536 heads in the code
    AuditWindow    \* 16 bytes in the code

ida_direct_target(i) == IF i.op \in {"call", "jmp", "jz"} THEN {i.to} ELSE {}

ida_flow(i) ==
    CASE i.op = "ret"   -> "return"
      [] i.op = "icall" -> "indirect-call"
      [] i.op = "call"  -> "call"
      [] i.op = "ijmp"  -> "indirect-jump"
      [] i.op = "jmp"   -> "branch"
      [] i.op = "hlt"   -> "indirect-jump"
      [] OTHER          -> "fallthrough"

ida_instruction_model(i) ==
    [size |-> 1, flow |-> ida_flow(i), target |-> ida_direct_target(i)]

viy_decoder_window_size(pc, chunk_end) ==
    IF pc >= chunk_end THEN 0 ELSE Min({AuditWindow, chunk_end - pc})

\* The item heads of every chunk, lowest first, as far as the budget goes.
viy_snapshot_decoder_audit(idb, isa, func) ==
    LET visited  == UNION {{[address |-> a, chunk_end |-> c.end]
                            : a \in {h \in c.start .. c.end - 1 :
                                        h = c.start \/ is_head(idb, h)}}
                           : c \in func.chunks}
        budgeted == {v \in visited :
                        Cardinality({w \in visited : w.address < v.address}) < AuditBudget}
    IN  UNION {{[address |-> v.address,
                 window |-> viy_decoder_window_size(v.address, v.chunk_end),
                 ida |-> ida_instruction_model(i),
                 control_transfer |-> features(i) # {}]
                : i \in decode_source(idb, isa, v.address)} : v \in budgeted}

-----------------------------------------------------------------------------
(* On the worker: the snapshot, never the database.                        *)

\* How rax classifies an instruction (external).
rax_decoded(i) ==
    [size |-> 1, target |-> ida_direct_target(i),
     flow |-> IF i.op = "jz" THEN "conditional-branch"
              ELSE IF i.op = "hlt" THEN "trap" ELSE ida_flow(i)]

\* The loaded bytes that begin at an address and stay in its segment.
LoadedWindow(img, ea, size) ==
    Cardinality({a \in Span(ea, size) :
        \A b \in ea .. a : byte_loaded(img, b) /\ segment_at(img, b) = segment_at(img, ea)})

\* Effects of an instruction that need no machine state (external).
SmirEffects(i) ==
    CASE i.op = "store" -> {[effect |-> "access", addr |-> i.addr,
                             size |-> Len(i.bytes), kind |-> "write"]}
      [] i.op = "load"  -> {[effect |-> "access", addr |-> i.addr,
                             size |-> i.size, kind |-> "read"]}
      [] i.op = "args"  -> {[effect |-> "constant", reg |-> r, value |-> i.args[r]]
                            : r \in DOMAIN i.args}
      [] OTHER          -> {}

\* Without the rich analysis only the plain decode is known.
viy_analyze_decoder_input(img, risa, rich, input) ==
    LET found == IF LoadedWindow(img, input.address, input.window) = 0 THEN {}
                 ELSE loaded_view(img, risa, input.address)
    IN  [input |-> input, analyzed |-> rich, decoded |-> {rax_decoded(i) : i \in found},
         effects |-> UNION {SmirEffects(i) : i \in found}]

-----------------------------------------------------------------------------
(* Back on the main thread.                                                *)

\* Mutant: the bytes are not compared.
DiscardByItemOnly(img, idb, audit) ==
    {x \in audit : is_code_head(idb, x.input.address)}

\* Still an instruction of the same size, over the bytes rax was shown.
viy_discard_stale_decoder_audit(img, idb, audit) ==
    {x \in audit :
        LET ea == x.input.address
            n  == LoadedWindow(img, ea, x.input.window)
        IN  /\ \E i \in item_at(idb, ea) : i.start = ea /\ i.kind = "code"
                                           /\ i.size = x.input.ida.size
            /\ current_bytes_equal(idb, ea, snapshot_bytes(img, ea, n))}

viy_decoder_direct_target(model) ==
    IF model.flow \in {"call", "branch", "conditional-branch"}
    THEN {[kind |-> IF model.flow = "call" THEN "Call" ELSE "Jump", address |-> t]
          : t \in model.target}
    ELSE {}

AuditFact(func, ea, method, payload) ==
    [payload |-> payload, method |-> method, support |-> ea,
     scope |-> [run_id |-> -1, seed |-> -1, start |-> func.start,
                end |-> Max({func.end} \cup {c.end : c \in func.chunks})]]

emit_target(func, ea, method, target) ==
    AuditFact(func, ea, method,
              [source |-> ea, target |-> target.address, kind |-> target.kind])

emit_region(func, ea, size, kind) ==
    AuditFact(func, ea, "ida-rax-decode-disagreement",
              [start |-> ea, end |-> ea + size, kind |-> kind])

\* Facts of the instruction's own effects, and of its encoded target.
viy_record_smir_analysis(func, x) ==
    LET ea == x.input.address
    IN  (UNION {{emit_target(func, ea, "encoded-control-target", t)
                 : t \in viy_decoder_direct_target(d)} : d \in x.decoded})
        \cup {AuditFact(func, ea, "constant-register-result",
                        [from |-> ea, reg |-> e.reg, value |-> e.value])
              : e \in {f \in x.effects : f.effect = "constant"}}
        \cup {AuditFact(func, ea, "resolved-memory-access",
                        [from |-> ea, addr |-> e.addr, size |-> e.size, kind |-> e.kind])
              : e \in {f \in x.effects : f.effect = "access"}}

\* What an analysed instruction does, a decode rax rejects, a disagreement
\* about size or flow, and the direct target each decoder sees.
viy_record_decoder_audit(func, audit) ==
    LET facts_of(x) ==
          LET ea  == x.input.address
              ida == x.input.ida
          IN  IF x.decoded = {} THEN {emit_region(func, ea, ida.size, "Unknown")}
              ELSE LET rax == CHOOSE d \in x.decoded : TRUE
                   IN  (IF x.analyzed THEN viy_record_smir_analysis(func, x) ELSE {})
                       \cup (IF rax.size # ida.size \/ rax.flow # ida.flow
                            THEN {emit_region(func, ea, Max({rax.size, ida.size}), "Mixed")}
                            ELSE {})
                       \cup {emit_target(func, ea, "rax-direct-target", t)
                             : t \in viy_decoder_direct_target(rax)}
                       \cup {emit_target(func, ea, "ida-direct-target", t)
                             : t \in viy_decoder_direct_target(ida)}
    IN  UNION {facts_of(x) : x \in audit}

\* A transfer with no known target gets the one rax decoded.
\* Every address has one entry, so no addition is in the way of another, and
\* nothing but references and planned analysis is added.
viy_apply_static_decode(img, cfg, audit, idb) ==
    LET open  == {x \in audit : x.input.control_transfer
                                /\ ~\E c \in idb.crefs : c.from = x.input.address}
        found == UNION {UNION {{[from |-> x.input.address, to |-> t.address,
                                 call |-> t.kind = "Call"]
                                : t \in viy_decoder_direct_target(d)} : d \in x.decoded}
                        : x \in open}
        added == {c \in found : CanAddCref(img, idb, c.from, c.to)}
    IN  [bytes |-> idb.bytes, items |-> idb.items, names |-> idb.names, rpt |-> idb.rpt,
         cmt |-> idb.cmt, crefs |-> idb.crefs \cup added, drefs |-> idb.drefs,
         funcs |-> idb.funcs, tails |-> idb.tails,
         planned |-> idb.planned \cup {c.to : c \in {a \in added :
                                          "make_code" \in cfg /\ is_unknown(idb, a.to)}},
         switches |-> idb.switches]
=============================================================================
