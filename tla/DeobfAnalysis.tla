--------------------------- MODULE DeobfAnalysis ---------------------------
(***************************************************************************)
(* The read-only deobfuscation provider of deobf_analysis.cpp over one     *)
(* function, next to a processor that executes that function.              *)
(*                                                                         *)
(* text maps every address of the function to the x86 instruction IDA      *)
(* decodes there.  The provider translates it, snapshots it with IDA's     *)
(* cross references and flow chart, runs the classifiers and emits facts.  *)
(* The processor is the reference the facts are compared with: it          *)
(* evaluates operands and conditions from their arithmetic meaning, not    *)
(* from the classifiers' bit formulas.                                     *)
(***************************************************************************)
EXTENDS DeobfAnalysisCore

CONSTANTS Programs,    \* the functions considered: [0 .. n -> instruction]
          Registers,   \* general registers; the stack pointer is separate
          Unknowns,    \* words an unknown value is drawn from
          Callee,      \* an executable address outside the function
          rodata,      \* read-only memory: [address -> word]
          MaxEpoch,    \* bound on analysis epochs
          MaxRefused,  \* bound on the facts the sink refuses in one analysis
          MaxSteps     \* bound on executed instructions

ASSUME CalleeAssumption == Callee \notin UNION {DOMAIN p : p \in Programs}

VARIABLES
  text,        \* the function's instructions
  epoch,       \* Impl::current_epoch
  emitted,     \* Impl::emitted_by_function[0], the payload keys
  ledger,      \* the facts the sink accepted
  analysed,    \* an analysis of this epoch had no fact refused
  pc, regs, flags, stack, halted,   \* the processor
  trail,       \* the addresses executed since the last transfer
  known_entry, \* that transfer was one IDA has a cross reference for
  owed,        \* dispatch edges entered and not yet resolved
  steps        \* instructions executed

provider == <<epoch, emitted, ledger, analysed>>
processor == <<pc, regs, flags, stack, halted, trail, known_entry, owed, steps>>
vars == <<text, provider, processor>>

function_start == 0

-----------------------------------------------------------------------------
(***************************************************************************)
(* Decoded operands: a register, an immediate, a memory cell, the top of   *)
(* the stack, the stack pointer, a displacement from op1's register, a near *)
(* code address; w is the operand's width in bytes.                        *)
(***************************************************************************)
Operand(type, v, w) == [type |-> type, v |-> v, w |-> w]
Void == Operand("void", 0, 0)
Insn(itype, op1, op2) == [itype |-> itype, op1 |-> op1, op2 |-> op2, cond |-> "Unknown"]
Jcc(cond, t) == [itype |-> "jcc", op1 |-> Operand("near", t, 0), op2 |-> Void, cond |-> cond]

branch_target(i) == IF i.op1.type = "near" THEN i.op1.v ELSE kBadAddress

zero_extend_to_width(v, sw, dw) == v

sign_extend_to_width(v, sw, dw) ==
  LET low == truncate_width(v, sw)
      wide == IF SignBit(low, sw) = 1 THEN low + (WordSize - 1 - width_mask(sw)) ELSE low
  IN  IF sw = 0 \/ sw >= dw \/ sw >= MaxWidth \/ dw > MaxWidth THEN v
      ELSE truncate_width(wide, dw)

x86_extended_immediate(op, w) == sign_extend_to_width(op.v, op.w, w)

x86_preserves_flags(i) ==
  i.itype \in {"jcc", "mov", "lea", "nop", "push", "pop", "call", "jmp", "ret", "loop"}

set_destination(out, op) ==
  IF op.type # "reg" THEN out
  ELSE [out EXCEPT !.destination_register = op.v, !.value_width = op.w]

set_source(out, op) ==
  IF op.type # "reg" THEN out
  ELSE [out EXCEPT !.source_register = op.v,
                   !.value_width = IF @ = 0 THEN op.w ELSE @]

ChangesOp1(i) == i.itype \notin {"cmp", "test", "push", "nop", "jcc", "call", "jmp", "ret", "loop"}

writes_global_memory(i) == i.op1.type = "mem" /\ ChangesOp1(i)

\* An instruction the switch does not translate: only the register it is
\* known to change is kept.
Untranslated(out, i) ==
  IF i.op1.type = "reg" /\ ChangesOp1(i) THEN set_destination(out, i.op1) ELSE out

AluKind == [add |-> "AddImmediate", sub |-> "SubImmediate", xor |-> "XorImmediate",
            and |-> "AndImmediate", or |-> "OrImmediate", shl |-> "ShiftLeftImmediate"]

translate_control(out, i) ==
  LET t == branch_target(i)
      transfer(near, far) ==
        [set_source(out, i.op1) EXCEPT !.kind = IF t = kBadAddress THEN far ELSE near,
                                       !.target = t]
  IN  CASE i.itype = "jcc" -> [out EXCEPT !.kind = "ConditionalBranch",
                                          !.condition = i.cond, !.target = t]
        [] i.itype = "call" -> transfer("DirectCall", "IndirectCall")
        [] i.itype = "ret" -> [out EXCEPT !.kind = "Return"]
        [] i.itype = "jmp" -> transfer("DirectJump", "IndirectJump")
        [] i.itype = "loop" -> [out EXCEPT !.kind = "ConditionalBranch", !.target = t]

\* op1's register alone: a displacement must be zero.
x86_base_only_operand(op) == op.type = "displ" /\ op.v = 0

translate_move(out, i) ==
  LET moved == [set_destination(out, i.op1) EXCEPT !.plumbing = TRUE]
  IN  CASE i.itype = "mov" /\ i.op1.type # "reg" -> Untranslated(moved, i)
        [] i.itype = "mov" /\ i.op1.type = "reg" /\ i.op2.type = "imm" ->
             [moved EXCEPT !.kind = "LoadImmediate",
                           !.immediate = x86_extended_immediate(i.op2, i.op1.w)]
        [] i.itype = "mov" /\ i.op1.type = "reg" /\ i.op2.type = "reg" ->
             [set_source(moved, i.op2) EXCEPT !.kind = "CopyRegister"]
        [] i.itype = "mov" /\ i.op1.type = "reg" /\ i.op2.type = "top" ->
             [moved EXCEPT !.kind = "ReadStackTop"]
        [] i.itype = "mov" /\ i.op1.type = "reg" /\ i.op2.type = "mem" ->
             IF i.op2.v \notin DOMAIN rodata THEN moved
             ELSE [moved EXCEPT !.kind = "LoadReadOnlyConstant",
                                !.memory_address = i.op2.v,
                                !.immediate = truncate_width(rodata[i.op2.v], i.op1.w)]
        [] i.itype = "lea" /\ x86_base_only_operand(i.op2) ->
             [moved EXCEPT !.kind = "AddImmediate", !.source_register = i.op1.v,
                           !.immediate = i.op2.v]
        [] i.itype = "lea" /\ i.op2.type = "mem" ->
             [moved EXCEPT !.kind = "LoadAddress", !.immediate = i.op2.v]
        [] OTHER -> moved

translate_stack(out, i) ==
  CASE i.itype = "push" /\ i.op1.type = "reg" ->
         [set_source(out, i.op1) EXCEPT !.kind = "PushRegister", !.plumbing = TRUE]
    [] i.itype = "push" /\ i.op1.type = "imm" ->
         [out EXCEPT !.kind = "PushImmediate", !.plumbing = TRUE, !.value_width = MaxWidth,
                     !.immediate = sign_extend_to_width(i.op1.v, i.op1.w, MaxWidth)]
    [] i.itype = "pop" ->
         [set_destination(out, i.op1) EXCEPT !.kind = "PopRegister", !.plumbing = TRUE]
    [] i.itype = "add" /\ i.op1.type = "top" ->
         [out EXCEPT !.kind = "AddStackTopImmediate", !.value_width = i.op1.w,
                     !.immediate = x86_extended_immediate(i.op2, i.op1.w)]
    [] i.itype = "add" /\ i.op1.type = "sp" ->
         [out EXCEPT !.kind = "AdjustStackPointerImmediate", !.value_width = i.op1.w,
                     !.plumbing = TRUE,
                     !.immediate = x86_extended_immediate(i.op2, i.op1.w)]

translate_alu(out, i) ==
  LET dest == set_destination(out, i.op1)
      flagged(reg, imm, kind, effect) ==
        [set_destination(out, reg) EXCEPT !.kind = kind, !.flag_effect = effect,
                                          !.immediate = x86_extended_immediate(imm, reg.w)]
  IN  CASE i.itype = "inc" -> [dest EXCEPT !.kind = "AddImmediate", !.immediate = 1]
        [] i.itype = "dec" -> [dest EXCEPT !.kind = "SubImmediate", !.immediate = 1]
        [] i.itype \in DOMAIN AluKind /\ i.op1.type = "reg" /\ i.op2.type = "imm" ->
             [dest EXCEPT !.kind = AluKind[i.itype], !.source_register = i.op1.v,
                          !.immediate = IF i.itype = "shl" THEN i.op2.v
                                        ELSE x86_extended_immediate(i.op2, i.op1.w)]
        [] i.itype \in {"xor", "sub"} /\ i.op1.type = "reg"
             /\ i.op2.type = "reg" /\ i.op2.v = i.op1.v ->
             [dest EXCEPT !.kind = "LoadImmediate", !.immediate = 0]
        [] i.itype = "cmp" /\ i.op1.type = "reg" /\ i.op2.type = "imm" ->
             flagged(i.op1, i.op2, "CompareImmediate", "KnownCompare")
        [] i.itype = "cmp" /\ i.op1.type = "imm" /\ i.op2.type = "reg" ->
             [flagged(i.op2, i.op1, "CompareImmediate", "KnownCompare")
                EXCEPT !.register_is_left_operand = FALSE]
        [] i.itype = "test" /\ i.op1.type = "reg" /\ i.op2.type = "imm" ->
             flagged(i.op1, i.op2, "TestImmediate", "KnownTest")
        [] OTHER -> Untranslated(out, i)

translate_x86(a, i) ==
  LET out == [address |-> a, size |-> 1, kind |-> "Other",
              destination_register |-> kNoRegister, source_register |-> kNoRegister,
              value_width |-> 0, immediate |-> 0, memory_address |-> kBadAddress,
              target |-> kBadAddress, condition |-> "Unknown",
              flag_effect |-> IF x86_preserves_flags(i) THEN "Preserve" ELSE "UnknownWrite",
              register_is_left_operand |-> TRUE, alternate_predecessor |-> FALSE,
              writes_global_memory |-> writes_global_memory(i), plumbing |-> FALSE]
  IN  CASE i.itype \in {"jcc", "call", "ret", "jmp", "loop"} -> translate_control(out, i)
        [] i.itype = "nop" -> [out EXCEPT !.kind = "Nop", !.plumbing = TRUE]
        [] i.itype \in {"mov", "lea"} -> translate_move(out, i)
        [] i.itype \in {"push", "pop"} \/ i.op1.type \in {"top", "sp"} -> translate_stack(out, i)
        [] OTHER -> translate_alu(out, i)

-----------------------------------------------------------------------------
(***************************************************************************)
(* The snapshot of the function: IDA's code cross references and basic     *)
(* blocks, and the translated instructions with their alternate            *)
(* predecessors.                                                           *)
(***************************************************************************)
StopsFlow == {"jmp", "ret"}
EndsBlock == {"jmp", "ret", "jcc", "loop"}

\* IDA's code cross references: ordinary flow and direct targets.
Xrefs(t) ==
  {<<a, a + 1>> : a \in {b \in DOMAIN t : t[b].itype \notin StopsFlow /\ b + 1 \in DOMAIN t}}
  \cup {<<a, t[a].op1.v>> : a \in {b \in DOMAIN t : t[b].op1.type = "near"}}

has_earlier_predecessor(xrefs, at, expected_linear) ==
  \E x \in xrefs : x[2] = at /\ x[1] < expected_linear

has_alternate_predecessor(xrefs, at, expected_linear) ==
  \E x \in xrefs : x[2] = at /\ x[1] # expected_linear

has_other_callers(snap, target, caller) ==
  \E x \in snap.xrefs : x[2] = target /\ x[1] # caller /\ snap.text[x[1]].itype = "call"

count_callers(snap, target) ==
  Cardinality({x \in snap.xrefs : x[2] = target /\ snap.text[x[1]].itype = "call"})

\* safe_gap: every byte is loaded; none is named or the target of a reference.
loaded(t, first, last) == first <= last /\ first .. last \subseteq DOMAIN t
unreferenced(t, first, last) ==
  /\ first <= last
  /\ \A a \in DOMAIN t : t[a].op1.type = "near" => t[a].op1.v \notin first .. last
  /\ function_start \notin first .. last

usable_target(t, a) == a \in DOMAIN t \cup {Callee}

\* The instruction at a, its linear predecessor being previous.
Decoded(t, xrefs, a, previous) ==
  [translate_x86(a, t[a]) EXCEPT
     !.alternate_predecessor = has_alternate_predecessor(xrefs, a, previous)]

\* qflow_chart_t::create: blocks start at the entry, at jump targets and
\* after an instruction that ends a block.
Leaders(t) ==
  {function_start}
  \cup {t[a].op1.v : a \in {b \in DOMAIN t : t[b].op1.type = "near" /\ t[b].itype # "call"}}
  \cup {a + 1 : a \in {b \in DOMAIN t : t[b].itype \in EndsBlock}}

build_blocks(t, xrefs, insns) ==
  LET leaders == Leaders(t) \cap DOMAIN t
      last(a) == Min({b \in leaders \cup {Len(insns)} : b > a}) - 1
      flows(x) == t[x[1]].itype = "call" => x[2] = x[1] + 1
  IN  {[start |-> a, instructions |-> SubSeq(insns, a + 1, last(a) + 1),
        successors |-> {x[2] : x \in {y \in xrefs : y[1] = last(a) /\ flows(y)}} \cap leaders]
         : a \in leaders}

snapshot_function(t) ==
  LET xrefs == Xrefs(t)
      insns == [k \in 1 .. Cardinality(DOMAIN t) |->
                  Decoded(t, xrefs, k - 1, IF k = 1 THEN kBadAddress ELSE k - 2)]
  IN  [text |-> t, xrefs |-> xrefs, instructions |-> insns,
       blocks |-> build_blocks(t, xrefs, insns)]

decode_gadget(snap, target) ==
  LET t == snap.text
      n == Cardinality(DOMAIN t)
      stops(a) == t[a].itype \in EndsBlock \cup {"call"}
      stop == {a \in target .. n - 1 : stops(a) \/ a = n - 1 \/ a - target = limits.gadget_depth}
  IN  IF target \notin DOMAIN t THEN <<>>
      ELSE [k \in 1 .. Min(stop) - target + 1 |->
              Decoded(t, snap.xrefs, target + k - 1,
                      IF k = 1 THEN kBadAddress ELSE target + k - 2)]

-----------------------------------------------------------------------------
(***************************************************************************)
(* The analyses: the facts each one emits for the function.                *)
(***************************************************************************)
Claim(payload, proof, confidence, support) ==
  [payload |-> payload, proof |-> proof, confidence |-> confidence, support |-> support]

\* CodeTargetFact: from has the one target; kind says by which transfer.
CodeTarget(from, target, kind) ==
  [type |-> "CodeTarget", from |-> from, target |-> target, kind |-> kind]

\* RegisterValueFact: before instruction, the low width bytes of reg are value.
RegisterValue(instruction, reg, value, width) ==
  [type |-> "RegisterValue", instruction |-> instruction, reg |-> reg,
   value |-> truncate_width(value, width), width |-> width]

\* BranchReachabilityFact.
Branch(branch, successor, state) ==
  [type |-> "BranchReachability", branch |-> branch, successor |-> successor, state |-> state]

\* CodeRegionFact of kind Data.
DataRegion(start, stop) == [type |-> "CodeRegion", start |-> start, stop |-> stop]

Trait(kind, value) == [type |-> "FunctionTrait", trait |-> kind, value |-> value]

analyze_get_pc(snap) ==
  LET t == snap.text
      calls == {i \in ToSet(snap.instructions) : i.kind = "DirectCall" /\ i.target # kBadAddress}
      found(c) == classify_get_pc_gadget(c, decode_gadget(snap, c.target),
                                         has_other_callers(snap, c.target, c.address))
      entry(c) == decode_gadget(snap, c.target)[1]
      width(c) == IF entry(c).value_width = 0 THEN MaxWidth ELSE entry(c).value_width
      facts(c, g) ==
        {Claim(Trait("get-pc", <<c.target, g.mode, g.resumed_at>>), "StaticProof", 9800, g.support)}
        \cup {Claim(RegisterValue(g.return_instruction, g.pc_register, v, width(c)),
                    "StaticProof", 9800, g.support) : v \in g.register_value_at_return}
        \cup UNION {{Claim(CodeTarget(g.return_instruction, a, "Return"),
                           "StaticProof", 9900, g.support),
                     Claim(Branch(g.return_instruction, a, "Reached"),
                           "StaticProof", 9900, g.support)}
                      : a \in {b \in g.resumed_at : usable_target(t, b)}}
        \cup (IF /\ c.target > end(c) /\ c.target - end(c) <= limits.maximum_gap
                 /\ loaded(t, end(c), c.target - 1) /\ unreferenced(t, end(c), c.target - 1)
              THEN {Claim(DataRegion(end(c), c.target), "Heuristic", 7000,
                          {c.address, end(c), c.target})}
              ELSE {})
  IN  UNION {UNION {facts(c, g) : g \in found(c)} : c \in calls}

analyze_jump_gaps(snap) ==
  LET t == snap.text
      jumps == {i \in ToSet(snap.instructions) : i.kind = "DirectJump"}
      gaps == UNION {classify_jump_gap(j, loaded(t, end(j), j.target - 1),
                                       unreferenced(t, end(j), j.target - 1)) : j \in jumps}
  IN  {Claim(DataRegion(g.start, g.end), "Heuristic", 7000, {g.branch, g.start, g.end}) : g \in gaps}

analyze_entry_predicate(snap) ==
  LET t == snap.text
      entry == CHOOSE b \in snap.blocks : b.start = function_start
      found == classify_entry_predicate(function_start, entry.instructions)
      unspecified(p) == {Claim(Trait("entry-flags-unspecified", <<p.branch>>),
                               "Heuristic", 7200, p.support)}
      decided(p, taken) ==
        {Claim(Branch(p.branch, IF taken THEN p.target ELSE p.fallthrough, "Reached"),
               "StaticProof", 9900, p.support),
         Claim(Branch(p.branch, IF taken THEN p.fallthrough ELSE p.target, "ProvenUnreachable"),
               "StaticProof", 9900, p.support)}
  IN  UNION {IF p.knowledge = "EntryFlagsUnspecified" THEN unspecified(p)
             ELSE IF /\ Cardinality(p.support) >= 3
                     /\ usable_target(t, p.target) /\ usable_target(t, p.fallthrough)
             THEN UNION {decided(p, taken) : taken \in p.taken}
             ELSE {} : p \in found}

analyze_wrapper(snap) ==
  LET found == classify_wrapper([instructions |-> snap.instructions,
                                 caller_count |-> count_callers(snap, function_start),
                                 already_special |-> FALSE, has_tail_chunks |-> FALSE,
                                 scan_complete |-> TRUE, direct_callee_returns |-> TRUE])
      support(w) == {function_start, w.target}
  IN  UNION {{Claim(Trait("WrapperTarget", <<w.target>>), "Heuristic", 8500, support(w))}
             \cup (IF w.thunk THEN {Claim(Trait("Thunk", <<>>), "Heuristic", 9000, support(w))}
                   ELSE {})
               : w \in {v \in found : /\ v.target # function_start
                               /\ usable_target(snap.text, v.target)}}

TransferKind == [IndirectCall |-> "Call", IndirectJump |-> "Jump", PushReturn |-> "Return"]

\* constants: the result of analyze_constant_block for every block.
analyze_constants(snap, constants) ==
  LET targets == UNION {constants[b].targets : b \in snap.blocks}
      named(c) == c.register_id # kNoRegister /\ c.kind # "PushReturn"
  IN  UNION {{Claim(CodeTarget(c.instruction, c.target, TransferKind[c.kind]),
                    "StaticProof", 9900, c.support)}
             \cup (IF named(c)
                   THEN {Claim(RegisterValue(c.instruction, c.register_id, c.target, c.value_width),
                               "StaticProof", 9900, c.support)}
                   ELSE {})
               : c \in {d \in targets : usable_target(snap.text, d.target)}}

analyze_dispatch(snap, constants) ==
  LET map(d) == Claim([type |-> "DispatchMap", site |-> d.site, cases |-> d.cases,
                       default_target |-> d.default_target, complete |-> FALSE],
                      "Heuristic", IF d.loop_backed THEN 9000 ELSE 8000, d.comparison_sites)
      flattened(d) == d.loop_backed /\ d.selector_one_bit_percent \in 20 .. 80
      shape(d) == Claim(Trait("cff-dispatch-candidate", <<d.site, Cardinality(d.cases)>>),
                        "Heuristic", 8800, d.comparison_sites)
      edge(b, d, c, assigned) ==
        Claim([type |-> "CfgCandidate", from |-> Last(b.instructions).address, to |-> c.target],
              "SymbolicProof", 9500, assigned.support \cup d.comparison_sites)
      assignments(b) == constants[b].final_assignments
      fixes(b, d, c) == /\ b.successors = {d.entry_block}
                        /\ d.state_register \in DOMAIN assignments(b)
                        /\ assignments(b)[d.state_register].width = d.state_width
                        /\ assignments(b)[d.state_register].value = c.selector
      edges(d) == {edge(x[1], d, x[2], assignments(x[1])[d.state_register]) :
                     x \in {y \in snap.blocks \X d.cases : fixes(y[1], d, y[2])}}
  IN  UNION {{map(d)} \cup (IF flattened(d) THEN {shape(d)} ELSE {}) \cup edges(d)
               : d \in find_dispatch_candidates(snap.blocks)}

\* The claims of one pass over the function, in the order they are emitted.
analyze_one(snap, constants) ==
  <<analyze_get_pc(snap), analyze_jump_gaps(snap), analyze_entry_predicate(snap),
    analyze_wrapper(snap), analyze_constants(snap, constants),
    analyze_dispatch(snap, constants)>>

-----------------------------------------------------------------------------
(***************************************************************************)
(* The provider's own state: the epoch and the keys already emitted.       *)
(***************************************************************************)

PayloadsOf(claims) == {c.payload : c \in claims}

\* The claim that gets to make a payload: one of the first pass that has it.
FirstClaim(passes, p) ==
  LET makers(k) == {c \in passes[k] : c.payload = p}
  IN  CHOOSE c \in makers(Min({k \in DOMAIN passes : makers(k) # {}})) : TRUE

\* The claims that the passes emit, in order, when keys were emitted before.
FreshClaims(passes, keys) ==
  {FirstClaim(passes, p) : p \in PayloadsOf(UNION Range(passes)) \ keys}

\* emit, for all the passes: a payload already emitted for the function is
\* dropped, every other fact goes to the sink, and its payload is remembered
\* only when the sink took it.  A refused fact leaves nothing behind, so the
\* next one with the same payload is offered again.
emit(passes, refused) ==
  LET fresh == FreshClaims([k \in DOMAIN passes |-> passes[k] \ refused], emitted)
  IN  /\ ledger' = ledger \cup {[claim |-> c, generation |-> epoch] : c \in fresh}
      /\ emitted' = emitted \cup PayloadsOf(fresh)

\* The processor has not started.
Idle == halted /\ steps = 0

\* What the classifiers say of the function, pass by pass.
Passes ==
  LET snap == snapshot_function(text)
  IN  analyze_one(snap, [b \in snap.blocks |-> analyze_constant_block(b)])

\* analyze_function of the one function; the sink refuses any MaxRefused facts.
analyze_function ==
  /\ Idle
  /\ \E passes \in {Passes} :
       \E refused \in UNION {kSubset(k, UNION Range(passes)) : k \in 0 .. MaxRefused} :
         /\ emit(passes, refused)
         /\ analysed' = (analysed \/ refused = {})
  /\ UNCHANGED <<text, epoch, processor>>

reset_keeping_keys ==
  /\ Idle /\ epoch < MaxEpoch
  /\ epoch' = epoch + 1 /\ analysed' = FALSE
  /\ UNCHANGED <<text, emitted, ledger, processor>>

\* reset(), whatever was analysed, and set_epoch() when the next epoch begins.
reset ==
  /\ Idle /\ epoch < MaxEpoch
  /\ emitted' = {} /\ epoch' = epoch + 1 /\ analysed' = FALSE
  /\ UNCHANGED <<text, ledger, processor>>

-----------------------------------------------------------------------------
(***************************************************************************)
(* The processor.  A write of four bytes or more clears the rest of the    *)
(* register, a narrower one keeps it, as on x86-64.                        *)
(***************************************************************************)
Modulus(w) == 2 ^ (w * UnitBits)
Signed(v, w) == IF v >= Modulus(w) \div 2 THEN v - Modulus(w) ELSE v

\* The value of a register or of a sign-extended immediate at width w.
OperandValue(op, w) ==
  IF op.type = "reg" THEN regs[op.v] % Modulus(w)
  ELSE IF op.w \in 1 .. w - 1 THEN Signed(op.v % Modulus(op.w), op.w) % Modulus(w)
  ELSE op.v % Modulus(w)

Written(r, v, w) ==
  [regs EXCEPT ![r] = IF w >= 4 THEN v % Modulus(w)
                      ELSE (@ - (@ % Modulus(w))) + (v % Modulus(w))]

\* The outcome of a condition for a subtraction lhs - rhs of width w.
Holds(cond, lhs, rhs, w) ==
  LET l == Signed(lhs, w)
      r == Signed(rhs, w)
      difference == (lhs - rhs) % Modulus(w)
      ones == Cardinality({b \in 0 .. UnitBits - 1 : (difference \div 2 ^ b) % 2 = 1})
  IN  CASE cond = "Zero" -> lhs = rhs
        [] cond = "NotZero" -> lhs # rhs
        [] cond = "Carry" -> lhs < rhs
        [] cond = "NotCarry" -> lhs >= rhs
        [] cond = "BelowOrEqual" -> lhs <= rhs
        [] cond = "Above" -> lhs > rhs
        [] cond = "Sign" -> Signed(difference, w) < 0
        [] cond = "NotSign" -> Signed(difference, w) >= 0
        [] cond = "Overflow" -> Signed(difference, w) # l - r
        [] cond = "NotOverflow" -> Signed(difference, w) = l - r
        [] cond = "Parity" -> ones % 2 = 0
        [] cond = "NotParity" -> ones % 2 = 1
        [] cond = "Less" -> l < r
        [] cond = "GreaterOrEqual" -> l >= r
        [] cond = "LessOrEqual" -> l <= r
        [] cond = "Greater" -> l > r

Computed(itype, a, b, w) ==
  CASE itype \in {"add", "lea"} -> a + b
    [] itype = "sub" -> a - b
    [] itype = "xor" -> BitXor(a, b)
    [] itype = "and" -> BitAnd(a, b)
    [] itype = "or" -> BitOr(a, b)
    [] itype = "shl" -> a * 2 ^ (b % (w * UnitBits))
    [] itype = "inc" -> a + 1
    [] itype = "dec" -> a - 1

UnknownFlags == {}

\* The straight-line stretch of a's basic block that ends at a.
Straight(a) == Max({l \in Leaders(text) : l <= a}) .. a

Facts(type) == {f.claim : f \in {g \in ledger : g.claim.payload.type = type}}

\* The claim applies here: the instructions supporting it are the ones just
\* executed, or control came to this stretch by a transfer that IDA knows.  A
\* claim about a get-PC gadget is about the gadget's call only.
Applies(c) ==
  \/ (c.support \cap DOMAIN text) \ {pc} \subseteq trail
  \/ known_entry /\ \A a \in c.support \cap DOMAIN text : text[a].itype # "call"

\* The dispatch edges that leave pc, its block having run from the support on.
EdgesTaken ==
  {c \in Facts("CfgCandidate") :
     c.payload.from = pc /\ (c.support \cap Straight(pc)) \ {pc} \subseteq trail}

\* The addresses of the comparison chain under a dispatch edge.
ChainOf(c) == UNION {Straight(a) : a \in {b \in c.support : text[b].itype = "jcc"}}

\* A return, or a jump or a call through a register that leaves the stretch.
ComputedTransfer(next) ==
  \/ text[pc].itype = "ret"
  \/ text[pc].op1.type = "reg" /\ (text[pc].itype = "jmp" \/ (text[pc].itype = "call" /\ next # pc + 1))

\* Where control goes: keeps the straight-line trail and the dispatch edges.
GoTo(next) ==
  /\ pc' = next
  /\ halted' = (next \notin DOMAIN text)
  /\ trail' = IF next = pc + 1 THEN trail \cup {pc}
              ELSE IF text[pc].itype = "call" /\ text[pc].op1.type = "near" THEN {pc}
              ELSE {}
  /\ known_entry' = IF ComputedTransfer(next) THEN FALSE ELSE known_entry \/ next # pc + 1
  /\ owed' = {o \in owed : pc # o.to}
             \cup {[to |-> c.payload.to, chain |-> ChainOf(c)] : c \in EdgesTaken}

\* A caller enters the function with any register contents, once the first
\* epoch's facts are all there.
Enter ==
  /\ Idle /\ analysed /\ epoch = 1
  /\ halted' = FALSE
  /\ regs' \in [Registers -> Unknowns]
  /\ UNCHANGED <<text, provider, pc, flags, stack, trail, known_entry, owed, steps>>

Fetch ==
  /\ ~halted /\ steps < MaxSteps
  /\ steps' = steps + 1
  /\ UNCHANGED <<text, provider>>

Op == text[pc]

Move ==
  /\ Op.itype \in {"mov", "lea"}
  /\ LET w == Op.op1.w
         values == CASE Op.itype = "lea" /\ Op.op2.type = "displ" ->
                          {Computed("lea", regs[Op.op1.v], Op.op2.v, w)}
                     [] Op.itype = "lea" /\ Op.op2.type = "mem" -> {Op.op2.v}
                     [] Op.itype = "mov" /\ Op.op2.type \in {"reg", "imm"} ->
                          {OperandValue(Op.op2, w)}
                     [] Op.itype = "mov" /\ Op.op2.type = "mem" ->
                          IF Op.op2.v \in DOMAIN rodata THEN {rodata[Op.op2.v]} ELSE Unknowns
                     [] Op.itype = "mov" /\ Op.op2.type = "top" ->
                          IF stack = <<>> THEN Unknowns ELSE {Head(stack)}
     IN  \E v \in values :
           regs' = IF Op.op1.type = "reg" THEN Written(Op.op1.v, v, w) ELSE regs
  /\ UNCHANGED <<flags, stack>>
  /\ GoTo(pc + 1)

Arithmetic ==
  /\ Op.itype \in {"inc", "dec", "imul"} \cup DOMAIN AluKind /\ Op.op1.type = "reg"
  /\ LET w == Op.op1.w
         values == IF Op.itype = "imul" THEN Unknowns
                   ELSE {Computed(Op.itype, OperandValue(Op.op1, w), OperandValue(Op.op2, w), w)}
     IN  \E v \in values : regs' = Written(Op.op1.v, v, w)
  /\ flags' = UnknownFlags
  /\ UNCHANGED stack
  /\ GoTo(pc + 1)

\* A test is a comparison of the conjunction with zero.
Compare ==
  /\ Op.itype \in {"cmp", "test"}
  /\ LET w == IF Op.op1.type = "reg" THEN Op.op1.w ELSE Op.op2.w
         lhs == OperandValue(Op.op1, w)
         rhs == OperandValue(Op.op2, w)
     IN  flags' = IF Op.itype = "cmp" THEN {<<lhs, rhs, w>>} ELSE {<<BitAnd(lhs, rhs), 0, w>>}
  /\ UNCHANGED <<regs, stack>>
  /\ GoTo(pc + 1)

StackOperation ==
  /\ Op.itype \in {"push", "pop"} \/ Op.op1.type \in {"top", "sp"}
  /\ \/ /\ Op.itype = "push"
        /\ stack' = <<OperandValue(Op.op1, MaxWidth)>> \o stack
        /\ UNCHANGED <<regs, flags>>
     \/ /\ Op.itype = "pop"
        /\ \E v \in IF stack = <<>> THEN Unknowns ELSE {Head(stack)} :
             regs' = Written(Op.op1.v, v, Op.op1.w)
        /\ stack' = IF stack = <<>> THEN stack ELSE Tail(stack)
        /\ UNCHANGED flags
     \/ /\ Op.itype = "add" /\ Op.op1.type = "top"
        /\ stack' = IF stack = <<>> THEN stack
                    ELSE [stack EXCEPT ![1] = (@ + OperandValue(Op.op2, MaxWidth)) % WordSize]
        /\ flags' = UnknownFlags
        /\ UNCHANGED regs
     \/ /\ Op.itype = "add" /\ Op.op1.type = "sp"
        /\ stack' = SubSeq(stack, 1 + OperandValue(Op.op2, MaxWidth) \div MaxWidth, Len(stack))
        /\ flags' = UnknownFlags
        /\ UNCHANGED regs
  /\ GoTo(pc + 1)

Nop ==
  /\ Op.itype = "nop"
  /\ UNCHANGED <<regs, flags, stack>>
  /\ GoTo(pc + 1)

\* LOOP and JCXZ predicates, and flags no comparison set, may go either way.
ConditionalJump ==
  /\ Op.itype \in {"jcc", "loop"}
  /\ \E taken \in IF flags = UnknownFlags \/ Op.itype = "loop" THEN BOOLEAN
                  ELSE {Holds(Op.cond, f[1], f[2], f[3]) : f \in flags} :
       GoTo(IF taken THEN Op.op1.v ELSE pc + 1)
  /\ UNCHANGED <<regs, flags, stack>>

Target == IF Op.op1.type = "near" THEN Op.op1.v ELSE regs[Op.op1.v] % Modulus(Op.op1.w)

Jump ==
  /\ Op.itype = "jmp"
  /\ UNCHANGED <<regs, flags, stack>>
  /\ GoTo(Target)

\* A call out of the function returns with every register and flag unknown.
Call ==
  /\ Op.itype = "call"
  /\ \/ /\ Target = Callee
        /\ regs' \in [Registers -> Unknowns]
        /\ flags' = UnknownFlags
        /\ UNCHANGED stack
        /\ GoTo(pc + 1)
     \/ /\ Target # Callee
        /\ stack' = <<pc + 1>> \o stack
        /\ UNCHANGED <<regs, flags>>
        /\ GoTo(Target)

\* A return with none of this function's words on the stack leaves it.
Return ==
  /\ Op.itype = "ret"
  /\ stack' = IF stack = <<>> THEN stack ELSE Tail(stack)
  /\ UNCHANGED <<regs, flags>>
  /\ GoTo(IF stack = <<>> THEN kBadAddress ELSE Head(stack))

Execute ==
  /\ Fetch
  /\ \/ Move \/ Arithmetic \/ Compare \/ StackOperation \/ Nop
     \/ ConditionalJump \/ Jump \/ Call \/ Return

-----------------------------------------------------------------------------
Init ==
  /\ text \in Programs
  /\ epoch = 1 /\ emitted = {} /\ ledger = {} /\ analysed = FALSE
  /\ pc = function_start /\ regs = [r \in Registers |-> 0] /\ flags = UnknownFlags
  /\ stack = <<>> /\ halted = TRUE /\ trail = {} /\ known_entry = TRUE
  /\ owed = {} /\ steps = 0

Next ==
  \/ analyze_function
  \/ reset
  \/ Enter
  \/ Execute

Spec == Init /\ [][Next]_vars

-----------------------------------------------------------------------------
\* Once an analysis met no refusal, the ledger holds every payload of the
\* function for this epoch and holds it once, whatever an earlier epoch had
\* emitted and whatever facts the sink had refused before (emit and reset).
EpochIsComplete ==
  Idle =>
    /\ analysed => PayloadsOf({f.claim : f \in {g \in ledger : g.generation = epoch}})
                     = PayloadsOf(UNION Range(Passes))
    /\ \A f, g \in ledger :
         f.generation = g.generation /\ f.claim.payload = g.claim.payload => f = g

\* A unique code target (constant chains, push/return pairs, get-PC gadgets)
\* is where control goes, unless a computed transfer IDA knows nothing of
\* entered between the supporting instructions and the transfer; and control
\* leaves a wrapper by a call or a jump only to the target its trait names
\* (analyze_wrapper).
ProvedTargetsAreTaken ==
  [][steps' # steps =>
       /\ \A c \in Facts("CodeTarget") :
             (pc = c.payload.from /\ Applies(c)) => pc' = c.payload.target
       /\ \A c \in Facts("FunctionTrait") :
             (c.payload.trait = "WrapperTarget" /\ Op.itype \in {"call", "jmp"}) =>
                Target = c.payload.value[1]]_vars

\* A register value (transfer registers and get-PC registers) is in the
\* register before the instruction, under the same condition.
ProvedValuesHold ==
  ~halted => \A c \in Facts("RegisterValue") :
     (pc = c.payload.instruction /\ Applies(c)) =>
        regs[c.payload.reg] % Modulus(c.payload.width) = c.payload.value

\* A branch decided by constants (analyze_entry_predicate) is never followed
\* to the successor proven unreachable; and bytes reported as skipped data
\* (analyze_jump_gaps) are entered by no direct flow, only by a return or a
\* computed transfer.
UnreachableIsNotReached ==
  [][steps' # steps =>
       /\ \A c \in Facts("BranchReachability") :
             (pc = c.payload.branch /\ Applies(c)) =>
                (pc' = c.payload.successor) = (c.payload.state = "Reached")
       /\ \A c \in Facts("CodeRegion") :
             LET gap == c.payload.start .. c.payload.stop - 1
             IN  (pc \notin gap /\ pc' \in gap) => ComputedTransfer(pc')]_vars

\* A dispatch edge (analyze_dispatch): when a predecessor block that fixes the
\* state register runs, the comparison chain leads to that edge's target.
DispatchEdgesAreFollowed ==
  \A o \in owed : pc = o.to \/ pc \in o.chain

=============================================================================
