------------------------- MODULE DeobfAnalysisCore -------------------------
(***************************************************************************)
(* The IDA-free classifiers of deobf_analysis_core.cpp as operators on     *)
(* decoded instructions: the local constant propagation, the flag          *)
(* evaluation, the get-PC gadget, entry-predicate, wrapper, constant-block *)
(* and dispatcher classifiers.                                             *)
(*                                                                         *)
(* A byte has UnitBits bits (eight in the code), a word MaxWidth bytes, and *)
(* all arithmetic is modulo the word.  An optional value is a set with at  *)
(* most one element; a StateMap is a function on the registers it holds.   *)
(* Names, descriptions and statistics are left out.                        *)
(***************************************************************************)
EXTENDS Integers, Sequences, FiniteSets, SequencesExt

CONSTANTS UnitBits,   \* the bits of a byte
          limits      \* ClassifierLimits, already bounded

ASSUME UnitBitsAssumption == UnitBits \in Nat \ {0}

MaxWidth == 8                              \* bytes in a uint64_t
WordSize == 2 ^ (MaxWidth * UnitBits)
kBadAddress == WordSize - 1
kNoRegister == -1

\* A word as the set of its one bits, and back.
Bits(v) == {b \in 0 .. MaxWidth * UnitBits - 1 : (v \div 2 ^ b) % 2 = 1}
Word(bits) == MapThenSumSet(LAMBDA b : 2 ^ b, bits)

BitAnd(v, w) == Word(Bits(v) \cap Bits(w))
BitOr(v, w) == Word(Bits(v) \cup Bits(w))
BitXor(v, w) == Word((Bits(v) \ Bits(w)) \cup (Bits(w) \ Bits(v)))

AsSigned(v) == IF v >= WordSize \div 2 THEN v - WordSize ELSE v

width_mask(w) == IF w = 0 \/ w > MaxWidth THEN 0 ELSE 2 ^ (w * UnitBits) - 1

\* Masking with width_mask(w).
truncate_width(v, w) == v % (width_mask(w) + 1)

add_signed_address(base, delta) == {base + delta} \cap (0 .. WordSize - 1)

add_delta(v, delta) ==
  {v + delta} \cap ((0 - WordSize \div 2) .. (WordSize \div 2 - 1))

normalize_support(s) == s \ {kBadAddress}

end(insn) == IF insn.address > WordSize - 1 - insn.size \/ insn.address = kBadAddress
             THEN kBadAddress ELSE insn.address + insn.size

-----------------------------------------------------------------------------
(***************************************************************************)
(* Constant propagation.                                                   *)
(***************************************************************************)
NoConstants == [r \in {} |-> 0]

erase_destination(state, insn) ==
  Restrict(state, DOMAIN state \ {insn.destination_register})

valid_integer_instruction(insn) ==
  insn.destination_register # kNoRegister /\ insn.value_width \in 1 .. MaxWidth

\* state[insn.destination_register] = c, with insn's address as support.
Assign(state, insn, c) ==
  (insn.destination_register :>
     [c EXCEPT !.support = normalize_support(@ \cup {insn.address})]) @@ state

assign_constant(state, insn, v, support) ==
  IF valid_integer_instruction(insn)
  THEN Assign(state, insn, [value |-> truncate_width(v, insn.value_width),
                            width |-> insn.value_width, steps |-> 1,
                            support |-> support])
  ELSE erase_destination(state, insn)

Transformations == {"AddImmediate", "SubImmediate", "XorImmediate", "AndImmediate",
                    "OrImmediate", "ShiftLeftImmediate", "ReplaceHigh16"}

\* What one transformation makes of a known value; none when it is not defined.
Transformed(kind, v, imm, w) ==
  LET values == CASE kind = "AddImmediate" -> {v + imm}
                  [] kind = "SubImmediate" -> {v - imm}
                  [] kind = "XorImmediate" -> {BitXor(v, imm)}
                  [] kind = "AndImmediate" -> {BitAnd(v, imm)}
                  [] kind = "OrImmediate" -> {BitOr(v, imm)}
                  [] kind = "ShiftLeftImmediate" ->
                       IF imm >= w * UnitBits THEN {} ELSE {v * 2 ^ imm}
                  [] kind = "ReplaceHigh16" ->
                       IF w < 4 THEN {}
                       ELSE {truncate_width(v, 2) + truncate_width(imm, 2) * 2 ^ (2 * UnitBits)}
  IN  {truncate_width(x, w) : x \in values}

update_constants(state, insn) ==
  LET from == IF insn.kind # "CopyRegister" /\ insn.source_register = kNoRegister
              THEN insn.destination_register ELSE insn.source_register
      known == from \in DOMAIN state /\ valid_integer_instruction(insn)
  IN  CASE insn.kind \in {"LoadImmediate", "LoadAddress"} ->
             assign_constant(state, insn, insn.immediate, {})
        [] insn.kind = "LoadReadOnlyConstant" ->
             assign_constant(state, insn, insn.immediate, {insn.memory_address})
        [] insn.kind = "CopyRegister" ->
             IF known
             THEN Assign(state, insn,
                    [state[from] EXCEPT !.width = insn.value_width,
                                        !.value = truncate_width(@, insn.value_width),
                                        !.steps = @ + 1])
             ELSE erase_destination(state, insn)
        [] insn.kind \in Transformations ->
             LET values == IF known /\ state[from].width = insn.value_width
                           THEN Transformed(insn.kind, state[from].value,
                                            insn.immediate, insn.value_width)
                           ELSE {}
             IN  IF values = {} THEN erase_destination(state, insn)
                 ELSE Assign(state, insn,
                        [state[from] EXCEPT !.value = CHOOSE v \in values : TRUE,
                                            !.steps = @ + 1])
        [] insn.kind \in {"DirectCall", "IndirectCall"} -> NoConstants
        [] insn.kind = "Other" /\ insn.destination_register # kNoRegister -> NoConstants
        [] OTHER -> state

-----------------------------------------------------------------------------
(***************************************************************************)
(* Flags and conditions.                                                   *)
(***************************************************************************)
even_parity(v) == Cardinality({i \in 0 .. UnitBits - 1 : (v \div 2 ^ i) % 2 = 1}) % 2 = 0

SignBit(v, w) == (v \div 2 ^ (w * UnitBits - 1)) % 2

compare_flags_loose_overflow(l, r, w) ==
  IF width_mask(w) = 0 THEN {}
  ELSE LET lhs == truncate_width(l, w)
           rhs == truncate_width(r, w)
           result == truncate_width(lhs - rhs, w)
       IN  {[carry |-> lhs < rhs, zero |-> result = 0, sign |-> SignBit(result, w) = 1,
             overflow |-> SignBit(lhs, w) # SignBit(rhs, w), parity |-> even_parity(result)]}

compare_flags(l, r, w) ==
  IF width_mask(w) = 0 THEN {}
  ELSE LET lhs == truncate_width(l, w)
           rhs == truncate_width(r, w)
           result == truncate_width(lhs - rhs, w)
       IN  {[carry |-> lhs < rhs, zero |-> result = 0,
             sign |-> SignBit(result, w) = 1,
             overflow |-> /\ SignBit(lhs, w) # SignBit(rhs, w)
                          /\ SignBit(lhs, w) # SignBit(result, w),
             parity |-> even_parity(result)]}

test_flags(l, r, w) ==
  IF width_mask(w) = 0 THEN {}
  ELSE LET result == truncate_width(BitAnd(l, r), w)
       IN  {[carry |-> FALSE, zero |-> result = 0,
             sign |-> SignBit(result, w) = 1, overflow |-> FALSE,
             parity |-> even_parity(result)]}

evaluate_condition(condition, f) ==
  CASE condition = "Overflow" -> f.overflow
    [] condition = "NotOverflow" -> ~f.overflow
    [] condition = "Carry" -> f.carry
    [] condition = "NotCarry" -> ~f.carry
    [] condition = "Zero" -> f.zero
    [] condition = "NotZero" -> ~f.zero
    [] condition = "BelowOrEqual" -> f.carry \/ f.zero
    [] condition = "Above" -> ~f.carry /\ ~f.zero
    [] condition = "Sign" -> f.sign
    [] condition = "NotSign" -> ~f.sign
    [] condition = "Parity" -> f.parity
    [] condition = "NotParity" -> ~f.parity
    [] condition = "Less" -> f.sign # f.overflow
    [] condition = "GreaterOrEqual" -> f.sign = f.overflow
    [] condition = "LessOrEqual" -> f.zero \/ f.sign # f.overflow
    [] condition = "Greater" -> ~f.zero /\ f.sign = f.overflow

-----------------------------------------------------------------------------
(***************************************************************************)
(* The get-PC gadget: a call whose target consumes, reads or adjusts the   *)
(* return address it pushed.                                               *)
(***************************************************************************)
Calls == {"DirectCall", "IndirectCall"}
Transfers == Calls \cup {"DirectJump", "IndirectJump", "ConditionalBranch"}

\* The scan state after the gadget's first instruction; none if no gadget.
GadgetEntry(entry) ==
  LET start == [status |-> "scan", mode |-> "None", expected |-> end(entry),
                pc_register |-> kNoRegister, width |-> 0, known |-> FALSE,
                delta |-> 0, adjusted |-> FALSE, pushed |-> FALSE, pushed_delta |-> 0,
                return_instruction |-> kBadAddress, support |-> {entry.address}]
      reads(mode) == [start EXCEPT !.mode = mode, !.known = TRUE,
                                   !.pc_register = entry.destination_register,
                                   !.width = entry.value_width]
      starts == CASE entry.kind = "PopRegister" /\ entry.destination_register # kNoRegister ->
                       {reads("PopReturnAddress")}
                  [] entry.kind = "ReadStackTop" /\ entry.destination_register # kNoRegister ->
                       {reads("ReadReturnAddress")}
                  [] entry.kind = "AddStackTopImmediate" ->
                       {[start EXCEPT !.mode = "AdjustReturnAddress", !.adjusted = TRUE,
                                      !.delta = AsSigned(entry.immediate)]}
                  [] entry.kind = "AdjustStackPointerImmediate" /\ AsSigned(entry.immediate) > 0 ->
                       {[start EXCEPT !.mode = "DiscardReturnAddress"]}
                  [] OTHER -> {}
  IN  {g \in starts : g.expected # kBadAddress}

\* A straight-line instruction of the gadget that is no transfer and leaves
\* the return-stack top alone, except for a push of the tracked register.
GadgetTrack(g, insn) ==
  LET same_width == g.width = 0 \/ insn.value_width = 0 \/ insn.value_width = g.width
      touches == g.known /\ insn.destination_register = g.pc_register
      known == g.known /\ (touches => /\ same_width
                                      /\ insn.kind \in {"AddImmediate", "SubImmediate"})
      value == AsSigned(insn.immediate)
      adjustment == IF ~touches \/ ~known THEN 0
                    ELSE IF insn.kind = "AddImmediate" THEN value ELSE 0 - value
      deltas == IF touches /\ known /\ insn.kind = "SubImmediate" /\ value = 0 - WordSize \div 2
                THEN {} ELSE add_delta(g.delta, adjustment)
      push == insn.kind = "PushRegister"
      tracked_push == push /\ known /\ insn.source_register = g.pc_register /\ same_width
      delta == CHOOSE d \in deltas : TRUE
  IN  IF deltas = {} \/ (push /\ ~tracked_push) THEN [g EXCEPT !.status = "none"]
      ELSE [g EXCEPT !.known = known, !.delta = delta,
                     !.pushed = @ \/ tracked_push,
                     !.pushed_delta = IF tracked_push THEN delta ELSE @]

GadgetStep(g, insn) ==
  LET next == [g EXCEPT !.expected = end(insn), !.support = @ \cup {insn.address}]
  IN  CASE g.status # "scan" -> g
        [] \/ insn.address # g.expected \/ insn.alternate_predecessor
           \/ end(insn) = kBadAddress -> [g EXCEPT !.status = "none"]
        [] insn.kind = "Return" ->
             [next EXCEPT !.status = "return", !.return_instruction = insn.address]
        [] insn.kind \in Transfers \cup
             {"PushImmediate", "PopRegister", "AddStackTopImmediate",
              "AdjustStackPointerImmediate"} -> [g EXCEPT !.status = "none"]
        [] OTHER -> GadgetTrack(next, insn)

classify_get_pc_gadget(call, gadget, other_callers) ==
  LET pushed_return == end(call)
      refused == \/ call.kind # "DirectCall" \/ call.size = 0 \/ call.target = kBadAddress
                 \/ gadget = <<>> \/ other_callers \/ limits.gadget_depth = 0
                 \/ pushed_return = kBadAddress \/ call.target = pushed_return
                 \/ /\ call.target > pushed_return
                    /\ call.target - pushed_return > limits.maximum_gap
      count == Min({Len(gadget), limits.gadget_depth + 1})
      scanned == IF refused \/ Head(gadget).address # call.target THEN {}
                 ELSE {FoldLeft(GadgetStep, g, SubSeq(gadget, 2, count))
                         : g \in GadgetEntry(Head(gadget))}
      returns(g) == g.status = "return"
      resumed(g) == IF returns(g) /\ (g.adjusted \/ g.pushed)
                    THEN add_signed_address(pushed_return,
                           IF g.pushed THEN g.pushed_delta ELSE g.delta)
                    ELSE {}
      at_return(g) == IF returns(g) /\ g.known
                      THEN add_signed_address(pushed_return, g.delta) ELSE {}
      accepted(g) ==
        \/ /\ returns(g)
           /\ (g.adjusted \/ g.pushed) => resumed(g) # {}
           /\ g.known => at_return(g) # {}
           /\ ~(g.mode = "ReadReturnAddress" /\ ~g.pushed)
        \/ g.status = "scan" /\ g.mode = "DiscardReturnAddress"
  IN  {[mode |-> g.mode, pc_register |-> g.pc_register,
        return_instruction |-> g.return_instruction,
        resumed_at |-> resumed(g), register_value_at_return |-> at_return(g),
        support |-> normalize_support(g.support \cup {call.address})]
         : g \in {h \in scanned : accepted(h)}}

\* A forward jump over loaded bytes nothing refers to.
classify_jump_gap(branch, loaded, unreferenced) ==
  IF /\ branch.kind = "DirectJump" /\ branch.size # 0 /\ branch.target # kBadAddress
     /\ loaded /\ unreferenced /\ end(branch) # kBadAddress /\ branch.target > end(branch)
     /\ branch.target - end(branch) <= limits.maximum_gap
  THEN {[branch |-> branch.address, start |-> end(branch), end |-> branch.target]}
  ELSE {}

-----------------------------------------------------------------------------
(***************************************************************************)
(* The entry predicate: a conditional branch of the entry block decided by *)
(* the constants above it, or taken on flags no one in the function set.   *)
(***************************************************************************)
EntryPredicateStep(function_entry, p, insn) ==
  LET breaks == \/ insn.address < function_entry
                \/ insn.address - function_entry > limits.entry_predicate_window
                \/ ~p.first /\ (insn.address # p.previous_end \/ insn.alternate_predecessor)
                \/ end(insn) = kBadAddress
      branch == insn.kind = "ConditionalBranch" /\ insn.condition # "Unknown"
                /\ insn.target # kBadAddress
      found(knowledge, taken, support) ==
        [p EXCEPT !.done = TRUE,
           !.result = {[branch |-> insn.address, target |-> insn.target,
                        fallthrough |-> end(insn), knowledge |-> knowledge,
                        taken |-> taken, support |-> normalize_support(support)]}]
      known == /\ insn.destination_register \in DOMAIN p.constants
               /\ p.constants[insn.destination_register].width = insn.value_width
      constant == p.constants[insn.destination_register]
      flags == IF ~known THEN {}
               ELSE IF insn.flag_effect = "KnownTest"
               THEN test_flags(constant.value, insn.immediate, insn.value_width)
               ELSE IF insn.register_is_left_operand
               THEN compare_flags(constant.value, insn.immediate, insn.value_width)
               ELSE compare_flags(insn.immediate, constant.value, insn.value_width)
      next == [p EXCEPT !.first = FALSE, !.previous_end = end(insn),
                        !.constants = update_constants(@, insn)]
  IN  CASE p.done -> p
        [] breaks -> [p EXCEPT !.done = TRUE]
        [] branch /\ p.flags # {} ->
             found("ConstantOutcome", {evaluate_condition(insn.condition, f) : f \in p.flags},
                   p.support \cup {insn.address})
        [] branch /\ p.flags = {} /\ ~p.saw_flag_writer ->
             found("EntryFlagsUnspecified", {}, {function_entry, insn.address})
        [] branch /\ p.flags = {} /\ p.saw_flag_writer -> [p EXCEPT !.done = TRUE]
        [] insn.kind \notin Calls /\ insn.flag_effect \in {"KnownCompare", "KnownTest"} ->
             [next EXCEPT !.saw_flag_writer = TRUE, !.flags = flags,
                          !.support = IF flags = {} THEN @
                                      ELSE constant.support \cup {insn.address}]
        [] insn.kind \in Calls \/ insn.flag_effect = "UnknownWrite" ->
             [next EXCEPT !.saw_flag_writer = TRUE, !.flags = {}, !.support = {}]
        [] OTHER -> next

classify_entry_predicate(function_entry, entry_block) ==
  LET step(p, insn) == EntryPredicateStep(function_entry, p, insn)
      start == [done |-> FALSE, result |-> {}, first |-> TRUE,
                previous_end |-> function_entry, constants |-> NoConstants,
                flags |-> {}, saw_flag_writer |-> FALSE, support |-> {}]
  IN  FoldLeft(step, start, entry_block).result

-----------------------------------------------------------------------------
(***************************************************************************)
(* A wrapper: a small function with one direct transfer.                   *)
(***************************************************************************)
\* An instruction no wrapper has.
Disqualifies(insn) ==
  insn.writes_global_memory \/ insn.kind \in {"IndirectCall", "IndirectJump", "ConditionalBranch"}

classify_wrapper(function) ==
  LET insns == function.instructions
      Count(kind) == Cardinality({i \in DOMAIN insns : insns[i].kind = kind})
      direct == {i \in DOMAIN insns : insns[i].kind \in {"DirectCall", "DirectJump"}}
      tail_call == Count("DirectCall") = 0 /\ Count("DirectJump") = 1 /\ Count("Return") = 0
      one_call == /\ Count("DirectCall") = 1 /\ Count("DirectJump") = 0
                  /\ \/ Count("Return") = 0 /\ ~function.direct_callee_returns
                     \/ Count("Return") = 1
      shape == /\ ~function.already_special /\ ~function.has_tail_chunks
               /\ function.scan_complete
               /\ Len(insns) \in 1 .. limits.wrapper_maximum_instructions
               /\ \/ limits.wrapper_maximum_callers = 0
                  \/ function.caller_count <= limits.wrapper_maximum_callers
               /\ \A i \in DOMAIN insns : ~Disqualifies(insns[i])
               /\ tail_call \/ one_call
  IN  IF ~shape THEN {}
      ELSE {w \in {[target |-> insns[Max(direct)].target, tail_call |-> tail_call,
                    thunk |-> \A i \in DOMAIN insns :
                                insns[i].kind \in {"DirectCall", "DirectJump", "Return"}
                                \/ insns[i].plumbing]} : w.target # kBadAddress}

-----------------------------------------------------------------------------
(***************************************************************************)
(* Constant blocks: indirect transfers and push/return pairs whose target  *)
(* the block's own instructions fix.                                       *)
(***************************************************************************)
ConstantTarget(insn, kind, reg, c) ==
  [instruction |-> insn.address, target |-> c.value, kind |-> kind, register_id |-> reg,
   value_width |-> c.width, support |-> normalize_support(c.support \cup {insn.address})]

ConstantBlockStep(b, insn) ==
  LET joined == insn.address # b.expected \/ insn.alternate_predecessor
      state == IF joined THEN NoConstants ELSE b.state
      pending == IF joined THEN {} ELSE b.pending
      Matching(reg) == {[register |-> r, constant |-> state[r]] :
                          r \in {q \in {reg} \cap DOMAIN state :
                                   insn.value_width = 0 \/ state[q].width = insn.value_width}}
      indirect == IF insn.kind \in {"IndirectCall", "IndirectJump"}
                  THEN Matching(IF insn.source_register # kNoRegister
                                THEN insn.source_register ELSE insn.destination_register)
                  ELSE {}
      immediate == [value |-> truncate_width(insn.immediate, insn.value_width),
                    width |-> insn.value_width, steps |-> 1, support |-> {insn.address}]
      long_enough(p) == p.constant.steps >= limits.minimum_constant_steps
      returned == IF insn.kind = "Return"
                  THEN {p \in pending : p.register = kNoRegister \/ long_enough(p)} ELSE {}
  IN  IF b.stopped THEN b
      ELSE IF end(insn) = kBadAddress
      THEN [b EXCEPT !.stopped = TRUE, !.state = state, !.pending = pending]
      ELSE [stopped |-> FALSE, expected |-> end(insn),
            state |-> update_constants(state, insn),
            pending |-> CASE insn.kind = "PushImmediate" ->
                               {[register |-> kNoRegister, constant |-> immediate]}
                          [] insn.kind = "PushRegister" -> Matching(insn.source_register)
                          [] insn.kind = "Nop" -> pending
                          [] OTHER -> {},
            targets |-> b.targets
              \cup {ConstantTarget(insn, insn.kind, p.register, p.constant)
                      : p \in {q \in indirect : long_enough(q)}}
              \cup {ConstantTarget(insn, "PushReturn", p.register, p.constant)
                      : p \in returned}]

\* final_assignments is the state left at the end of the block.
analyze_constant_block(block) ==
  LET start == [stopped |-> FALSE, expected |-> block.start, state |-> NoConstants,
                pending |-> {}, targets |-> {}]
      last == FoldLeft(ConstantBlockStep, start, block.instructions)
  IN  [targets |-> last.targets, final_assignments |-> last.state]

-----------------------------------------------------------------------------
(***************************************************************************)
(* Dispatchers: chains of compare-and-branch blocks on one state register. *)
(***************************************************************************)
writes_only_by_load(insn) == insn.kind \in {"LoadImmediate", "LoadAddress", "CopyRegister"}

writes_destination_value(insn) ==
  /\ insn.destination_register # kNoRegister
  /\ insn.kind \in Transformations \cup
       {"PopRegister", "ReadStackTop", "LoadImmediate", "LoadAddress",
        "LoadReadOnlyConstant", "CopyRegister", "Other"}

parse_dispatch_node(block) ==
  LET insns == block.instructions
      n == Len(insns)
      branch == insns[n]
      candidates == {i \in 1 .. n - 1 :
                       /\ insns[i].kind = "CompareImmediate"
                       /\ \A j \in i + 1 .. n - 1 :
                            /\ insns[j].kind # "CompareImmediate"
                            /\ insns[j].flag_effect # "UnknownWrite"}
      usable(i) == /\ insns[i].destination_register # kNoRegister
                   /\ insns[i].register_is_left_operand
                   /\ insns[i].value_width \in 1 .. MaxWidth
                   /\ \A j \in (1 .. n - 1) \ {i} :
                        ~(/\ insns[j].destination_register = insns[i].destination_register
                          /\ writes_destination_value(insns[j]))
      equal == branch.condition = "Zero"
      node(i) == [block |-> block.start, site |-> branch.address,
                  reg |-> insns[i].destination_register, width |-> insns[i].value_width,
                  selector |-> truncate_width(insns[i].immediate, insns[i].value_width),
                  case_target |-> IF equal THEN branch.target ELSE end(branch),
                  next |-> IF equal THEN end(branch) ELSE branch.target]
  IN  IF /\ n >= 2 /\ branch.kind = "ConditionalBranch" /\ branch.target # kBadAddress
         /\ branch.condition \in {"Zero", "NotZero"} /\ end(branch) # kBadAddress
         /\ {branch.target, end(branch)} \subseteq block.successors
      THEN {node(i) : i \in {j \in candidates : usable(j)}}
      ELSE {}

\* The chain of compatible nodes from start, as the bounded walk collects it:
\* it stops where no node is, at a block it has visited, and at a node for
\* another register or width.
ChainFrom(nodes, start) ==
  LET step(walk, k) ==
        LET here == {n \in nodes : n.block = walk.cursor}
            node == CHOOSE n \in here : TRUE
            walked == walk.visited \cup {walk.cursor}
        IN  IF here = {} \/ walk.cursor \in walk.visited THEN walk
            ELSE IF /\ walk.chain # <<>>
                    /\ node.reg # walk.chain[1].reg \/ node.width # walk.chain[1].width
            THEN [walk EXCEPT !.visited = walked]
            ELSE [chain |-> Append(walk.chain, node), cursor |-> node.next, visited |-> walked]
  IN  FoldLeft(step, [chain |-> <<>>, cursor |-> start, visited |-> {}],
               [k \in 1 .. limits.maximum_dispatch_cases |-> k])

selector_entropy(chain) ==
  LET Ones(n) == Cardinality({b \in 0 .. n.width * UnitBits - 1 : (n.selector \div 2 ^ b) % 2 = 1})
      total == FoldLeft(LAMBDA sum, n : sum + n.width * UnitBits, 0, chain)
  IN  (FoldLeft(LAMBDA sum, n : sum + Ones(n), 0, chain) * 100) \div total

find_dispatch_candidates(blocks) ==
  LET nodes == UNION {parse_dispatch_node(b) : b \in blocks}
      continued == {n.next : n \in {m \in nodes :
                      \E k \in nodes : k.block = m.next /\ k.reg = m.reg /\ k.width = m.width}}
      heads == {n.block : n \in nodes} \ continued
      starts == IF heads = {} THEN {Min({n.block : n \in nodes})} ELSE heads
      Consistent(chain) == \A m, n \in ToSet(chain) :
                             m.selector = n.selector => m.case_target = n.case_target
      candidate(start, walk) ==
        [entry_block |-> start, site |-> walk.chain[1].site,
         state_register |-> walk.chain[1].reg, state_width |-> walk.chain[1].width,
         selector_one_bit_percent |-> selector_entropy(walk.chain),
         cases |-> {[selector |-> n.selector, target |-> n.case_target] : n \in ToSet(walk.chain)},
         comparison_sites |-> {n.site : n \in ToSet(walk.chain)},
         default_target |-> IF walk.cursor \in walk.visited THEN kBadAddress ELSE walk.cursor,
         loop_backed |-> \E b \in blocks : b.start \notin walk.visited /\ start \in b.successors]
  IN  IF \/ nodes = {} \/ limits.minimum_dispatch_cases = 0
         \/ limits.maximum_dispatch_cases < limits.minimum_dispatch_cases
      THEN {}
      ELSE {c \in UNION {{candidate(s, w) : w \in {v \in {ChainFrom(nodes, s)} :
                           /\ Len(v.chain) >= limits.minimum_dispatch_cases
                           /\ Consistent(v.chain)}} : s \in starts} :
              Cardinality(c.cases) >= limits.minimum_dispatch_cases}
=============================================================================
