-------------------------- MODULE MCDeobfAnalysis --------------------------
(***************************************************************************)
(* Instances of DeobfAnalysis for TLC.  Each shape is a family of          *)
(* functions: a fixed layout with a menu of instructions for every slot.   *)
(***************************************************************************)
EXTENDS DeobfAnalysis

MCUnitBits == 2
MClimits == [gadget_depth |-> 4, maximum_gap |-> 4, entry_predicate_window |-> 8,
             wrapper_maximum_instructions |-> 4, wrapper_maximum_callers |-> 2,
             minimum_constant_steps |-> 2,
             minimum_dispatch_cases |-> 2, maximum_dispatch_cases |-> 4]
MCRegisters == {0, 1}
MCUnknowns == {0, 7}
MCCallee == 40
MCrodata == [a \in {50} |-> 4]

Reg(r, w) == Operand("reg", r, w)
Imm(v, w) == Operand("imm", v, w)
Near(t) == Operand("near", t, 0)
Mem(a) == Operand("mem", a, 8)
StackTop == Operand("top", 0, 8)
StackPointer == Operand("sp", 0, 8)

nop == Insn("nop", Void, Void)
ret == Insn("ret", Void, Void)
call(t) == Insn("call", Near(t), Void)
jmp(t) == Insn("jmp", Near(t), Void)
push(op) == Insn("push", op, Void)
pop(r) == Insn("pop", Reg(r, 8), Void)

\* The function laid out from address 0.
Layout(s) == [a \in 0 .. Len(s) - 1 |-> s[a + 1]]

\* A constant chain of up to three steps into an indirect transfer.
Loads == {Insn("mov", Reg(0, 8), Imm(5, 8)), Insn("mov", Reg(0, 4), Imm(3, 1)),
          Insn("mov", Reg(0, 8), Imm(3, 1)), Insn("mov", Reg(0, 8), Mem(50)),
          Insn("lea", Reg(0, 8), Mem(4)), Insn("xor", Reg(0, 8), Reg(0, 8))}
ChainSteps ==
  {Insn(o, Reg(0, 8), Imm(2, 8)) : o \in {"add", "sub", "xor", "and", "or", "shl"}}
  \cup {Insn("add", Reg(0, 4), Imm(5, 4)), Insn("add", Reg(0, 8), Imm(3, 1)),
        Insn("shl", Reg(0, 8), Imm(16, 1)), Insn("dec", Reg(0, 8), Void),
        Insn("mov", Reg(1, 8), Reg(0, 8)), Insn("lea", Reg(0, 8), Operand("displ", 1, 8)), Insn("lea", Reg(0, 8), Operand("displ", 0, 8)),
        Insn("imul", Reg(0, 8), Reg(1, 8)), Insn("mov", Mem(60), Reg(0, 8)),
        nop, call(40), Jcc("Zero", 2)}
LastSteps == {Insn("add", Reg(0, 8), Imm(2, 8)), Insn("add", Reg(0, 4), Imm(5, 4)),
              Insn("mov", Reg(1, 8), Reg(0, 8)), nop, call(40)}
IndirectTransfers ==
  {<<Insn("jmp", Reg(0, 8), Void), nop>>, <<Insn("jmp", Reg(1, 8), Void), nop>>,
   <<Insn("call", Reg(0, 8), Void), ret>>, <<push(Reg(0, 8)), ret>>,
   <<push(Imm(6, 1)), ret>>, <<push(Reg(1, 8)), ret>>}
ChainPrograms ==
  {Layout(<<l, x, y>> \o t \o <<z, ret>>) :
     l \in Loads, x \in ChainSteps, y \in LastSteps, z \in {nop, jmp(1), call(2)},
     t \in IndirectTransfers}

\* Every comparison of two-bit values under every condition.
Conditions == {"Overflow", "NotOverflow", "Carry", "NotCarry", "Zero", "NotZero",
               "BelowOrEqual", "Above", "Sign", "NotSign", "Parity", "NotParity",
               "Less", "GreaterOrEqual", "LessOrEqual", "Greater"}
Comparisons == UNION {{Insn("cmp", Reg(0, 1), Imm(v, 1)), Insn("cmp", Imm(v, 1), Reg(0, 1)),
                       Insn("test", Reg(0, 1), Imm(v, 1))} : v \in 0 .. 3}
PredicatePrograms ==
  {Layout(<<Insn("mov", Reg(0, w), Imm(a, w)), c, Jcc(cond, 4), ret, ret>>) :
     w \in {1}, a \in 0 .. 3, c \in Comparisons, cond \in Conditions}
  \cup
  {Layout(<<x, Insn("cmp", Reg(0, 8), Imm(3, 1)), y, Jcc("Less", 5), z, ret>>) :
     x \in Loads, y \in {nop, Insn("inc", Reg(0, 8), Void), call(40)}, z \in {jmp(2), nop}}

\* A call whose target works on the return address, over a gap of two.
GadgetEntries == {pop(0), Insn("mov", Reg(0, 8), StackTop),
                  Insn("add", StackTop, Imm(1, 8)), Insn("add", StackTop, Imm(3, 1)),
                  Insn("add", StackPointer, Imm(8, 8))}
GadgetSteps == {Insn("add", Reg(0, 8), Imm(1, 8)), Insn("sub", Reg(0, 8), Imm(3, 1)),
                Insn("inc", Reg(0, 4), Void), Insn("imul", Reg(1, 8), Reg(1, 8)),
                Insn("mov", Reg(0, 8), Imm(6, 8)), push(Reg(0, 8)), push(Reg(1, 8)), pop(1), nop}
GadgetPrograms ==
  {Layout(<<call(3), f, ret, g, x, y, z, ret>>) :
     f \in {nop, jmp(5)}, g \in GadgetEntries, x \in GadgetSteps, y \in GadgetSteps,
     z \in {nop, push(Reg(0, 8))}}

\* A two-case dispatcher on register 0 with predecessors that set it.
States(w) == {Insn("mov", Reg(0, w), Imm(v, w)) : v \in 1 .. 3}
DispatchPrograms ==
  {Layout(<<s, Insn("cmp", Reg(0, w), Imm(1, w)), b, v, x, Jcc("Zero", 9), ret, y, jmp(1), z, jmp(1)>>) :
     w \in {4, 8}, b \in {Jcc("Zero", 7), Jcc("NotZero", 3)},
     v \in {nop, Insn("inc", Reg(0, 8), Void), Insn("mov", Reg(1, 8), Imm(2, 8))},
     s \in States(8) \cup {nop}, x \in {Insn("cmp", Reg(r, 8), Imm(2, 8)) : r \in {0, 1}}
                       \cup {Insn("cmp", Reg(0, 4), Imm(2, 4))},
     y \in States(4) \cup {Insn("inc", Reg(0, 8), Void)},
     z \in {Insn("mov", Reg(0, 8), Imm(2, 8)), Insn("imul", Reg(0, 8), Reg(1, 8))}}

\* Small functions: wrappers, thunks and jumps over a gap.
SmallPrograms ==
  {Layout(<<a, b, c, d>>) :
     a \in {nop, Insn("mov", Mem(60), Reg(0, 8)), Jcc("Zero", 3), call(40), jmp(3)},
     b \in {nop, call(40), jmp(40), Insn("call", Reg(0, 8), Void), jmp(3), jmp(2)},
     c \in {nop, ret, call(40), Jcc("Zero", 1)}, d \in {ret, nop, jmp(40), jmp(2)}}

\* A constant chain whose register is popped before the transfer.
PopPrograms ==
  {Layout(<<Insn("mov", Reg(0, 8), Imm(5, 8)), x, pop(0), Insn("jmp", Reg(0, 8), Void),
            nop, nop, ret>>) : x \in ChainSteps}

AllPrograms == PredicatePrograms \cup GadgetPrograms \cup DispatchPrograms \cup SmallPrograms
               \cup ChainPrograms
=============================================================================
