----------------------------- MODULE RaxEngine ------------------------------
(***************************************************************************)
(* The rax engine, outside the repository: what EmuDriver relies on.  A     *)
(* flat guest memory that ignores page permissions for the guest and for    *)
(* the host alike (load_image_bytes fills read-only pages through           *)
(* mem_write), a register file, an instruction counter, the last exit, and  *)
(* the installed hooks.  The code hook runs before its instruction, and a   *)
(* stop requested there leaves the instruction unexecuted; memory hooks run *)
(* after it.  The guest is a deterministic machine with one-byte            *)
(* instructions, so a guest store can rewrite code; isa maps the bytes that *)
(* decode to instructions.                                                  *)
(***************************************************************************)
EXTENDS ProgramModel

CONSTANTS
    PtrSize,      \* bytes of a guest pointer
    ValueBytes    \* bytes of an access a memory hook reports (eight in rax)

mem_mapped(engine, addr, size) == Span(addr, size) \subseteq DOMAIN engine.mem

mem_read(engine, addr, size) == [i \in 1 .. size |-> engine.mem[addr + i - 1]]

Overwrite(mem, addr, bytes) ==
    [a \in DOMAIN mem |->
        IF a \in Span(addr, Len(bytes)) THEN bytes[a - addr + 1] ELSE mem[a]]

mem_write(engine, addr, bytes) ==
    [engine EXCEPT !.mem = Overwrite(engine.mem, addr, bytes)]

read_word(engine, addr, be) == scalar_value(mem_read(engine, addr, PtrSize), be)

Access(kind, addr, bytes) == [kind |-> kind, addr |-> addr, bytes |-> bytes]

\* What a retired instruction did: the engine after it, its memory accesses,
\* and whether it faulted or halted.
Retired(engine, pc, accesses) ==
    [engine |-> [engine EXCEPT !.pc = pc, !.icount = @ + 1],
     accesses |-> accesses, stop |-> {}]

Stopped(engine, reason) ==
    [engine |-> engine, accesses |-> <<>>, stop |-> {reason}]

Store(engine, addr, bytes) ==
    IF mem_mapped(engine, addr, Len(bytes))
    THEN Retired(mem_write(engine, addr, bytes), engine.pc + 1,
                 <<Access("write", addr, bytes)>>)
    ELSE Stopped(engine, "exception")

Load(engine, addr, size, be) ==
    IF mem_mapped(engine, addr, size)
    THEN LET bytes == mem_read(engine, addr, size)
         IN  Retired([engine EXCEPT !.ret = scalar_value(bytes, be)],
                     engine.pc + 1, <<Access("read", addr, bytes)>>)
    ELSE Stopped(engine, "exception")

Push(engine, value, pc, be) ==
    LET sp   == engine.sp - PtrSize
        slot == scalar_bytes(value, PtrSize, be)
    IN  IF mem_mapped(engine, sp, PtrSize)
        THEN Retired([mem_write(engine, sp, slot) EXCEPT !.sp = sp], pc,
                     <<Access("write", sp, slot)>>)
        ELSE Stopped(engine, "exception")

Call(engine, target, be) == Push(engine, engine.pc + 1, target, be)

Return(engine, pop, be) ==
    IF mem_mapped(engine, engine.sp, PtrSize)
    THEN Retired([engine EXCEPT !.sp = @ + PtrSize + pop],
                 read_word(engine, engine.sp, be),
                 <<Access("read", engine.sp, mem_read(engine, engine.sp, PtrSize))>>)
    ELSE Stopped(engine, "exception")

\* One instruction; a value comes from the instruction, from the first
\* argument register or from the return register.
Execute(engine, i, be) ==
    CASE i.op = "store"    -> Store(engine, i.addr, i.bytes)
      [] i.op = "storearg" -> Store(engine, i.addr,
                                    scalar_bytes(engine.args[1], PtrSize, be))
      [] i.op = "storeret" -> Store(engine, engine.ret, i.bytes)
      [] i.op = "load"     -> Load(engine, i.addr, i.size, be)
      [] i.op = "args"     -> Retired([engine EXCEPT !.args = i.args],
                                      engine.pc + 1, <<>>)
      [] i.op = "jz"       -> Retired(engine, IF engine.args[1] = 0 THEN i.to
                                              ELSE engine.pc + 1, <<>>)
      [] i.op = "jmp"      -> Retired(engine, i.to, <<>>)
      [] i.op = "ijmp"     -> Retired(engine, engine.ret, <<>>)
      [] i.op = "call"     -> Call(engine, i.to, be)
      [] i.op = "icall"    -> Call(engine, engine.ret, be)
      [] i.op = "push"     -> Push(engine, i.value, engine.pc + 1, be)
      [] i.op = "ret"      -> Return(engine, i.pop, be)
      [] i.op = "hlt"      -> [Retired(engine, engine.pc + 1, <<>>)
                               EXCEPT !.stop = {"hlt"}]
      [] OTHER             -> Retired(engine, engine.pc + 1, <<>>)

\* How a decoder classifies the control flow of an instruction.
FlowKind(i) ==
    CASE i.op \in {"call", "icall"}       -> "Call"
      [] i.op \in {"jz", "jmp", "ijmp"}   -> "Jump"
      [] i.op = "ret"                     -> "Return"
      [] OTHER                            -> "Unknown"
=============================================================================
