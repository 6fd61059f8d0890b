------------------------------ MODULE EmuDriver -----------------------------
(***************************************************************************)
(* EmuDriver and RaxEmulationExecutor (emu_driver.cpp,                      *)
(* emulation_rax_executor.cpp): one job is a sequence of runs of a function *)
(* on one engine.  A run restores the baseline, seeds its input, installs   *)
(* its hooks and calls emu_start until the guest stops for good; a call     *)
(* summary stops the engine with the PC rewritten, and the run resumes.     *)
(* Only architectures that return through the stack are modelled.           *)
(***************************************************************************)
EXTENDS RaxEngine

CONSTANTS
    StackBase, StackSize,   \* the scratch region, clear of the image
    HeapLo, HeapHi,         \* the modelled heap, inside the scratch region
    Sentinel,               \* the return address of the emulated function
    EntrySp,                \* the stack pointer at entry
    ArgumentRegisters,      \* how many arguments travel in registers
    PageSize,               \* the unit the image is mapped in
    MaxInsns,               \* cfg.max_insns
    MaxRuntimeBytes,        \* cfg.max_runtime_bytes
    MaxResumptions,         \* 256 in the code
    MaxModelBytes,          \* 1 MiB in the code
    MaxStringBytes,         \* 65536 in the code, for the string summaries
    MaxStates,              \* 65536 in the code, the states a run captures
    HeapAlign               \* 16 in the code

ASSUME BudgetAssumption ==
    /\ HeapLo \in Nat /\ HeapHi \in Nat /\ HeapLo <= HeapHi
    /\ MaxInsns \in Nat /\ MaxResumptions \in Nat /\ MaxModelBytes \in Nat
    /\ HeapAlign \in Nat \ {0}

VARIABLES
    image,    \* the snapshot the workers share
    isa,      \* which bytes are instructions (external)
    setup,    \* options, call summaries and what the engine supports
    func,     \* the function the current job emulates
    requests, \* the runs the job still has to make
    phase,    \* "idle", "loop", "running", "ending" or "done"
    engine,   \* the engine, kept by the worker from run to run
    ctx,      \* HookCtx of the run
    out,      \* EmuEvents of the run
    result,   \* EmulationJobResult
    witness   \* what the guest really did in each run, for the properties

driver_vars == <<image, isa, setup, func, requests, phase, engine, ctx, out,
                 result, witness>>

be == image.big_endian

NoEvents == [edges |-> <<>>, execution |-> <<>>, data |-> <<>>,
             states |-> {}, final_writes |-> {}, exec_pcs |-> {}]

\* Whole pages are mapped, so an address beside a segment can be mapped too.
map_image(img) ==
    UNION {((seg.start \div PageSize) * PageSize)
           .. (((seg.end + PageSize - 1) \div PageSize) * PageSize - 1)
           : seg \in img.segs}

\* The baseline of save_baseline: loaded bytes copied, the rest zero.
Baseline(img) ==
    [mem |-> [a \in map_image(img) \cup Span(StackBase, StackSize) |->
                 snapshot_byte(img, a)],
     pc |-> 0, sp |-> 0, ret |-> 0,
     args |-> [i \in 1 .. ArgumentRegisters |-> 0]]

NewEngine(img) ==
    [mem |-> Baseline(img).mem, pc |-> 0, sp |-> 0, ret |-> 0,
     args |-> Baseline(img).args, icount |-> 0, exit |-> {}, hooks |-> {}]

\* Mutant: the registers are restored, guest memory is not.
RestoreRegistersOnly(e) ==
    [e EXCEPT !.pc = Baseline(image).pc, !.sp = Baseline(image).sp,
              !.ret = Baseline(image).ret, !.args = Baseline(image).args]

restore_state(e) ==
    [e EXCEPT !.mem = Baseline(image).mem, !.pc = Baseline(image).pc,
              !.sp = Baseline(image).sp, !.ret = Baseline(image).ret,
              !.args = Baseline(image).args]

effective_seed(r) ==
    IF r.input # {} THEN (CHOOSE i \in r.input : TRUE).seed ELSE r.seed

effective_run(r) ==
    IF r.input # {} THEN (CHOOSE i \in r.input : TRUE).run_id ELSE r.run_id

\* The deterministic corpus of a seed: boundary scalars, a pointer into the
\* image, one into the stack, and a mixed word.
seed_argument_corpus(seed, count) ==
    LET M == 256 ^ PtrSize
        mixed(i) == ((seed + 1) * 31 * i + 7) % M
        value(i) == CASE (seed + i - 1) % 8 = 0 -> 0
                      [] (seed + i - 1) % 8 = 1 -> 1
                      [] (seed + i - 1) % 8 = 2 -> 65535 % M
                      [] (seed + i - 1) % 8 = 3 -> 32767 % M
                      [] (seed + i - 1) % 8 = 4 -> 32768 % M
                      [] (seed + i - 1) % 8 = 5 -> image_lo(image)
                      [] (seed + i - 1) % 8 = 6 -> StackBase + StackSize \div 2
                      [] OTHER                  -> mixed(i)
    IN  [i \in 1 .. count |-> value(i)]

seed_arg_regs(e, seed) ==
    IF seed = 0 THEN e
    ELSE [e EXCEPT !.args = seed_argument_corpus(seed, ArgumentRegisters)]

\* Arguments beyond the registers go to the stack above the return slot, and
\* an input whose stack part leaves the scratch region is refused.
StackPart(input) ==
    SubSeq(input.args, ArgumentRegisters + 1, Len(input.args)) \o input.stack_args

plan_valid(input) ==
    EntrySp + PtrSize + PtrSize * Len(StackPart(input)) <= StackBase + StackSize

apply_input(e, input) ==
    LET words   == StackPart(input)
        given   == [i \in 1 .. ArgumentRegisters |->
                       IF i <= Len(input.args) THEN input.args[i] ELSE e.args[i]]
        content == FlattenSeq([i \in 1 .. Len(words) |->
                                  scalar_bytes(words[i], PtrSize, be)])
    IN  [mem_write(e, EntrySp + PtrSize, content) EXCEPT
            !.args = [i \in 1 .. ArgumentRegisters |->
                         IF \E o \in input.overrides : o.index = i
                         THEN (CHOOSE o \in input.overrides : o.index = i).value
                         ELSE given[i]]]

\* The engine as emulate_from prepares it for a request.
Prepared(e, r) ==
    LET entry  == [mem_write(restore_state(e), EntrySp,
                             scalar_bytes(Sentinel, PtrSize, FALSE))
                   EXCEPT !.sp = EntrySp]
        seeded == seed_arg_regs(entry, effective_seed(r))
        given  == IF r.input = {} THEN seeded
                  ELSE apply_input(seeded, CHOOSE i \in r.input : TRUE)
    IN  [given EXCEPT !.pc = func.start]

-----------------------------------------------------------------------------
(* The hooks.  A hook works on a record [c, e, o, stop]: context, engine,  *)
(* events, and whether it asked the engine to stop.                        *)

NewContext(run_id, seed, mem_hook, icount) ==
    [prev |-> {}, last_pc |-> 0, summary_source |-> 0, sequence |-> 0,
     heap_cursor |-> HeapLo, permission_violation |-> FALSE,
     terminated_process |-> FALSE, summary_resume |-> FALSE,
     summarized_calls |-> 0, mem_hook |-> mem_hook, resumptions |-> 0,
     run_id |-> run_id, seed |-> seed,
     icount_start |-> icount, count_limit |-> 0]

hook_in_function(ea) == func_contains(func, ea)

\* Walks the range segment by segment.  A range that starts in no segment is
\* governed by its own mapping; one that leaves the image half-way is refused.
image_access_allowed(addr, size, required) ==
    LET span   == Span(addr, size)
        inside == {a \in span : img_contains(image, a)}
        hole   == {a \in span \ inside : \A b \in span : b < a => b \in inside}
        walked == {a \in inside : \A h \in hole : a < h}
    IN  \/ size = 0
        \/ addr \notin inside
        \/ /\ \A a \in walked : \A seg \in segment_at(image, a) :
                 seg.perm = {} \/ has_perm(seg, required)
           /\ hole = {}

\* Puts the snapshot bytes back, unless some byte is in no segment.
restore_snapshot_bytes(e, addr, size) ==
    IF \A a \in Span(addr, size) : img_contains(image, a)
    THEN mem_write(e, addr, [i \in 1 .. size |-> snapshot_byte(image, addr + i - 1)])
    ELSE e

contains_range(lo, hi, addr, size) == size # 0 /\ lo <= addr /\ addr + size <= hi

\* The heap lies inside the scratch region and is asked for first; an access
\* that fits no region is not recordable.
access_scope(addr, size) ==
    IF contains_range(image_lo(image), image_hi(image), addr, size) THEN {"IMAGE"}
    ELSE IF contains_range(HeapLo, HeapHi, addr, size) THEN {"HEAP"}
    ELSE IF contains_range(StackBase, StackBase + StackSize, addr, size) THEN {"STACK"}
    ELSE {}

\* What a memory hook reports is little-endian; a summary reads the first
\* bytes in the target's order.
AccessValue(bytes, big_endian) ==
    scalar_value(SubSeq(bytes, 1, Min({Len(bytes), ValueBytes})), big_endian)

DataAcc(c, from, access, scope, big_endian) ==
    [from |-> from, addr |-> access.addr,
     value |-> AccessValue(access.bytes, big_endian),
     size |-> Len(access.bytes), kind |-> access.kind, scope |-> scope,
     sequence |-> c.sequence, run_id |-> c.run_id, seed |-> c.seed]

record_access(s, from, access, big_endian) ==
    LET scopes == access_scope(access.addr, Len(access.bytes))
    IN  IF Len(s.o.data) < MaxInsns /\ scopes # {} /\ hook_in_function(from)
        THEN [s EXCEPT
                !.o.data = Append(@, DataAcc(s.c, from, access,
                                             CHOOSE x \in scopes : TRUE, big_endian)),
                !.c.sequence = @ + 1]
        ELSE s

record_summary_access(s, access) ==
    record_access(s, s.c.summary_source, access, be)

\* A summary reports at most two accesses.
record_summary_accesses(s, accesses) ==
    LET first == IF accesses = <<>> THEN s ELSE record_summary_access(s, accesses[1])
    IN  IF Len(accesses) < 2 THEN first ELSE record_summary_access(first, accesses[2])

\* Arguments beyond the registers are read above the return slot.
summary_arg(e, i) ==
    LET slot == e.sp + PtrSize + PtrSize * (i - ArgumentRegisters - 1)
    IN  IF i <= ArgumentRegisters THEN {e.args[i]}
        ELSE IF mem_mapped(e, slot, PtrSize) THEN {read_word(e, slot, be)}
        ELSE {}

\* The bytes of the C string at an address, terminator included.
read_c_string(e, addr) ==
    LET ends == {n \in 1 .. MaxStringBytes :
                    mem_mapped(e, addr, n) /\ e.mem[addr + n - 1] = 0}
    IN  IF ends = {} THEN {} ELSE {mem_read(e, addr, Min(ends))}

\* What a summary does before it returns: the engine, the accesses it
\* reports in order, the result and the heap cursor; none if it fails.
Effect(e, accesses, value, heap) ==
    {[e |-> e, accesses |-> accesses, value |-> value, heap |-> heap]}

CompareResult(lhs, rhs) ==
    LET differ == {i \in 1 .. Min({Len(lhs), Len(rhs)}) : lhs[i] # rhs[i]}
    IN  IF differ = {} THEN Len(lhs) - Len(rhs)
        ELSE lhs[Min(differ)] - rhs[Min(differ)]

copy_summary(e, heap, dst, src, n) ==
    IF n > MaxModelBytes THEN {}
    ELSE IF n = 0 THEN Effect(e, <<>>, dst, heap)
    ELSE IF ~mem_mapped(e, src, n) \/ ~mem_mapped(e, dst, n) THEN {}
    ELSE LET bytes == mem_read(e, src, n)
         IN  Effect(mem_write(e, dst, bytes),
                    <<Access("read", src, bytes), Access("write", dst, bytes)>>,
                    dst, heap)

set_summary(e, heap, dst, value, n) ==
    IF n > MaxModelBytes THEN {}
    ELSE IF n = 0 THEN Effect(e, <<>>, dst, heap)
    ELSE IF ~mem_mapped(e, dst, n) THEN {}
    ELSE LET bytes == [i \in 1 .. n |-> value % 256]
         IN  Effect(mem_write(e, dst, bytes), <<Access("write", dst, bytes)>>,
                    dst, heap)

strcpy_summary(e, heap, dst, src) ==
    UNION {IF mem_mapped(e, dst, Len(bytes))
           THEN Effect(mem_write(e, dst, bytes),
                       <<Access("read", src, bytes), Access("write", dst, bytes)>>,
                       dst, heap)
           ELSE {} : bytes \in read_c_string(e, src)}

\* Reads up to the terminator or n bytes and pads with zeros.
strncpy_summary(e, heap, dst, src, n) ==
    LET ends  == {i \in 1 .. n : mem_mapped(e, src, i) /\ e.mem[src + i - 1] = 0}
        count == IF ends = {} THEN n ELSE Min(ends)
        bytes == [i \in 1 .. n |-> IF i <= count THEN e.mem[src + i - 1] ELSE 0]
    IN  IF n > MaxModelBytes THEN {}
        ELSE IF n = 0 THEN Effect(e, <<>>, dst, heap)
        ELSE IF ~mem_mapped(e, src, count) \/ ~mem_mapped(e, dst, n) THEN {}
        ELSE Effect(mem_write(e, dst, bytes),
                    <<Access("read", src, SubSeq(bytes, 1, count)),
                      Access("write", dst, bytes)>>, dst, heap)

\* A request of no bytes, of too many, or of more than is left gets null.
allocate_summary(e, heap, size, zeroed) ==
    LET n       == IF size \in 1 .. MaxModelBytes THEN size ELSE 0
        aligned == ((n + HeapAlign - 1) \div HeapAlign) * HeapAlign
        zeros   == [i \in 1 .. n |-> 0]
    IN  IF n = 0 \/ aligned > HeapHi - heap THEN Effect(e, <<>>, 0, heap)
        ELSE IF zeroed
        THEN Effect(mem_write(e, heap, zeros), <<Access("write", heap, zeros)>>,
                    heap, heap + aligned)
        ELSE Effect(e, <<>>, heap, heap + aligned)

Arity(kind) ==
    CASE kind \in {"STRLEN", "ALLOCATE", "DEALLOCATE"} -> 1
      [] kind \in {"STRCMP", "STRCPY", "CALLOCATE"}    -> 2
      [] OTHER                                         -> 3

\* What a summary does with its arguments.
EffectOf(kind, e, heap, a) ==
    CASE kind = "STRLEN" ->
           {[e |-> e, accesses |-> <<Access("read", a[1], x)>>,
             value |-> Len(x) - 1, heap |-> heap] : x \in read_c_string(e, a[1])}
      [] kind = "STRCMP" ->
           {[e |-> e, heap |-> heap,
             value |-> CompareResult(x, y) % 256 ^ PtrSize,
             accesses |-> <<Access("read", a[1], x), Access("read", a[2], y)>>]
            : x \in read_c_string(e, a[1]), y \in read_c_string(e, a[2])}
      [] kind \in {"MEMCPY", "MEMMOVE"} -> copy_summary(e, heap, a[1], a[2], a[3])
      [] kind = "MEMSET"     -> set_summary(e, heap, a[1], a[2], a[3])
      [] kind = "STRCPY"     -> strcpy_summary(e, heap, a[1], a[2])
      [] kind = "STRNCPY"    -> strncpy_summary(e, heap, a[1], a[2], a[3])
      [] kind = "ALLOCATE"   -> allocate_summary(e, heap, a[1], FALSE)
      [] kind = "CALLOCATE"  ->
           allocate_summary(e, heap,
                            IF a[1] * a[2] < 256 ^ PtrSize THEN a[1] * a[2] ELSE 0,
                            TRUE)
      [] OTHER               -> Effect(e, <<>>, 0, heap)   \* DEALLOCATE

\* The effects a summary can have: none when an argument is unreadable.
SummaryEffect(kind, e, heap) ==
    UNION {EffectOf(kind, e, heap, a) :
             a \in {f \in [1 .. Arity(kind) -> UNION {summary_arg(e, i) : i \in 1 .. Arity(kind)}] :
                      \A i \in 1 .. Arity(kind) : f[i] \in summary_arg(e, i)}}

\* Writes the result, pops the return address into the PC and asks for a
\* resumption; without a readable return slot only the result is written.
summary_return(s, value) ==
    LET e == [s.e EXCEPT !.ret = value]
    IN  IF mem_mapped(e, e.sp, PtrSize)
        THEN [s EXCEPT !.e = [e EXCEPT !.sp = @ + PtrSize,
                                       !.pc = read_word(e, e.sp, be)],
                       !.c.summary_resume = TRUE,
                       !.c.summarized_calls = @ + 1,
                       !.stop = TRUE]
        ELSE [s EXCEPT !.e = e]

\* A summary that fails leaves the target stub to execute.
apply_summary(s, summary) ==
    IF summary.kind = "TERMINATE"
    THEN [s EXCEPT !.c.terminated_process = TRUE,
                   !.c.summarized_calls = @ + 1, !.stop = TRUE]
    ELSE LET effects == SummaryEffect(summary.kind, s.e, s.c.heap_cursor)
         IN  IF effects = {} THEN s
             ELSE LET f == CHOOSE f \in effects : TRUE
                      recorded == record_summary_accesses(
                                    [s EXCEPT !.e = f.e, !.c.heap_cursor = f.heap],
                                    f.accesses)
                  IN  summary_return(recorded, f.value)

find_summary(addr) == {x \in setup.summaries : x.address = addr}

\* The transfer into addr, unless it falls through from the previous
\* instruction.  The engine may report no instruction size: then the snapshot
\* decode gives it, and an undecodable source has no fallthrough at all.  The
\* registers are captured with each edge, up to a cap of their own.
record_edge(s, addr, sequence) ==
    LET p       == CHOOSE p \in s.c.prev : TRUE
        decoded == loaded_view(image, isa, p.pc)
        size    == IF p.size # 0 THEN p.size ELSE Cardinality(decoded)
    IN  IF /\ s.c.prev # {}
           /\ image_lo(image) <= addr /\ addr < image_hi(image)
           /\ hook_in_function(p.pc)
           /\ Len(s.o.edges) < MaxInsns
           /\ size = 0 \/ addr # p.pc + size
        THEN [s EXCEPT
                !.o.edges = Append(@, [from |-> p.pc, to |-> addr,
                    kind |-> IF decoded = {} THEN "Unknown"
                             ELSE FlowKind(CHOOSE i \in decoded : TRUE),
                    sequence |-> sequence, run_id |-> s.c.run_id, seed |-> s.c.seed]),
                !.o.states = @ \cup (IF Len(s.o.edges) >= MaxStates THEN {}
                    ELSE {[source |-> p.pc, pc |-> addr,
                           run_id |-> s.c.run_id, seed |-> s.c.seed,
                           regs |-> <<s.e.ret, s.e.sp>> \o s.e.args]})]
        ELSE s

record_execution(s, addr, sequence) ==
    IF /\ image_lo(image) <= addr /\ addr < image_hi(image)
       /\ Len(s.o.execution) < MaxInsns
    THEN [s EXCEPT !.o.execution =
            Append(@, [pc |-> addr, sequence |-> sequence,
                       run_id |-> s.c.run_id, seed |-> s.c.seed])]
    ELSE s

record_pc(s, addr) ==
    IF /\ setup.record_pcs /\ hook_in_function(addr)
       /\ Cardinality(s.o.exec_pcs) < MaxInsns
    THEN [s EXCEPT !.o.exec_pcs = @ \cup {addr}]
    ELSE s

\* Mutant: the program counter accesses are attributed to lags by one.
LagBehind(s, addr) ==
    [s EXCEPT !.c.prev = {[pc |-> addr, size |-> setup.hook_size]},
              !.c.last_pc = IF s.c.prev = {} THEN addr
                            ELSE (CHOOSE p \in s.c.prev : TRUE).pc]

\* The instruction about to execute, for the edge out of it and its accesses.
enter_instruction(s, addr) ==
    [s EXCEPT !.c.prev = {[pc |-> addr, size |-> setup.hook_size]},
              !.c.last_pc = addr]

\* The code hook, before the instruction at addr.
code_tr(s, addr) ==
    IF setup.strict /\ ~image_access_allowed(addr, Max({1, setup.hook_size}), "X")
    THEN [s EXCEPT !.c.permission_violation = TRUE, !.stop = TRUE]
    ELSE LET numbered == [s EXCEPT !.c.sequence = @ + 1]
             recorded == record_pc(record_execution(
                             record_edge(numbered, addr, s.c.sequence),
                             addr, s.c.sequence), addr)
             sourced  == [recorded EXCEPT !.c.summary_source =
                            IF s.c.prev = {} THEN addr
                            ELSE (CHOOSE p \in s.c.prev : TRUE).pc]
             applied  == IF find_summary(addr) = {} THEN sourced
                         ELSE apply_summary(sourced,
                                  CHOOSE x \in find_summary(addr) : TRUE)
         IN  enter_instruction(applied, addr)

\* Mutant: a forbidden write stops the run and stays in memory.
RefuseWithoutUndo(s, access) ==
    IF setup.strict /\ ~image_access_allowed(access.addr, Len(access.bytes),
                            IF access.kind = "write" THEN "W" ELSE "R")
    THEN [s EXCEPT !.c.permission_violation = TRUE, !.stop = TRUE]
    ELSE IF setup.record_memory THEN record_access(s, s.c.last_pc, access, FALSE) ELSE s

\* The memory hook, after the instruction that made the access.
mem_tr(s, access) ==
    LET size     == Len(access.bytes)
        required == IF access.kind = "write" THEN "W" ELSE "R"
    IN  IF setup.strict /\ ~image_access_allowed(access.addr, size, required)
        THEN [s EXCEPT !.e = IF access.kind = "write"
                             THEN restore_snapshot_bytes(@, access.addr, size)
                             ELSE @,
                       !.c.permission_violation = TRUE, !.stop = TRUE]
        ELSE IF setup.record_memory
        THEN record_access(s, s.c.last_pc, access, FALSE)
        ELSE s

-----------------------------------------------------------------------------
(* What emu_start does at an instruction boundary (external): the address  *)
(* to run until, then the instruction count, then the fetch, the code      *)
(* hook, the instruction and its memory hooks.                             *)

Exit(s, reason) ==
    [s EXCEPT !.e.exit = {[reason |-> reason, address |-> s.e.pc]}, !.stop = TRUE]

Fetched(e) ==
    IF e.pc \in DOMAIN e.mem /\ e.mem[e.pc] \in DOMAIN isa
    THEN {isa[e.mem[e.pc]]} ELSE {}

\* An instruction makes at most one access.
Retire(s, i) ==
    LET x      == Execute(s.e, i, be)
        after  == [s EXCEPT !.e = x.engine]
        hooked == IF s.c.mem_hook /\ x.accesses # <<>>
                  THEN mem_tr(after, Head(x.accesses)) ELSE after
    IN  IF x.stop # {} THEN Exit(hooked, CHOOSE r \in x.stop : TRUE)
        ELSE IF hooked.stop THEN Exit(hooked, "stop")
        ELSE hooked

Boundary(s) ==
    IF s.e.pc = Sentinel THEN Exit(s, "until")
    ELSE IF s.e.icount >= s.c.count_limit THEN Exit(s, "count")
    ELSE IF Fetched(s.e) = {} THEN Exit(s, "exception")
    ELSE LET hooked == code_tr(s, s.e.pc)
         IN  IF hooked.stop THEN Exit(hooked, "stop")
             ELSE Retire(hooked, CHOOSE i \in Fetched(s.e) : TRUE)

-----------------------------------------------------------------------------
(* After a run.                                                            *)

\* Mutant: a range ends one byte too late.
RangesEndLate(data, run_id, scope) ==
    LET cells  == UNION {Span(a.addr, a.size) : a \in
                     {d \in Range(data) : d.kind = "write" /\ d.scope = scope
                                          /\ d.run_id = run_id}}
        starts == {a \in cells : a - 1 \notin cells}
    IN  [i \in 1 .. Cardinality(starts) |->
            LET lo == SetToSortSeq(starts, <)[i]
                hi == Min({b \in lo .. Max(cells) + 1 : b \notin cells})
            IN  [addr |-> lo, size |-> hi - lo + 1, scope |-> scope]]

\* The addresses a run is known to have written, by scope; adjacent writes
\* merge into one range, and the byte budget cuts the last range short.
\* Ranges are visited by scope, image first, then by address.
written_ranges(data, run_id, scope) ==
    LET cells  == UNION {Span(a.addr, a.size) : a \in
                     {d \in Range(data) : d.kind = "write" /\ d.scope = scope
                                          /\ d.run_id = run_id}}
        starts == {a \in cells : a - 1 \notin cells}
    IN  [i \in 1 .. Cardinality(starts) |->
            LET lo == SetToSortSeq(starts, <)[i]
                hi == Min({b \in lo .. Max(cells) + 1 : b \notin cells})
            IN  [addr |-> lo, size |-> hi - lo, scope |-> scope]]

capture_final_writes(e, data, run_id, seed) ==
    LET merged == written_ranges(data, run_id, "IMAGE")
                  \o written_ranges(data, run_id, "STACK")
                  \o written_ranges(data, run_id, "HEAP")
        take(acc, r) ==
            LET len == Min({r.size, acc.remaining})
            IN  IF len = 0 \/ ~mem_mapped(e, r.addr, len) THEN acc
                ELSE [remaining |-> acc.remaining - len,
                      taken |-> acc.taken \cup
                          {[addr |-> r.addr, bytes |-> mem_read(e, r.addr, len),
                            scope |-> r.scope, run_id |-> run_id, seed |-> seed]}]
    IN  FoldLeft(take, [remaining |-> MaxRuntimeBytes, taken |-> {}], merged).taken

\* Function-level summary of a run, from the exit the engine last recorded.
EmuOutcome(c, e) ==
    LET reason   == {x.reason : x \in e.exit}
        returned == reason = {"until"}
    IN  [stop |-> reason, stop_pc |-> {x.address : x \in e.exit},
         returned |-> returned, terminated_process |-> c.terminated_process,
         summarized_calls |-> c.summarized_calls,
         instruction_count |-> e.icount - c.icount_start,
         sp_delta |-> IF returned THEN {e.sp - EntrySp} ELSE {}]

NoOutcome ==
    [stop |-> {}, stop_pc |-> {}, returned |-> FALSE, terminated_process |-> FALSE,
     summarized_calls |-> 0, instruction_count |-> 0, sp_delta |-> {}]

definitive_terminal(outcome) ==
    outcome.terminated_process \/ outcome.stop \in {{"hlt"}, {"shutdown"}}

merge_from(into, events) ==
    [edges |-> into.edges \o events.edges,
     execution |-> into.execution \o events.execution,
     data |-> into.data \o events.data,
     states |-> into.states \cup events.states,
     final_writes |-> into.final_writes \cup events.final_writes,
     exec_pcs |-> into.exec_pcs \cup events.exec_pcs]

\* Runs in order, and each run in the order of its sequence numbers; the
\* numbers of a run are distinct, so nothing is dropped.
EventBefore(a, b) ==
    \/ a.run_id < b.run_id
    \/ a.run_id = b.run_id /\ a.seed < b.seed
    \/ a.run_id = b.run_id /\ a.seed = b.seed /\ a.sequence < b.sequence

normalize(events) ==
    [events EXCEPT !.edges = SortSeq(@, EventBefore),
                   !.execution = SortSeq(@, EventBefore),
                   !.data = SortSeq(@, EventBefore)]

-----------------------------------------------------------------------------
(* RaxEmulationExecutor::execute and EmuDriver::emulate_from.              *)

NewResult(start, status, audit) ==
    [function_start |-> start, status |-> status, runs |-> <<>>, merged |-> NoEvents,
     decoder_audit |-> audit]

duplicate_provenance(rs) ==
    \E i, j \in 1 .. Len(rs) :
        i # j /\ effective_run(rs[i]) = effective_run(rs[j])
              /\ effective_seed(rs[i]) = effective_seed(rs[j])

\* A job for a function the snapshot knows, with the decoder audit the worker
\* makes before its first run.
execute(f, rs, audit) ==
    LET status == IF duplicate_provenance(rs) THEN "FAILED"
                  ELSE IF ~setup.can_discover /\ rs # <<>> THEN "UNAVAILABLE"
                  ELSE "RUNNING"
    IN  /\ phase = "done"
        /\ func' = f
        /\ requests' = rs
        /\ result' = NewResult(f.start, status, IF status = "FAILED" THEN {} ELSE audit)
        /\ witness' = <<>>
        /\ phase' = IF status = "RUNNING" THEN "idle" ELSE "done"
        /\ UNCHANGED <<image, isa, setup, engine, ctx, out>>

Finish(status) ==
    /\ phase = "idle"
    /\ result' = [result EXCEPT !.status = status, !.merged = normalize(@)]
    /\ phase' = "done"

\* Cancellation is polled between runs only; the runs made so far stay.
CancelJob ==
    /\ requests # <<>>
    /\ Finish("CANCELLED")
    /\ UNCHANGED <<image, isa, setup, func, requests, engine, ctx, out, witness>>

\* Cancellation during the audit drops all of it.
CancelAudit ==
    /\ phase = "idle" /\ result.runs = <<>> /\ result.decoder_audit # {}
    /\ result' = [result EXCEPT !.status = "CANCELLED", !.decoder_audit = {}]
    /\ phase' = "done"
    /\ UNCHANGED <<image, isa, setup, func, requests, engine, ctx, out, witness>>

FinishJob ==
    /\ requests = <<>>
    /\ Finish("COMPLETED")
    /\ UNCHANGED <<image, isa, setup, func, requests, engine, ctx, out, witness>>

RunAllowed(r) == \A i \in r.input : plan_valid(i)

\* The state cannot be restored or prepared, or the code hook cannot be
\* installed: the run did not happen, and the job fails with what it has.
RunFails ==
    /\ phase = "idle" /\ requests # <<>>
    /\ \E e \in {engine, Prepared(engine, Head(requests))} : engine' = e
    /\ result' = [result EXCEPT
         !.status = "FAILED", !.merged = normalize(@),
         !.runs = Append(@, [run_id |-> effective_run(Head(requests)),
                             seed |-> effective_seed(Head(requests)), ran |-> FALSE,
                             events |-> NoEvents, outcome |-> NoOutcome])]
    /\ witness' = Append(witness, [entry |-> <<>>, timed_out |-> FALSE])
    /\ phase' = "done"
    /\ UNCHANGED <<image, isa, setup, func, requests, ctx, out>>

\* What a guest on a fresh engine could tell one request from another by.
EntryState(r) ==
    LET e == Prepared(NewEngine(image), r)
    IN  <<e.pc, e.args, [a \in Span(StackBase, StackSize) |-> e.mem[a]]>>

BeginRun ==
    /\ phase = "idle" /\ requests # <<>>
    /\ RunAllowed(Head(requests))
    /\ LET mem_hook == (setup.strict \/ setup.record_memory) /\ setup.mem_hooks_ok
       IN  /\ engine' = [Prepared(engine, Head(requests)) EXCEPT
                           !.hooks = {"code", "invalid"}
                                     \cup (IF mem_hook THEN {"mem"} ELSE {})]
           /\ ctx' = NewContext(effective_run(Head(requests)),
                                effective_seed(Head(requests)),
                                mem_hook, engine.icount)
    /\ out' = NoEvents
    /\ witness' = Append(witness, [entry |-> EntryState(Head(requests)), timed_out |-> FALSE])
    /\ phase' = "loop"
    /\ UNCHANGED <<image, isa, setup, func, requests, result>>

Used == engine.icount - ctx.icount_start

\* Mutant: every resumption gets the whole instruction budget again.
FreshBudget ==
    /\ phase = "loop"
    /\ IF ctx.resumptions > MaxResumptions \/ Used >= MaxInsns
       THEN phase' = "ending" /\ UNCHANGED ctx
       ELSE /\ phase' = "running"
            /\ ctx' = [ctx EXCEPT !.summary_resume = FALSE, !.resumptions = @ + 1,
                                  !.count_limit = engine.icount + MaxInsns]
    /\ UNCHANGED <<image, isa, setup, func, requests, engine, out, result, witness>>

\* The top of the resumption loop.  emu_start gets what is left of the run's
\* instruction budget.
LoopTop ==
    /\ phase = "loop"
    /\ IF ctx.resumptions > MaxResumptions \/ Used >= MaxInsns
       THEN phase' = "ending" /\ UNCHANGED ctx
       ELSE /\ phase' = "running"
            /\ ctx' = [ctx EXCEPT !.summary_resume = FALSE, !.resumptions = @ + 1,
                                  !.count_limit = engine.icount + (MaxInsns - Used)]
    /\ UNCHANGED <<image, isa, setup, func, requests, engine, out, result, witness>>

\* setup.timeouts bounds how many runs of a job time out.
MayTimeOut == Cardinality({i \in DOMAIN witness : witness[i].timed_out}) < setup.timeouts

\* The wall clock has run out, seen by the loop or by the engine.
TimeOut ==
    /\ phase \in {"loop", "running"}
    /\ MayTimeOut
    /\ witness' = [witness EXCEPT ![Len(witness)].timed_out = TRUE]
    /\ engine' = IF phase = "loop" THEN engine
                 ELSE [engine EXCEPT !.exit = {[reason |-> "timeout", address |-> engine.pc]}]
    /\ phase' = "ending"
    /\ UNCHANGED <<image, isa, setup, func, requests, ctx, out, result>>

Step ==
    /\ phase = "running"
    /\ \E s \in {Boundary([c |-> ctx, e |-> engine, o |-> out, stop |-> FALSE])} :
          /\ ctx' = s.c /\ engine' = s.e /\ out' = s.o
          /\ phase' = IF ~s.stop THEN "running"
                      ELSE IF s.c.summary_resume THEN "loop" ELSE "ending"
    /\ UNCHANGED <<image, isa, setup, func, requests, result, witness>>

EndRun ==
    /\ phase = "ending"
    /\ LET events == [out EXCEPT !.final_writes =
                        capture_final_writes(engine, out.data, ctx.run_id, ctx.seed)]
       IN  /\ out' = events
           /\ result' = [result EXCEPT
                !.runs = Append(@, [run_id |-> ctx.run_id, seed |-> ctx.seed,
                                    ran |-> TRUE, events |-> events,
                                    outcome |-> EmuOutcome(ctx, engine)]),
                !.merged = merge_from(@, events)]
    /\ engine' = [engine EXCEPT !.hooks = {}]
    /\ requests' = Tail(requests)
    /\ phase' = "idle"
    /\ UNCHANGED <<image, isa, setup, func, ctx, witness>>

WorkerStep ==
    \/ CancelJob
    \/ CancelAudit
    \/ FinishJob
    \/ RunFails
    \/ BeginRun
    \/ LoopTop
    \/ TimeOut
    \/ Step
    \/ EndRun

DriverInit(img, i, s) ==
    /\ image = img /\ isa = i /\ setup = s
    /\ func = [start |-> 0, end |-> 0, chunks |-> {}]
    /\ requests = <<>>
    /\ phase = "done"
    /\ engine = NewEngine(img)
    /\ ctx = NewContext(0, 0, FALSE, 0)
    /\ out = NoEvents
    /\ result = NewResult(0, "NONE", {})
    /\ witness = <<>>
=============================================================================
