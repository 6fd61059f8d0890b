---------------------------- MODULE MCEmulation -----------------------------
(***************************************************************************)
(* Small programs for EmulationPipeline.  Text is [4, 14), data [16, 24),   *)
(* read-only data [24, 26) and the scratch region [32, 56); the functions   *)
(* start at 4 and at 10.  A program is a function from text addresses to    *)
(* instructions: the instruction at address a has the opcode 200 + a, and   *)
(* addresses without one hold the byte 1, which decodes to nothing.         *)
(***************************************************************************)
EXTENDS EmulationPipeline

Nop           == [op |-> "nop"]
Hlt           == [op |-> "hlt"]
Icall         == [op |-> "icall"]
Ijmp          == [op |-> "ijmp"]
Ret           == [op |-> "ret", pop |-> 0]
RetN(n)       == [op |-> "ret", pop |-> n]
Jmp(a)        == [op |-> "jmp", to |-> a]
Jz(a)         == [op |-> "jz", to |-> a]
CallTo(a)     == [op |-> "call", to |-> a]
PushV(v)      == [op |-> "push", value |-> v]
Args(s)       == [op |-> "args", args |-> s]
Put(a, bytes) == [op |-> "store", addr |-> a, bytes |-> bytes]
PutArg(a)     == [op |-> "storearg", addr |-> a]
PutRet(bytes) == [op |-> "storeret", bytes |-> bytes]
Get(a)        == [op |-> "load", addr |-> a, size |-> PtrSize]

\* Instructions placed one after the other from an address.
Code(start, instructions) ==
    [a \in start .. start + Len(instructions) - 1 |-> instructions[a - start + 1]]

Segment(start, end, perm, bytes, loaded) ==
    [start |-> start, end |-> end, perm |-> perm, bytes |-> bytes, loaded |-> loaded]

Chunk(start, end) == [start |-> start, end |-> end]

F == [start |-> 4, end |-> 10, chunks |-> {Chunk(4, 10)}]
G == [start |-> 10, end |-> 14, chunks |-> {Chunk(10, 14)}]

Image(program, text_perm, data, data_loaded, entries) ==
    [segs |-> {Segment(4, 14, text_perm,
                       [a \in 4 .. 13 |-> IF a \in DOMAIN program THEN 200 + a ELSE 1],
                       4 .. 13),
               Segment(16, 24, {"R", "W"}, data, data_loaded),
               Segment(24, 26, {"R"}, [a \in 24 .. 25 |-> IF a = 24 THEN 66 ELSE 0], 24 .. 25)},
     entries |-> entries, big_endian |-> FALSE]

\* The opcodes of a program, with three spare ones a guest may write.
Isa(program) ==
    [b \in {200 + a : a \in DOMAIN program} \cup {240, 241} |->
        IF b = 240 THEN Ret ELSE IF b = 241 THEN Nop ELSE program[b - 200]]

Zeros == [a \in 16 .. 23 |-> 0]

AllPasses ==
    {"want_comments", "apply_runtime_bytes", "want_runtime_strings",
     "want_unicode_strings", "want_smc_evidence", "want_tables",
     "want_function_recovery", "want_tail_recovery", "make_code", "want_drefs",
     "want_ptr_refs", "want_strings", "want_data_types", "want_switch",
     "want_purge", "want_noret", "set_noret", "want_argregs", "want_opaque",
     "strlit_ok", "switch_ok", "patch_ok", "add_func_ok", "X86_32"}

\* A scenario with the usual set-up; the ones below change a field or two.
Scenario(program) ==
    [image |-> Image(program, {"R", "X"}, Zeros, 16 .. 23, {F, G}),
     isa |-> Isa(program),
     jobs |-> <<[func |-> F, cached |-> FALSE]>>,
     setup |-> [strict |-> TRUE, record_memory |-> TRUE, hook_size |-> 1,
                summaries |-> {}, can_discover |-> TRUE, mem_hooks_ok |-> TRUE,
                record_pcs |-> TRUE,
                timeouts |-> 0, cfg |-> AllPasses, inputs |-> <<>>, edited |-> {},
                can_static |-> FALSE, rax_isa |-> Isa(program), rich |-> TRUE],
     extra |-> [code |-> DOMAIN program, unloaded |-> 255, rpt |-> {}, crefs |-> {},
                tails |-> {}]]

\* A run that starts like the first one, after another.
Again == <<[seed |-> 0, run_id |-> 0, args |-> <<>>, stack_args |-> <<>>, overrides |-> {}]>>

Given(seed, args, words, overrides) ==
    [seed |-> seed, run_id |-> 0, args |-> args, stack_args |-> words, overrides |-> overrides]

With(s, change) ==
    [s EXCEPT !.setup = [f \in DOMAIN @ |-> IF f \in DOMAIN change THEN change[f] ELSE @[f]]]

Program(body) == With(Scenario(Code(4, body)), [inputs |-> Again])

Segments(s, start, change) ==
    [s EXCEPT !.image.segs =
        {IF seg.start = start THEN [f \in DOMAIN seg |-> IF f \in DOMAIN change THEN change[f]
                                                        ELSE seg[f]]
         ELSE seg : seg \in @}]

Writable(s) == Segments(s, 4, [perm |-> {"R", "W", "X"}])

Holding(s, bytes) ==
    Segments(s, 16, [bytes |-> [a \in 16 .. 23 |-> bytes[a - 15]]])

\* A function that leaves bytes in the data segment: four bytes of text,
\* lengths and rubbish, three units of wide text, pointers and surrogates, or
\* UTF-8 of three and four bytes, overlong, cut short, a surrogate, and past
\* the last code point.
Strings ==
    {Scenario(Code(4, <<Put(16, payload), Ret>>))
     : payload \in [1 .. 4 -> {0, 2, 65, 195, 169}]
                   \cup {FlattenSeq(w) : w \in [1 .. 3 -> {<<0, 0>>, <<2, 0>>, <<65, 0>>, <<4, 0>>,
                                                           <<65, 66>>, <<61, 216>>, <<0, 222>>}]}
                   \cup {c \o <<65, 0>> : c \in {<<226, 130, 172>>, <<240, 159, 152, 128>>,
                             <<224, 129, 129>>, <<193, 129>>, <<240, 128, 129, 129>>,
                             <<226, 130>>, <<237, 160, 128>>, <<244, 144, 128, 128>>}}}

\* Values that depend on the run, paths that differ, ranges that different
\* pairs of runs agree on, more bytes than are kept, and the user at work on
\* the same bytes.
Divergent ==
    {With(Program(<<Jz(6), PutArg(16), Put(18, <<65, 66, 0>>), Ret>>),
          [timeouts |-> 1, edited |-> {18, 19}]),
     With(Program(<<PutArg(16), Get(16), Put(20, <<65, 66>>), Ret>>), [hook_size |-> 0]),
     With(Holding(Program(<<Jz(7), Put(16, <<65, 66, 67, 0>>), Ret, Put(20, <<67, 66, 65, 0>>),
                            Ret>>), <<1, 1, 1, 1, 1, 1, 1, 1>>),
          [inputs |-> <<Given(1, <<0>>, <<>>, {}), Given(2, <<1>>, <<>>, {})>>]),
     Program(<<Put(16, <<65, 66, 0, 0, 67, 68, 69, 0>>), Ret>>),
     Program(<<Get(16), PutArg(16), Ret>>),
     [Program(<<Jz(6), Nop, Ret>>) EXCEPT
         !.extra.crefs = {[from |-> 4, to |-> 6, call |-> FALSE]},
         !.setup.inputs = <<Given(0, <<0>>, <<>>, {})>>],
     [Program(<<Args(<<1, 1>>), Jz(7), Ret, Ret>>) EXCEPT
         !.extra.crefs = {[from |-> 5, to |-> 7, call |-> FALSE]}],
     With(Holding(Program(<<Get(16), Get(18), Get(20), Ret>>), <<10, 0, 1, 2, 65, 66, 67, 0>>),
          [edited |-> {16, 21}])}
    \cup {With(Program(<<Put(16, <<65, 66, 0>>), RetN(2)>>), [cfg |-> AllPasses \ off])
          : off \in {{"apply_runtime_bytes", "strlit_ok"}, {"patch_ok", "X86_32"}}}

Table == Code(4, <<Put(16, <<4, 0>>), Put(18, <<10, 0>>), Get(18), Icall, Ret>>)
         @@ Code(10, <<Ret>>)

\* A table of pointers used for a call, its target known or not, its slots
\* loaded or not; and a jump with two observed targets.
PointerTables ==
    {With(Scenario(Table), [edited |-> {16, 19}, hook_size |-> size]) : size \in {0, 1}}
    \cup {[Segments(Scenario(Table), 16, [loaded |-> 16 .. 17]) EXCEPT
             !.image.entries = {F}, !.extra.code = 4 .. 8, !.extra.unloaded = fill,
             !.extra.rpt = {[ea |-> 16, text |-> "legacy"]}]
          : fill \in {0, 255}}
    \cup {[With(Scenario(Code(4, <<PutArg(16), Get(16), Ijmp, Nop, Ret>>) @@ Code(10, <<Ret>>)),
                [inputs |-> <<Given(7, <<8>>, <<>>, {}),
                              Given(7, <<8>>, <<>>, {[index |-> 1, value |-> 10]})>>])
           EXCEPT !.jobs = <<@[1], [func |-> G, cached |-> TRUE]>>, !.setup.cfg = cfg]
          : cfg \in {AllPasses, AllPasses \ {"want_comments"}}}

\* Code that rewrites itself, then runs or does not run what it wrote.
SelfModifying ==
    {With(Writable(Program(<<Put(6, <<240>>), Nop, Nop, Hlt>>)), [edited |-> {6}]),
     Writable(Program(<<Nop, Put(4, <<241>>), Ret, Hlt>>)),
     Program(<<Put(6, <<240>>), Nop, Ret>>),
     With(Program(<<Put(6, <<240>>), Nop, Ret>>), [strict |-> FALSE])}

\* A modelled library call at 12, once or over and over.
Called(kind, prefix) ==
    With(Scenario(Code(4, prefix \o <<CallTo(12), PutRet(<<65>>), Ret>>) @@ Code(12, <<Ret>>)),
         [summaries |-> {[address |-> 12, kind |-> kind]}, inputs |-> Again])

Summaries ==
    {Called(kind, <<PushV(2), Args(<<16, 24>>)>>)
     : kind \in {"MEMCPY", "MEMMOVE", "MEMSET", "STRCPY", "STRNCPY", "STRLEN", "STRCMP"}}
    \cup {Called(kind, <<Args(a)>>)
          : kind \in {"ALLOCATE", "CALLOCATE", "DEALLOCATE", "TERMINATE"},
            a \in {<<2, 1>>, <<2, 3>>, <<9, 0>>}}
    \cup {With(Scenario(Code(4, <<Args(<<16, 24>>), CallTo(12), Jmp(5)>>) @@ Code(12, <<Ret>>)),
               [summaries |-> {[address |-> 12, kind |-> kind]}, timeouts |-> 1])
          : kind \in {"STRCPY", "ALLOCATE"}}
    \cup {With(Scenario(Code(4, <<Args(<<16, 24>>), CallTo(12), Jmp(6)>>) @@ Code(12, <<Ret>>)),
               [summaries |-> {[address |-> 12, kind |-> "STRLEN"]}])}
    \cup {Called("MEMCPY", <<PushV(2), Args(<<24, 16>>)>>),
          Holding(Called("STRLEN", <<Args(<<16, 0>>)>>), <<1, 1, 1, 0, 0, 0, 0, 0>>)}
    \cup {With(Scenario(Code(4, <<Args(<<3, 1>>), CallTo(12), CallTo(12), Ret>>) @@ Code(12, <<Ret>>)),
               [summaries |-> {[address |-> 12, kind |-> "ALLOCATE"]}])}

\* Forbidden accesses, within a segment, out of one and into one; faults,
\* budgets, a halting and a cleaning function, an existing tail, a call only
\* one run makes, twice, and engines that cannot do everything.
Endings ==
    {Program(body) : body \in
        {<<Put(16, <<65>>), Put(24, <<65>>), Ret>>, <<Put(24, <<65, 66>>), Ret>>,
         <<Put(25, <<65, 66>>), Ret>>, <<Put(16, <<65>>), Nop>>, <<Jmp(4)>>, <<RetN(2)>>,
         <<PushV(3), Hlt>>}}
    \cup {Segments(Program(<<Put(a, <<65, 66>>), Put(16, <<65>>), Ret>>), 16,
                   [end |-> 22, bytes |-> [b \in 16 .. 21 |-> 0], loaded |-> 16 .. 21])
          : a \in {21, 23}}
    \cup {With(Scenario(Code(4, <<Hlt>>)),
               [timeouts |-> 1, inputs |-> <<Given(0, <<1>>, words, {})>>])
          : words \in {<<>>, <<5>>, <<5, 5, 5, 5>>}}
    \cup {[With(Scenario(Code(4, <<Jmp(12)>>) @@ Code(12, <<Ret>>)), [inputs |-> Again]) EXCEPT
             !.image.entries = {F}, !.extra.tails = {Chunk(12, 13)}],
          [Scenario(Code(4, <<Jz(6), Ret, CallTo(12), Jmp(6)>>) @@ Code(12, <<Ret>>)) EXCEPT
             !.image.entries = {F}]}
    \cup {[Scenario(Code(4, <<CallTo(12), Ret>>) @@ Code(12, <<Ret>>)) EXCEPT
             !.image.entries = {F}, !.extra.code = 4 .. 5, !.setup.cfg = AllPasses \ off]
          : off \in {{}, {"add_func_ok"}}}
    \cup {With(Program(<<Put(16, <<65, 66, 0>>), Ret>>), [o \in {option} |-> FALSE])
          : option \in {"mem_hooks_ok", "can_discover", "record_memory", "record_pcs"}}

\* The audit: two decoders, two functions, edits between submission and use,
\* and a first function whose enrichment patches the code of the second.
Audited ==
    LET program == Code(4, <<CallTo(10), Jz(4), Get(16)>>) @@ Code(10, <<Args(<<1, 2>>), Jmp(4)>>)
        rax     == Code(4, <<CallTo(12), Jz(4)>>) @@ Code(10, <<Args(<<1, 2>>), Jmp(4)>>)
        patcher == Code(4, <<Put(11, <<240>>), CallTo(11), Ret>>) @@ Code(10, <<Nop, Nop, Ret>>)
        both    == <<[func |-> F, cached |-> FALSE], [func |-> G, cached |-> FALSE]>>
    IN  {[With(Scenario(program), [can_static |-> TRUE, rich |-> rich, edited |-> {4, 11},
                                   rax_isa |-> Isa(rax)])
          EXCEPT !.jobs = [both EXCEPT ![1].cached = TRUE]] : rich \in BOOLEAN}
        \cup {[With(Writable(Scenario(patcher)), [can_static |-> TRUE]) EXCEPT !.jobs = both]}

MCScenarios == Strings \cup Divergent \cup PointerTables \cup SelfModifying
               \cup Summaries \cup Endings \cup Audited
=============================================================================
