--------------------------- MODULE FunctionEnrich ---------------------------
(***************************************************************************)
(* The enrichment passes that follow viy_runtime_enrich on the main thread: *)
(* viy_apply_missing (ref_discovery.cpp), viy_enrich (enrich.cpp) and       *)
(* viy_advanced (advanced.cpp).  cfg is the set of enabled options, with    *)
(* "switch_ok" when the kernel accepts a switch table and "X86_32" on that  *)
(* architecture.                                                            *)
(***************************************************************************)
EXTENDS RuntimeEnrich

CONSTANTS
    MinPointer,        \* 0x1000 in the code
    MinStringLength,   \* four in the code
    MaxWalk,           \* 64 in the code
    MinOutcomes        \* three in the code

-----------------------------------------------------------------------------
(* Missing references.                                                     *)

target_is_executable(img, to) ==
    \E seg \in segment_at(img, to) : segment_is_executable(seg)

\* A reference is new and goes from an instruction to something that can
\* begin one.
CanAddCref(img, idb, from, to) ==
    /\ is_mapped(idb, to) /\ target_is_executable(img, to) /\ ~is_tail(idb, to)
    /\ is_code_head(idb, from)
    /\ ~cref_exists(idb, from, to)

\* An unexplored target is queued for analysis, a call target as a function.
viy_try_add_cref(img, cfg, idb, from, to, is_call) ==
    IF ~CanAddCref(img, idb, from, to) THEN idb
    ELSE [idb EXCEPT !.crefs = @ \cup {[from |-> from, to |-> to, call |-> is_call]},
                     !.planned = IF "make_code" \in cfg /\ is_unknown(idb, to)
                                 THEN @ \cup {to} ELSE @]

AddCref(img, isa, cfg, idb, edge) ==
    LET i == decode_source(idb, isa, edge.from)
    IN  IF \E x \in i : features(x) \cap {"CALL", "JUMP"} # {}
        THEN viy_try_add_cref(img, cfg, idb, edge.from, edge.to, \E x \in i : IsCall(x))
        ELSE idb

AddDref(idb, access) ==
    IF /\ access.scope = "IMAGE" /\ is_mapped(idb, access.addr)
       /\ ~\E i \in item_at(idb, access.addr) : i.kind = "code"
       /\ is_code_head(idb, access.from)
       /\ ~dref_exists(idb, access.from, access.addr)
    THEN [idb EXCEPT !.drefs = @ \cup {[from |-> access.from, to |-> access.addr,
                                        write |-> access.kind = "write"]}]
    ELSE idb

viy_apply_missing(img, isa, cfg, events, idb) ==
    LET coded == FoldLeft(LAMBDA d, e : AddCref(img, isa, cfg, d, e), idb, events.edges)
    IN  IF "want_drefs" \in cfg THEN FoldLeft(AddDref, coded, events.data) ELSE coded

-----------------------------------------------------------------------------
(* Value-derived items and comments.                                       *)

add_rpt_comment(idb, ea, text) == IF has_rpt(idb, ea) THEN idb ELSE set_rpt(idb, ea, text)

\* A transfer whose operand shows no destination gets one as a comment.
CommentTransfer(isa, idb, edge) ==
    IF /\ is_mapped(idb, edge.to)
       /\ \E i \in decode_source(idb, isa, edge.from) : i.op \in {"icall", "ijmp"}
    THEN add_rpt_comment(idb, edge.from, "target") ELSE idb

\* The kernel's longest C string in undefined bytes (external), cut before a
\* named address.
MaxStringLength(img, idb, ea) ==
    LET text(a) == is_mapped(idb, a) /\ byte_loaded(img, a) /\ is_unknown(idb, a)
                   /\ idb.bytes[a] \in 32 .. 126
        stop == Min({a \in ea .. image_hi(img) : ~text(a)})
        full == IF is_mapped(idb, stop) /\ is_unknown(idb, stop) /\ idb.bytes[stop] = 0
                THEN stop + 1 - ea ELSE stop - ea
    IN  Min({full} \cup {n \in 1 .. full - 1 : has_name(idb, ea + n)})

try_make_string(img, idb, ea) ==
    IF byte_loaded(img, ea) /\ MaxStringLength(img, idb, ea) >= MinStringLength
    THEN {create_item(idb, ea, MaxStringLength(img, idb, ea), "strlit", <<"C", "KERNEL">>)}
    ELSE {}

type_scalar(idb, ea, size) ==
    IF size \in {1, 2, 4, 8, 16} /\ can_create(idb, ea, size)
    THEN create_item(idb, ea, size, "scalar", <<"data">>) ELSE idb

\* A slot read as a pointer is typed from the bytes the database stores.
EnrichAccess(img, cfg, ptr_size, idb, d) ==
    LET stored == scalar_value(get_bytes(idb, d.addr, ptr_size), img.big_endian)
        is_ptr == /\ "want_ptr_refs" \in cfg
                  /\ d.kind = "read" /\ d.size = ptr_size
                  /\ is_mapped(idb, d.value) /\ byte_loaded(img, d.addr)
                  /\ can_create(idb, d.addr, ptr_size)
                  /\ stored >= MinPointer /\ stored # d.addr /\ is_mapped(idb, stored)
        offset == create_item(idb, d.addr, ptr_size, "offset", <<"ref">>)
        string == IF "want_strings" \in cfg THEN try_make_string(img, idb, d.addr) ELSE {}
    IN  IF \/ ~is_mapped(idb, d.addr) \/ ~is_unknown(idb, d.addr)
           \/ ~is_code_head(idb, d.from)
           \/ ~\E seg \in segment_at(img, d.addr) : segment_is_data(seg)
        THEN idb
        ELSE IF is_ptr
        THEN IF "want_comments" \in cfg THEN add_rpt_comment(offset, d.from, "pointer")
             ELSE offset
        ELSE IF string # {} THEN CHOOSE x \in string : TRUE
        ELSE IF "want_data_types" \in cfg THEN type_scalar(idb, d.addr, d.size)
        ELSE idb

viy_enrich(img, isa, cfg, events, ptr_size, idb) ==
    LET told == IF "want_comments" \in cfg
                THEN FoldLeft(LAMBDA d, e : CommentTransfer(isa, d, e), idb, events.edges)
                ELSE idb
    IN  FoldLeft(LAMBDA d, a : EnrichAccess(img, cfg, ptr_size, d, a), told, events.data)

-----------------------------------------------------------------------------
(* Function-level analyses.                                                *)

\* An indirect jump with two observed targets becomes a switch, unless it is
\* one already or the kernel refuses the table.
do_switch(cfg, idb, group) ==
    IF \/ Cardinality(group.targets) < 2
       \/ \E s \in idb.switches : s.jump = group.jump
       \/ "switch_ok" \notin cfg
    THEN idb
    ELSE [add_rpt_comment(idb, group.jump, "switch") EXCEPT
            !.switches = @ \cup {group},
            !.crefs = @ \cup {[from |-> group.jump, to |-> t, call |-> FALSE]
                              : t \in group.targets}]

do_switches(img, isa, cfg, func, events, idb) ==
    LET jumps  == {e \in Range(events.edges) :
                      /\ func_contains(func, e.from)
                      /\ is_mapped(idb, e.to) /\ ~is_tail(idb, e.to)
                      /\ target_is_executable(img, e.to)
                      /\ \E i \in decode_insn(idb, isa, e.from) : "JUMP" \in features(i)}
        groups == {[jump |-> j, targets |-> {e.to : e \in {f \in jumps : f.from = j}}]
                   : j \in {e.from : e \in jumps}}
    IN  FoldLeft(LAMBDA d, g : do_switch(cfg, d, g), idb,
                 SetToSortSeq(groups, LAMBDA g, h : g.jump < h.jump))

\* The bytes a callee pops beyond the return address, if every run agrees.
do_purge(cfg, ptr_size, start, sp_delta, idb) ==
    LET known == {f \in func_at(idb, start) : f.purged = 0}
        purge == {d - ptr_size : d \in sp_delta}
    IN  IF /\ {"want_purge", "X86_32"} \subseteq cfg
           /\ \E p \in purge : p > 0 /\ p <= 512 /\ p % ptr_size = 0
        THEN [idb EXCEPT !.funcs = (@ \ known) \cup
                {[f EXCEPT !.purged = CHOOSE p \in purge : TRUE] : f \in known}]
        ELSE idb

do_noret(cfg, start, corroborated, idb) ==
    LET returning == {f \in func_at(idb, start) : ~f.noret}
        told      == IF "want_comments" \in cfg THEN add_rpt_comment(idb, start, "noret")
                     ELSE idb
    IN  IF \/ cfg \cap {"want_noret", "set_noret"} = {} \/ ~corroborated \/ returning = {}
        THEN idb
        ELSE IF "set_noret" \in cfg
        THEN [told EXCEPT !.funcs = (@ \ returning) \cup
                {[f EXCEPT !.noret = TRUE] : f \in returning}]
        ELSE told

\* Argument registers an instruction reads and writes, in this guest.
ArgUse(i) == IF i.op \in {"storearg", "jz"} THEN {1} ELSE {}

ArgChange(i) == IF i.op = "args" THEN DOMAIN i.args ELSE {}

\* Reads before writes along one path from the entry: straight on, or to the
\* only in-function successor of an instruction that does not fall through;
\* a call or a revisit ends the walk, a return does not.
argregs_walk(isa, func, idb) ==
    LET sole(ea) == {x.to : x \in {c \in idb.crefs : c.from = ea /\ func_contains(func, c.to)}}
        step(w, k) ==
            LET i    == CHOOSE i \in decode_insn(idb, isa, w.ea) : TRUE
                next == IF "STOP" \in features(i) /\ i.op # "ret"
                        THEN IF Cardinality(sole(w.ea)) = 1 THEN sole(w.ea) ELSE {}
                        ELSE {w.ea + 1}
            IN  IF \/ w.done \/ w.ea \in w.visited \/ ~func_contains(func, w.ea)
                   \/ decode_insn(idb, isa, w.ea) = {}
                THEN [w EXCEPT !.done = TRUE]
                ELSE [ea |-> IF next = {} THEN w.ea ELSE CHOOSE n \in next : TRUE,
                      visited |-> w.visited \cup {w.ea},
                      found |-> w.found \cup (ArgUse(i) \ w.written),
                      written |-> w.written \cup ArgChange(i),
                      done |-> IsCall(i) \/ next = {}]
    IN  FoldLeft(step, [ea |-> func.start, visited |-> {}, found |-> {}, written |-> {},
                        done |-> FALSE], [k \in 1 .. MaxWalk |-> k]).found

do_argregs(isa, cfg, func, idb) ==
    IF {"want_argregs", "want_comments"} \subseteq cfg /\ argregs_walk(isa, func, idb) # {}
    THEN add_rpt_comment(idb, func.start, "argregs") ELSE idb

\* A reached two-way branch of which exactly one side was ever reached.
do_opaque(isa, cfg, func, reached, idb) ==
    LET target(ea) == {x.to : x \in {c \in idb.crefs : c.from = ea}}
        opaque == {ea \in reached :
                     /\ func_contains(func, ea) /\ is_code_head(idb, ea)
                     /\ \E i \in decode_insn(idb, isa, ea) :
                           features(i) \cap {"STOP", "CALL"} = {}
                     /\ target(ea) # {}
                     /\ LET T == Min(target(ea))
                        IN  T # ea + 1 /\ (T \in reached) # (ea + 1 \in reached)}
    IN  IF "want_opaque" \in cfg
        THEN FoldLeft(LAMBDA d, ea : add_rpt_comment(d, ea, "opaque"), idb,
                      SetToSortSeq(opaque, <))
        ELSE idb

viy_advanced(img, isa, cfg, func, events, ptr_size, sp_delta, noret, idb) ==
    LET d1 == IF "want_switch" \in cfg THEN do_switches(img, isa, cfg, func, events, idb)
              ELSE idb
        d2 == do_purge(cfg, ptr_size, func.start, sp_delta, d1)
        d3 == do_noret(cfg, func.start, noret, d2)
        d4 == do_argregs(isa, cfg, func, d3)
    IN  do_opaque(isa, cfg, func, events.exec_pcs, d4)
=============================================================================
