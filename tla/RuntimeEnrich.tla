--------------------------- MODULE RuntimeEnrich ----------------------------
(***************************************************************************)
(* viy_runtime_enrich (runtime_enrich.cpp): what corroborated runtime       *)
(* values may change in the database.  A pass folds over its findings with  *)
(* a state [idb, remaining]: the database and what is left of the patch     *)
(* budget.  cfg is the set of enabled options and of what the kernel does:  *)
(* "strlit_ok" when it accepts a string type and its item, "patch_ok" when  *)
(* patched bytes read back, "add_func_ok" when it makes a function.         *)
(***************************************************************************)
EXTENDS IdaDatabase, RuntimeEnrichCore

CONSTANT MaxCommentSites   \* kMaxCommentSitesPerFinding, 16 in the code

range_in_one_segment(img, start, size) ==
    {seg \in segment_at(img, start) : size # 0 /\ start + size <= seg.end}

segment_is_executable(seg) == seg.perm = {} \/ has_perm(seg, "X")

segment_is_data(seg) == seg.perm = {} \/ ~has_perm(seg, "X")

current_bytes_equal(idb, ea, bytes) ==
    mapped_range(idb, ea, Len(bytes)) /\ get_bytes(idb, ea, Len(bytes)) = bytes

\* The bytes that were emulated; an unloaded byte counts as zero.
snapshot_bytes(img, ea, size) == [i \in 1 .. size |-> snapshot_byte(img, ea + i - 1)]

\* Mutant: names inside the range are not looked at.
UndefinedButNamed(idb, ea, size) == \A a \in Span(ea, size) : is_unknown(idb, a)

range_is_undefined(idb, ea, size) ==
    \A a \in Span(ea, size) : is_unknown(idb, a) /\ ~has_name(idb, a)

add_repeatable_comment(idb, ea, text) ==
    IF has_rpt(idb, ea) THEN idb ELSE set_rpt(idb, ea, text)

writer_sites(idb, events, addr, size, scope, runs) ==
    {a.from : a \in {d \in Range(events.data) :
        /\ d.kind = "write" /\ d.scope = scope /\ run_key(d) \in runs
        /\ Overlap(addr, size, d.addr, d.size)
        /\ is_code_head(idb, d.from)}}

\* The lowest sites get the comment, unless they have one.
comment_writers(s, cfg, events, addr, size, scope, runs, text) ==
    LET sites == SetToSortSeq(writer_sites(s.idb, events, addr, size, scope, runs), <)
    IN  IF "want_comments" \in cfg
        THEN [s EXCEPT !.idb = FoldLeft(LAMBDA d, ea : add_repeatable_comment(d, ea, text),
                                        @, SubSeq(sites, 1, Min({Len(sites), MaxCommentSites})))]
        ELSE s

range_execution_observed(events, addr, size) ==
    \/ \E p \in Range(events.execution) : p.pc \in Span(addr, size)
    \/ \E pc \in events.exec_pcs : pc \in Span(addr, size)
    \/ \E x \in Range(events.edges) : x.to \in Span(addr, size)

\* What is asked before the database is looked at.
MayPatch(img, s, cfg, events, addr, bytes, scope) ==
    /\ "apply_runtime_bytes" \in cfg
    /\ scope = "IMAGE" /\ bytes # <<>>
    /\ Len(bytes) <= s.remaining
    /\ range_in_one_segment(img, addr, Len(bytes)) # {}
    /\ ~range_has_conflict(events.final_writes, addr, bytes, scope)

\* Mutant: the database is not compared with the emulated bytes.
PatchRegardless(img, s, cfg, events, addr, bytes, scope) ==
    IF ~MayPatch(img, s, cfg, events, addr, bytes, scope)
    THEN [s |-> s, ready |-> FALSE]
    ELSE IF current_bytes_equal(s.idb, addr, bytes) THEN [s |-> s, ready |-> TRUE]
    ELSE [s |-> [s EXCEPT !.idb = patch_bytes(@, addr, bytes),
                          !.remaining = @ - Len(bytes)], ready |-> TRUE]

\* Patches a corroborated value only while the database still holds the
\* emulated bytes; a value that is already there costs no budget, and neither
\* does one the kernel does not take.
patch_runtime_range(img, s, cfg, events, addr, bytes, scope) ==
    IF ~MayPatch(img, s, cfg, events, addr, bytes, scope)
    THEN [s |-> s, ready |-> FALSE]
    ELSE IF current_bytes_equal(s.idb, addr, bytes) THEN [s |-> s, ready |-> TRUE]
    ELSE IF current_bytes_equal(s.idb, addr, snapshot_bytes(img, addr, Len(bytes)))
            /\ "patch_ok" \in cfg
    THEN [s |-> [s EXCEPT !.idb = patch_bytes(@, addr, bytes),
                          !.remaining = @ - Len(bytes)],
          ready |-> TRUE]
    ELSE [s |-> s, ready |-> FALSE]

-----------------------------------------------------------------------------
(* The order of std::map keys, as sequences of numbers.                    *)

LexLess(a, b) ==
    \/ \E k \in 1 .. Min({Len(a), Len(b)}) :
          a[k] < b[k] /\ \A j \in 1 .. k - 1 : a[j] = b[j]
    \/ Len(a) < Len(b) /\ \A j \in 1 .. Len(a) : a[j] = b[j]

Rank(value, order) == CHOOSE k \in DOMAIN order : order[k] = value

ScopeOrder == <<"IMAGE", "STACK", "HEAP">>

StringOrder(k) ==
    <<Rank(k.scope, ScopeOrder), k.addr,
      Rank(k.string.encoding, <<"ASCII", "UTF8", "UTF16_LE", "UTF16_BE",
                                "UTF32_LE", "UTF32_BE">>),
      Rank(k.string.layout, <<"NUL", "PASCAL8", "PASCAL16", "PASCAL32">>)>>
    \o k.string.raw

WriteOrder(k) == <<Rank(k.scope, ScopeOrder), k.addr>> \o k.bytes

InKeyOrder(groups, Order(_)) ==
    SetToSortSeq({g \in groups : Cardinality(g.runs) >= 2},
                 LAMBDA g, h : LexLess(Order(g.key), Order(h.key)))

-----------------------------------------------------------------------------
(* Strings.                                                                *)

ScanOptions(img, cfg, pointer_width, scratch) ==
    [big_endian |-> img.big_endian, unicode |-> "want_unicode_strings" \in cfg,
     pointer_width |-> pointer_width,
     pointer_ranges |-> {seg.start .. seg.end - 1 : seg \in img.segs} \cup {scratch}]

\* A string in mutable data becomes an item; one on the stack, in the heap,
\* in code or in executed bytes is only reported at its writers.
apply_runtime_string(img, cfg, events, s, group) ==
    LET k       == group.key
        raw     == k.string.raw
        report(t) == comment_writers(t, cfg, events, k.addr, Len(raw), k.scope,
                                     group.runs, "string")
        segs    == range_in_one_segment(img, k.addr, Len(raw))
        ready   == IF current_bytes_equal(s.idb, k.addr, raw)
                   THEN [s |-> s, ready |-> TRUE]
                   ELSE patch_runtime_range(img, s, cfg, events, k.addr, raw, k.scope)
    IN  IF range_has_conflict(events.final_writes, k.addr, raw, k.scope) THEN s
        ELSE IF \/ k.scope # "IMAGE"
                \/ ~\E seg \in segs : segment_is_data(seg)
                \/ range_execution_observed(events, k.addr, Len(raw))
        THEN report(s)
        ELSE IF is_strlit(s.idb, k.addr) \/ ~range_is_undefined(s.idb, k.addr, Len(raw))
        THEN s
        ELSE IF ready.ready /\ "strlit_ok" \in cfg
        THEN [ready.s EXCEPT !.idb = create_item(@, k.addr, Len(raw), "strlit",
                                        <<k.string.encoding, k.string.layout>>)]
        ELSE report(ready.s)

apply_runtime_strings(img, cfg, events, options, s) ==
    FoldLeft(LAMBDA t, g : apply_runtime_string(img, cfg, events, t, g), s,
             IF "want_runtime_strings" \notin cfg THEN <<>>
             ELSE InKeyOrder(collect_string_groups(events.final_writes, options),
                             StringOrder))

-----------------------------------------------------------------------------
(* Self-modifying code.                                                    *)

execution_runs_for(group, events) ==
    group.runs \cap write_then_execute_runs(events.data, events.execution,
                        group.key.addr, Len(group.key.bytes), group.key.scope)

apply_smc_group(img, cfg, events, s, group) ==
    LET k        == group.key
        size     == Len(k.bytes)
        executed == execution_runs_for(group, events)
        told     == comment_writers(s, cfg, events, k.addr, size, k.scope,
                                    group.runs, "smc")
        patched  == patch_runtime_range(img, told, cfg, events, k.addr, k.bytes, k.scope)
    IN  IF \/ k.scope # "IMAGE"
           \/ ~\E seg \in range_in_one_segment(img, k.addr, size) :
                 segment_is_executable(seg)
           \/ \E a \in Span(k.addr, size) : ~byte_loaded(img, a)
           \/ snapshot_bytes(img, k.addr, size) = k.bytes
        THEN s
        ELSE IF executed # {} /\ patched.ready
        THEN [patched.s EXCEPT !.idb.planned = @ \cup Span(k.addr, size)]
        ELSE told

apply_smc(img, cfg, events, s) ==
    FoldLeft(LAMBDA t, g : apply_smc_group(img, cfg, events, t, g), s,
             IF "want_smc_evidence" \notin cfg THEN <<>>
             ELSE InKeyOrder(collect_write_groups(events.final_writes), WriteOrder))

-----------------------------------------------------------------------------
(* Pointer tables.                                                         *)

\* A pointer-wide read of an image slot, or an aligned word of a final write,
\* that holds an image address.
collect_pointer_evidence(img, events, ptr_size) ==
    LET reads  == {[slot |-> a.addr, run |-> run_key(a), write |-> FALSE, access |-> {a},
                    target |-> scalar_value(scalar_bytes(a.value, ptr_size, FALSE),
                                            img.big_endian)]
                   : a \in {d \in Range(events.data) :
                        d.kind = "read" /\ d.scope = "IMAGE" /\ d.size = ptr_size}}
        words  == UNION {{[slot |-> b.addr + off, run |-> run_key(b), write |-> TRUE,
                           access |-> {},
                           target |-> scalar_value(SubSeq(b.bytes, off + 1, off + ptr_size),
                                                   img.big_endian)]
                          : off \in {o \in 0 .. Len(b.bytes) - ptr_size :
                                        (b.addr + o) % ptr_size = 0}}
                         : b \in {w \in events.final_writes : w.scope = "IMAGE"}}
        seen   == {x \in reads \cup words :
                      img_contains(img, x.slot) /\ img_contains(img, x.target)}
        used(x) == \E a \in x.access, e \in Range(events.edges) :
                      /\ e.to = x.target /\ read_precedes_edge(a, e)
                      /\ \/ e.from = a.from
                         \/ function_at(img, a.from) \cap function_at(img, e.from) # {}
        key(x) == [slot |-> x.slot, target |-> x.target]
        of(k)  == {x \in seen : key(x) = k}
    IN  {[slot |-> k.slot, target |-> k.target, runs |-> {x.run : x \in of(k)},
          from_final_write |-> \E x \in of(k) : x.write,
          execution_correlated |-> \E x \in of(k) : used(x)]
         : k \in {key(x) : x \in seen}}

\* One target, seen by two runs, and no run ended with other bytes.
stable_pointers(img, events, ptr_size) ==
    LET all == collect_pointer_evidence(img, events, ptr_size)
    IN  {p \in all :
            /\ \A q \in all : q.slot = p.slot => q = p
            /\ Cardinality(p.runs) >= 2
            /\ ~range_has_conflict(events.final_writes, p.slot,
                    scalar_bytes(p.target, ptr_size, img.big_endian), "IMAGE")}

\* Maximal runs, in slot order, of stable slots each right after the one
\* before it; at least two long.
pointer_clusters(stable, ptr_size) ==
    LET st      == SetToSortSeq(stable, LAMBDA p, q : p.slot < q.slot)
        next(i) == i < Len(st) /\ st[i + 1].slot = st[i].slot + ptr_size
        heads   == {i \in DOMAIN st : i = 1 \/ ~next(i - 1)}
        last(i) == Min({j \in i .. Len(st) : ~next(j)})
    IN  {SubSeq(st, i, last(i)) : i \in {h \in heads : last(h) > h}}

apply_pointer_slot(img, cfg, events, ptr_size, s, p) ==
    LET bytes     == scalar_bytes(p.target, ptr_size, img.big_endian)
        undefined == range_is_undefined(s.idb, p.slot, ptr_size)
        ready     == IF current_bytes_equal(s.idb, p.slot, bytes)
                     THEN [s |-> s, ready |-> TRUE]
                     ELSE IF p.from_final_write /\ undefined
                     THEN patch_runtime_range(img, s, cfg, events, p.slot, bytes, "IMAGE")
                     ELSE [s |-> s, ready |-> FALSE]
    IN  IF ready.ready /\ undefined
        THEN [ready.s EXCEPT !.idb =
                create_item(@, p.slot, ptr_size, "offset", <<"ref">>)]
        ELSE ready.s

\* The note goes to the base; the form an earlier version left there as a
\* repeatable comment is taken away.
apply_pointer_cluster(img, cfg, events, ptr_size, s, c) ==
    LET base == c[1].slot
        size == Len(c) * ptr_size
        note == [ea |-> base,
                 text |-> <<"pointers", Len(c), Min({Cardinality(p.runs) : p \in Range(c)})>>]
        told == IF "want_comments" \in cfg
                   /\ (note \in s.idb.cmt \/ ~\E x \in s.idb.cmt : x.ea = base)
                THEN [s EXCEPT !.idb.cmt = @ \cup {note},
                               !.idb.rpt = @ \ {[ea |-> base, text |-> "legacy"]}]
                ELSE s
    IN  IF /\ \E seg \in range_in_one_segment(img, base, size) : segment_is_data(seg)
           /\ ~range_execution_observed(events, base, size)
           /\ \/ \E p \in Range(c) : executable(img, p.target, TRUE)
              \/ \E p \in Range(c) : p.execution_correlated
        THEN FoldLeft(LAMBDA t, p : apply_pointer_slot(img, cfg, events, ptr_size, t, p),
                      told, c)
        ELSE s

apply_pointer_tables(img, cfg, events, ptr_size, s) ==
    FoldLeft(LAMBDA t, c : apply_pointer_cluster(img, cfg, events, ptr_size, t, c), s,
             IF "want_tables" \notin cfg THEN <<>>
             ELSE SetToSortSeq(pointer_clusters(stable_pointers(img, events, ptr_size),
                                                ptr_size),
                               LAMBDA c, d : c[1].slot < d[1].slot))

-----------------------------------------------------------------------------
(* Functions and tails.                                                    *)

\* Mutant: one run is enough.
SingleRunEdges(events) ==
    LET keys == {[from |-> e.from, to |-> e.to] : e \in Range(events.edges)}
    IN  SetToSortSeq({[key |-> k, runs |-> {}] : k \in keys},
                     LAMBDA g, h : LexLess(<<g.key.from, g.key.to>>, <<h.key.from, h.key.to>>))

corroborated_edges(events) ==
    LET key(e) == [from |-> e.from, to |-> e.to]
        all    == {[key |-> key(e), runs |-> {run_key(f) : f \in
                       {g \in Range(events.edges) : key(g) = key(e)}}]
                   : e \in Range(events.edges)}
    IN  InKeyOrder(all, LAMBDA k : <<k.from, k.to>>)

\* The source must be an instruction of the database that still decodes.
decode_source(idb, isa, ea) ==
    IF is_code_head(idb, ea) THEN decode_insn(idb, isa, ea) ELSE {}

target_is_guarded_code(img, idb, target) ==
    /\ \E seg \in segment_at(img, target) : segment_is_executable(seg)
    /\ is_unknown(idb, target) \/ is_code_head(idb, target)

\* add_func is external: the new function owns its first instruction.
apply_orphan_function(img, isa, cfg, s, edge) ==
    LET to    == edge.key.to
        coded == IF is_unknown(s.idb, to) THEN create_insn(s.idb, isa, to) ELSE s.idb
        added == [coded EXCEPT
                    !.funcs = @ \cup {[start |-> to, noret |-> FALSE, purged |-> 0,
                                       chunks |-> {[start |-> to, end |-> to + 1]}]},
                    !.planned = @ \cup {to}]
    IN  IF \/ ~\E i \in decode_source(s.idb, isa, edge.key.from) : IsCall(i)
           \/ ~target_is_guarded_code(img, s.idb, to)
           \/ func_owning(s.idb, to) # {}
        THEN s
        ELSE IF ~is_code_head(coded, to) \/ "add_func_ok" \notin cfg
        THEN [s EXCEPT !.idb = coded]
        ELSE [s EXCEPT !.idb =
                IF "want_comments" \in cfg
                THEN add_repeatable_comment(added, edge.key.from, "orphan") ELSE added]

apply_orphan_functions(img, isa, cfg, events, s) ==
    FoldLeft(LAMBDA t, e : apply_orphan_function(img, isa, cfg, t, e), s,
             IF "want_function_recovery" \notin cfg THEN <<>>
             ELSE corroborated_edges(events))

\* Only a tail that already exists, entered at its start, is shared.
apply_tail_candidate(img, isa, cfg, s, edge) ==
    LET from   == edge.key.from
        to     == edge.key.to
        model  == function_at(img, from)
        told   == IF "want_comments" \in cfg
                  THEN [s EXCEPT !.idb = add_repeatable_comment(@, from, "tail")] ELSE s
        owners == {f \in func_owning(s.idb, from) :
                      /\ \E m \in model : m.start = f.start
                      /\ ~func_contains(f, to)}
        tails  == {t \in s.idb.tails : t.start = to /\ t.end > t.start
                                       /\ executable(img, t.end - 1, TRUE)}
    IN  IF \/ model = {} \/ \E m \in model : func_contains(m, to)
           \/ ~\E i \in decode_source(s.idb, isa, from) :
                 ~IsCall(i) /\ "STOP" \in features(i)
           \/ ~target_is_guarded_code(img, s.idb, to)
           \/ func_at(s.idb, to) # {}
        THEN s
        ELSE IF "want_tail_recovery" \notin cfg \/ owners = {} \/ tails = {} THEN told
        ELSE [told EXCEPT !.idb.funcs =
                (@ \ owners) \cup {[f EXCEPT !.chunks = @ \cup
                    {[start |-> t.start, end |-> t.end] : t \in tails}] : f \in owners}]

apply_tail_candidates(img, isa, cfg, events, s) ==
    FoldLeft(LAMBDA t, e : apply_tail_candidate(img, isa, cfg, t, e), s,
             corroborated_edges(events))

\* The whole pass, over one patch budget: the set of its one result.
viy_runtime_enrich(img, isa, cfg, events, ptr_size, scratch, budget, idb) ==
    LET s0 == [idb |-> idb,
               remaining |-> IF "apply_runtime_bytes" \in cfg THEN budget ELSE 0]
    IN  {apply_tail_candidates(img, isa, cfg, events, s4).idb : s4 \in
        {apply_orphan_functions(img, isa, cfg, events, s3) : s3 \in
        {apply_pointer_tables(img, cfg, events, ptr_size, s2) : s2 \in
        {apply_smc(img, cfg, events, s1) : s1 \in
        {apply_runtime_strings(img, cfg, events,
                               ScanOptions(img, cfg, ptr_size, scratch), s0)}}}}}
=============================================================================
