---------------------------- MODULE IdaDatabase -----------------------------
(***************************************************************************)
(* The IDA database as the enrichment passes use it.  The database and its  *)
(* kernel calls are outside the repository; what is here is what the calls  *)
(* in runtime_enrich.cpp, ref_discovery.cpp, enrich.cpp and advanced.cpp    *)
(* rely on.  A database is a record:                                        *)
(*   bytes      the current byte of every image address;                    *)
(*   items      [start, size, kind, type], kind "code", "strlit", "scalar"  *)
(*              or "offset"; addresses in no item are undefined;            *)
(*   names      addresses with a name;                                      *)
(*   rpt, cmt   repeatable and regular comments, [ea, text];                *)
(*   crefs      [from, to, call];  drefs [from, to, write];                 *)
(*   funcs      [start, chunks, noret, purged];  tails [start, end];        *)
(*   planned    addresses queued for autoanalysis;                          *)
(*   switches   [jump, targets].                                            *)
(***************************************************************************)
EXTENDS ProgramModel

item_at(idb, ea) ==
    {i \in idb.items : i.start <= ea /\ ea < i.start + i.size}

is_mapped(idb, ea) == ea \in DOMAIN idb.bytes

is_unknown(idb, ea) == item_at(idb, ea) = {}

is_head(idb, ea) == \E i \in item_at(idb, ea) : i.start = ea

is_tail(idb, ea) == \E i \in item_at(idb, ea) : i.start # ea

is_code_head(idb, ea) == \E i \in item_at(idb, ea) : i.start = ea /\ i.kind = "code"

is_strlit(idb, ea) == \E i \in item_at(idb, ea) : i.start = ea /\ i.kind = "strlit"

has_name(idb, ea) == ea \in idb.names

get_bytes(idb, ea, size) == [i \in 1 .. size |-> idb.bytes[ea + i - 1]]

mapped_range(idb, ea, size) == Span(ea, size) \subseteq DOMAIN idb.bytes

patch_bytes(idb, ea, bytes) ==
    [idb EXCEPT !.bytes = [a \in DOMAIN @ |->
        IF a \in Span(ea, Len(bytes)) THEN bytes[a - ea + 1] ELSE @[a]]]

\* An item is created over undefined bytes only.
can_create(idb, start, size) ==
    /\ size > 0 /\ mapped_range(idb, start, size)
    /\ \A a \in Span(start, size) : is_unknown(idb, a)

create_item(idb, start, size, kind, type) ==
    [idb EXCEPT !.items = @ \cup
        {[start |-> start, size |-> size, kind |-> kind, type |-> type]}]

\* The kernel decodes the current bytes; every modelled instruction is one
\* byte long.
decode_insn(idb, isa, ea) ==
    IF is_mapped(idb, ea) /\ idb.bytes[ea] \in DOMAIN isa
    THEN {isa[idb.bytes[ea]]} ELSE {}

create_insn(idb, isa, ea) ==
    IF can_create(idb, ea, 1) /\ decode_insn(idb, isa, ea) # {}
    THEN create_item(idb, ea, 1, "code", <<"insn">>) ELSE idb

IsCall(i) == i.op \in {"call", "icall"}

\* Canonical features: CF_JUMP marks an indirect jump, CF_STOP an
\* instruction that does not fall through.
features(i) ==
    (IF IsCall(i) THEN {"CALL"} ELSE {})
    \cup (IF i.op = "ijmp" THEN {"JUMP"} ELSE {})
    \cup (IF i.op \in {"jmp", "ijmp", "ret", "hlt"} THEN {"STOP"} ELSE {})

has_rpt(idb, ea) == \E c \in idb.rpt : c.ea = ea

set_rpt(idb, ea, text) == [idb EXCEPT !.rpt = @ \cup {[ea |-> ea, text |-> text]}]

func_owning(idb, ea) == {f \in idb.funcs : func_contains(f, ea)}

func_at(idb, ea) == {f \in idb.funcs : f.start = ea}

cref_exists(idb, from, to) == \E x \in idb.crefs : x.from = from /\ x.to = to

dref_exists(idb, from, to) == \E x \in idb.drefs : x.from = from /\ x.to = to
=============================================================================
