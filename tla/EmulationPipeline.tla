-------------------------- MODULE EmulationPipeline -------------------------
(***************************************************************************)
(* From a function to the database: viy_t::build_emulation_job makes a job, *)
(* a worker executes it on its engine, and viy_t::process_function, back on *)
(* the main thread, turns the result into facts and database changes while  *)
(* the user may have edited the database since the snapshot was taken.      *)
(* The order of results and the threads are EmulationWorkerPool; here one   *)
(* worker serves the jobs in turn.  The worker never reads the database, so *)
(* submissions and edits are taken between its runs only.                   *)
(***************************************************************************)
EXTENDS EmuDriver, DecoderAudit, EvidenceBridge

CONSTANTS
    Scenarios,   \* what the pipeline may start from (see Begin)
    Runs,        \* cfg.explore_runs
    SeedStep,    \* the multiplier of the seed sequence
    QueueBound,  \* jobs submitted and not yet taken by the worker
    EditBound    \* how many edits the user makes

VARIABLES
    idb,       \* the database
    facts,     \* facts handed to the evidence store
    pending,   \* functions still to be submitted, [func, cached]
    queue,     \* submitted jobs
    edits      \* edits made so far

vars == <<driver_vars, idb, facts, pending, queue, edits>>

\* Exploration runs with distinct seeds, then the entry inputs found at call
\* sites, all with distinct run identifiers.
build_emulation_job(inputs) ==
    [k \in 1 .. Runs + Len(inputs) |->
        IF k <= Runs
        THEN [run_id |-> k - 1, seed |-> IF k = 1 THEN 0 ELSE (k - 1) * SeedStep + 1,
              input |-> {}]
        ELSE [run_id |-> k - 1, seed |-> inputs[k - Runs].seed,
              input |-> {[inputs[k - Runs] EXCEPT !.run_id = k - 1]}]]

\* The main thread builds the next job; a function whose emulation is cached
\* is submitted for its decoder audit alone.
Submit ==
    /\ phase \in {"idle", "done"}
    /\ pending # <<>> /\ Len(queue) < QueueBound
    /\ queue' = Append(queue,
         [func |-> Head(pending).func,
          runs |-> IF Head(pending).cached THEN <<>> ELSE build_emulation_job(setup.inputs),
          decoder_inputs |-> IF setup.can_static
                             THEN viy_snapshot_decoder_audit(idb, isa, Head(pending).func)
                             ELSE {}])
    /\ pending' = Tail(pending)
    /\ UNCHANGED <<driver_vars, idb, facts, edits>>

TakeJob ==
    /\ result.status = "NONE" /\ queue # <<>>
    /\ execute(Head(queue).func, Head(queue).runs,
               {viy_analyze_decoder_input(image, setup.rax_isa, setup.rich, i)
                : i \in Head(queue).decoder_inputs})
    /\ queue' = Tail(queue)
    /\ UNCHANGED <<idb, facts, pending, edits>>

Work == WorkerStep /\ UNCHANGED <<idb, facts, pending, queue, edits>>

\* Function metadata changes only on outcomes that all agree.
noret_corroborated(outcomes) ==
    /\ Len(outcomes) >= MinOutcomes
    /\ \A k \in DOMAIN outcomes :
          ~outcomes[k].returned /\ definitive_terminal(outcomes[k])

sp_consensus(outcomes) ==
    IF /\ Len(outcomes) >= 2
       /\ \A k \in DOMAIN outcomes : outcomes[k].returned
                                     /\ outcomes[k].sp_delta = outcomes[1].sp_delta
    THEN outcomes[1].sp_delta ELSE {}

Outcomes ==
    LET ran == SelectSeq(result.runs, LAMBDA r : r.ran)
    IN  [k \in DOMAIN ran |-> ran[k].outcome]

\* The passes over the database, in order; the audit is checked against the
\* database as they leave it.
process_function ==
    /\ phase = "done" /\ result.status # "NONE"
    /\ \E events \in {normalize(result.merged)} :
       \E d1 \in viy_runtime_enrich(image, isa, setup.cfg, events, PtrSize,
                                    Span(StackBase, StackSize), MaxRuntimeBytes, idb) :
       \E d2 \in {viy_apply_missing(image, isa, setup.cfg, events, d1)} :
       \E d3 \in {viy_enrich(image, isa, setup.cfg, events, PtrSize, d2)} :
       \E db \in {viy_advanced(image, isa, setup.cfg, func, events, PtrSize,
                               sp_consensus(Outcomes), noret_corroborated(Outcomes), d3)} :
         LET audit == IF setup.can_static /\ result.status # "CANCELLED"
                      THEN viy_discard_stale_decoder_audit(image, db, result.decoder_audit)
                      ELSE {}
         IN  /\ facts' = facts
                  \cup viy_record_emulation_evidence(image, func, events, result.runs)
                  \cup viy_record_decoder_audit(func, audit)
             /\ idb' = viy_apply_static_decode(image, setup.cfg, audit, db)
    /\ result' = NewResult(0, "NONE", {})
    /\ UNCHANGED <<image, isa, setup, func, requests, phase, engine, ctx, out, witness,
                   pending, queue, edits>>

\* The user changes a byte, defines an item, names or comments an address.
UserEdit ==
    /\ phase \in {"idle", "done"} /\ edits < EditBound
    /\ edits' = edits + 1
    /\ \E a \in setup.edited :
         \/ idb' = patch_bytes(idb, a, <<(idb.bytes[a] + 1) % 256>>)
         \/ can_create(idb, a, 1) /\ idb' = create_item(idb, a, 1, "scalar", <<"data">>)
         \/ ~has_name(idb, a) /\ idb' = [idb EXCEPT !.names = @ \cup {a}]
         \/ ~has_rpt(idb, a) /\ idb' = set_rpt(idb, a, "user")
    /\ UNCHANGED <<driver_vars, facts, pending, queue>>

Next == Submit \/ TakeJob \/ Work \/ process_function \/ UserEdit

\* A database that agrees with the snapshot, as it does when the snapshot is
\* taken; what the kernel shows for an unloaded byte is external.
InitialDatabase(img, extra) ==
    [bytes |-> [a \in UNION {seg.start .. seg.end - 1 : seg \in img.segs} |->
                   IF byte_loaded(img, a) THEN snapshot_byte(img, a) ELSE extra.unloaded],
     items |-> {[start |-> a, size |-> 1, kind |-> "code", type |-> <<"insn">>] : a \in extra.code},
     names |-> {}, rpt |-> extra.rpt, cmt |-> {}, crefs |-> extra.crefs, drefs |-> {},
     funcs |-> {[start |-> f.start, chunks |-> f.chunks, noret |-> FALSE, purged |-> 0]
                : f \in img.entries},
     tails |-> extra.tails, planned |-> {}, switches |-> {}]

\* A scenario: the snapshot, the instruction set, the driver's set-up and
\* what else the database holds.
Begin(s) ==
    /\ DriverInit(s.image, s.isa, s.setup)
    /\ idb = InitialDatabase(s.image, s.extra)
    /\ facts = {}
    /\ pending = s.jobs
    /\ queue = <<>>
    /\ edits = 0

Init == \E s \in Scenarios : Begin(s)

Spec == Init /\ [][Next]_vars

\* A function to be submitted: its chunks are ranges of addresses.
Job == [func : [start : Nat, end : Nat, chunks : SUBSET [start : Nat, end : Nat]],
        cached : BOOLEAN]

ASSUME ScenarioAssumption == \A s \in Scenarios : s.jobs \in Seq(Job)

ASSUME WindowAssumption == AuditWindow \in Nat \ {0}

-----------------------------------------------------------------------------
(* Properties of the driver.                                               *)

\* What a run recorded, without its provenance.
Recorded(run) ==
    LET plain(s) == [k \in DOMAIN s |-> [f \in DOMAIN s[k] \ {"run_id", "seed"} |-> s[k][f]]]
    IN  <<plain(run.events.edges), plain(run.events.execution), plain(run.events.data),
          {<<w.addr, w.bytes>> : w \in run.events.final_writes},
          run.events.exec_pcs, run.outcome>>

\* emulate_from restores the whole baseline before every run and removes its
\* hooks after it: two runs of a job that start alike and are not cut short
\* record the same events and the same outcome, whatever the runs between
\* them did to memory.
RunsAreIsolated ==
    /\ phase \in {"idle", "done"} => engine.hooks = {}
    /\ \A i, j \in DOMAIN result.runs :
          /\ result.runs[i].ran /\ result.runs[j].ran
          /\ ~witness[i].timed_out /\ ~witness[j].timed_out
          /\ witness[i].entry = witness[j].entry
          => Recorded(result.runs[i]) = Recorded(result.runs[j])

\* Resumptions after call summaries share the run's instruction budget and
\* are themselves limited, the allocation summaries stay within the heap, and
\* the edges and accesses a run keeps are bounded: the loop of emulate_from,
\* apply_summary, record_edge and record_access.
RunStaysInBudget ==
    /\ ctx.heap_cursor \in HeapLo .. HeapHi
    /\ phase \in {"loop", "running", "ending"} =>
          Used <= MaxInsns /\ ctx.resumptions <= MaxResumptions + 1
    /\ \A r \in Range(result.runs) :
          Len(r.events.edges) <= MaxInsns /\ Len(r.events.data) <= MaxInsns

\* Addresses that strict permissions protect from stores.
Protected ==
    UNION {seg.start .. seg.end - 1
           : seg \in {g \in image.segs : setup.strict /\ g.perm # {} /\ ~has_perm(g, "W")}}

\* What the next instruction may write without being undone: a modelled call
\* writes through mem_write, which runs no hook; a store with a byte in no
\* segment is allowed when it starts there, and when it runs out of a segment
\* restore_snapshot_bytes returns before it restores anything.
Unguarded ==
    LET written(accesses) == UNION {Span(x.addr, Len(x.bytes))
                                    : x \in {y \in Range(accesses) : y.kind = "write"}}
        stored   == UNION {written(Execute(engine, i, be).accesses) : i \in Fetched(engine)}
        modelled == UNION {SummaryEffect(x.kind, engine, ctx.heap_cursor)
                           : x \in find_summary(engine.pc)}
    IN  (UNION {written(f.accesses) : f \in modelled})
        \cup (IF \A a \in stored : img_contains(image, a) THEN {} ELSE stored)

\* With strict permissions and the memory hook in place, a guest store into a
\* segment without write permission is undone before the next instruction and
\* reported by no run (mem_tr), the writes in Unguarded apart: protected bytes
\* keep their value or get the one of the snapshot back.
RefusedWritesLeaveNoTrace ==
    [][ctx.mem_hook /\ phase = "running" =>
          \A a \in Protected \ Unguarded :
              /\ engine'.mem[a] \in {engine.mem[a], snapshot_byte(image, a)}
              /\ \A d \in Range(out'.data) \ Range(out.data) :
                    d.kind = "write" => a \notin Span(d.addr, d.size)]_vars

\* A recorded access names the instruction that made it: the last one
\* executed before it, or, for a call summary, the call before the stub
\* (last_pc and summary_source in code_tr).
AccessesNameTheirInstruction ==
    \A d \in Range(out.data) :
        LET before == SelectSeq(out.execution, LAMBDA p : p.sequence < d.sequence)
            n      == Len(before)
        IN  /\ n > 0
            /\ IF find_summary(before[n].pc) = {} THEN d.from = before[n].pc
               ELSE n > 1 /\ d.from = before[n - 1].pc

\* The bytes a run is said to have left are the ones its recorded writes
\* leave when they are replayed in sequence order, nothing the run did not
\* write is among them, and together they fit the byte budget
\* (capture_final_writes).  Undoing a refused store also undoes what a write
\* in Unguarded left there: such a byte may be the snapshot's again.
FinalWritesReplay ==
    \A r \in Range(result.runs) :
        /\ MapThenSumSet(LAMBDA w : Len(w.bytes), r.events.final_writes)
              <= MaxRuntimeBytes
        /\ \A w \in r.events.final_writes : \A a \in Span(w.addr, Len(w.bytes)) :
              LET writes == {d \in Range(r.events.data) :
                                d.kind = "write" /\ a \in Span(d.addr, d.size)}
              IN  \E d \in writes :
                    /\ \A e \in writes : e.sequence <= d.sequence
                    /\ d.size <= ValueBytes =>
                          w.bytes[a - w.addr + 1] \in
                              {scalar_bytes(d.value, d.size, be)[a - d.addr + 1]}
                              \cup {snapshot_byte(image, b) : b \in {a} \cap Protected}

-----------------------------------------------------------------------------
(* Properties of what process_function does to the database.               *)

Processed == result.status # "NONE" /\ result'.status = "NONE"

ByteAt(w, a) == w.bytes[a - w.addr + 1]

ImageWrites(a) ==
    {w \in result.merged.final_writes :
        w.scope = "IMAGE" /\ a \in Span(w.addr, Len(w.bytes))}

Patched == {a \in DOMAIN idb.bytes : idb'.bytes[a] # idb.bytes[a]}

NewItems == idb'.items \ idb.items

\* Runs that saw a byte at an address: left it there, or read it there.
Observers(a, b) ==
    {run_key(w) : w \in {v \in ImageWrites(a) : ByteAt(v, a) = b}}
    \cup {run_key(d) : d \in
            {r \in Range(result.merged.data) :
                /\ r.kind = "read" /\ r.size <= ValueBytes /\ a \in Span(r.addr, r.size)
                /\ scalar_bytes(r.value, r.size, FALSE)[a - r.addr + 1] = b}}

\* A run that left a range with the address in it wrote there, then ran there.
ExecutedAfterWrite(a) ==
    \E w \in ImageWrites(a), p \in Range(result.merged.execution),
       d \in Range(result.merged.data) :
          /\ run_key(d) = run_key(p) /\ run_key(w) = run_key(p)
          /\ d.kind = "write" /\ d.sequence < p.sequence
          /\ Overlap(d.addr, d.size, w.addr, Len(w.bytes))
          /\ p.pc \in Span(w.addr, Len(w.bytes))

\* A byte of the database is patched only over the byte that was emulated,
\* with a value some run left there, two runs agree on and no run contradicts
\* (patch_runtime_range and the agreement its callers ask for): a user's edit
\* made while the job ran is never overwritten.  All the passes over one
\* function share one budget, also when different pairs of runs corroborate
\* different ranges.  Code is patched only when a run executed in the range
\* after writing it, not when it ran before (write_then_execute_runs).
PatchesAreCorroborated ==
    [][Processed =>
          /\ Cardinality(Patched) <=
                IF "apply_runtime_bytes" \in setup.cfg THEN MaxRuntimeBytes ELSE 0
          /\ \A a \in Patched :
                /\ idb.bytes[a] = snapshot_byte(image, a)
                /\ ImageWrites(a) # {}
                /\ \A w \in ImageWrites(a) : ByteAt(w, a) = idb'.bytes[a]
                /\ Cardinality(Observers(a, idb'.bytes[a])) >= 2
                /\ (\E seg \in segment_at(image, a) : has_perm(seg, "X")) =>
                      ExecutedAfterWrite(a)]_vars

\* Items, names and comments that are there stay (the comment an older
\* version left on a pointer table apart); items never overlap, an address
\* has one repeatable comment, and no string item swallows a named address
\* (range_is_undefined, can_create, add_rpt_comment, try_make_string).
UserWorkSurvives ==
    [][Processed =>
          /\ idb.items \subseteq idb'.items
          /\ idb.names \subseteq idb'.names
          /\ \A c \in idb.rpt \ idb'.rpt : c.text = "legacy"
          /\ \A a \in DOMAIN idb.bytes :
                /\ Cardinality(item_at(idb', a)) <= 1
                /\ Cardinality({c \in idb'.rpt : c.ea = a}) <= 1
          /\ \A i \in NewItems : i.kind = "strlit" =>
                \A a \in Span(i.start + 1, i.size - 1) : ~has_name(idb', a)]_vars

\* The code point whose bits the bytes of one character carry.
CodePoint(piece) ==
    FoldLeft(LAMBDA v, b : 64 * v + (b % 64),
             Head(piece) % (CASE Len(piece) = 1 -> 256 [] Len(piece) = 2 -> 32
                              [] Len(piece) = 3 -> 16 [] OTHER -> 8),
             Tail(piece))

Units(bytes, width) ==
    [k \in 1 .. Len(bytes) \div width |->
        scalar_value(SubSeq(bytes, width * (k - 1) + 1, width * k), FALSE)]

UnitWidth(encoding) ==
    IF encoding \in {"ASCII", "UTF8"} THEN 1
    ELSE IF encoding \in {"UTF16_LE", "UTF16_BE"} THEN 2 ELSE 4

\* One character: as the encoder writes it, a unit, or a surrogate pair.
IsCharacter(piece, width) ==
    LET units == Units(piece, width)
    IN  IF width = 1
        THEN Len(piece) <= 4 /\ scalar_is_text(CodePoint(piece))
             /\ append_utf8(CodePoint(piece)) = piece
        ELSE \/ Len(units) = 1 /\ scalar_is_text(units[1])
             \/ /\ width = 2 /\ Len(units) = 2
                /\ units[1] \in 55296 .. 56319 /\ units[2] \in 56320 .. 57343

IsText(payload, encoding) ==
    LET width == UnitWidth(encoding)
        ends  == {width * k + 1 : k \in 0 .. Len(payload) \div width}
    IN  /\ \E cuts \in SUBSET (ends \ {Len(payload) + 1}) :
              /\ 1 \in cuts /\ Cardinality(cuts) >= MinimumCharacters
              /\ \A c \in cuts :
                    IsCharacter(SubSeq(payload, c,
                        Min({d \in cuts \cup {Len(payload) + 1} : d > c}) - 1), width)
        /\ width = 1 => (encoding = "ASCII" <=> \A k \in DOMAIN payload : payload[k] < 128)

PrefixWidth(layout) ==
    CASE layout = "PASCAL8" -> 1 [] layout = "PASCAL16" -> 2 [] layout = "PASCAL32" -> 4

\* A runtime string item is exactly a string of its type: its payload is
\* text that re-encodes to the same bytes, followed by the terminating unit
\* and holding no other, or preceded by the number of its units; and no
\* aligned word inside it is a pointer into the image or the scratch region.
StringsAreExact ==
    [][Processed => \A i \in NewItems :
          i.kind = "strlit" /\ i.type[2] # "KERNEL" =>
              LET bytes == get_bytes(idb', i.start, i.size)
                  width == UnitWidth(i.type[1])
                  lead  == IF i.type[2] = "NUL" THEN 0 ELSE PrefixWidth(i.type[2])
                  trail == IF i.type[2] = "NUL" THEN width ELSE 0
                  text  == SubSeq(bytes, lead + 1, i.size - trail)
              IN  /\ IsText(text, i.type[1])
                  /\ lead = 0 => Units(SubSeq(bytes, Len(text) + 1, i.size), width) = <<0>>
                  /\ lead # 0 => width * scalar_value(SubSeq(bytes, 1, lead), FALSE) = Len(text)
                  /\ \A a \in Span(i.start, i.size - PtrSize + 1) : a % PtrSize = 0 =>
                        LET word == scalar_value(get_bytes(idb', a, PtrSize), be)
                        IN  ~img_contains(image, word)
                            /\ word \notin Span(StackBase, StackSize)]_vars

\* A function is created only at an address that no function owned and that
\* two runs entered (apply_orphan_functions), and a function is marked as not
\* returning only when no run of the job returned (noret_corroborated).
FunctionsAreCorroborated ==
    [][Processed => \A f \in idb'.funcs :
          /\ func_at(idb, f.start) = {} =>
                /\ func_owning(idb, f.start) = {}
                /\ Cardinality({run_key(e) : e \in
                      {x \in Range(result.merged.edges) : x.to = f.start}}) >= 2
          /\ f.noret /\ (\E g \in func_at(idb, f.start) : ~g.noret) =>
                \A r \in Range(result.runs) : r.ran => ~r.outcome.returned]_vars

\* The decoder audit speaks only of instructions the database still shows
\* over the bytes rax decoded, also when the user, or the enrichment of the
\* same or of an earlier function, changed them after submission; a cancelled
\* job adds no audit fact (viy_discard_stale_decoder_audit).  Where the
\* snapshot holds no byte, rax decoded nothing and nothing is compared.
AuditStep ==
    Processed => \A f \in facts' \ facts :
        "support" \in DOMAIN f =>
            /\ result.status # "CANCELLED"
            /\ is_code_head(idb', f.support)
            /\ byte_loaded(image, f.support) =>
                  idb'.bytes[f.support] = snapshot_byte(image, f.support)

AuditFactsAreCurrent == [][AuditStep]_vars
=============================================================================
