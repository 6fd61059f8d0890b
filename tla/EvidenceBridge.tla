--------------------------- MODULE EvidenceBridge ---------------------------
(***************************************************************************)
(* viy_record_emulation_evidence (evidence_bridge.cpp): the facts the       *)
(* events and outcomes of a job become.  A fact is [payload, method,        *)
(* scope]; the store itself is the module EvidenceStore.                    *)
(***************************************************************************)
EXTENDS ProgramModel

CONSTANT EvidenceValueBytes   \* eight in the code

make_evidence(func, observation, method, payload) ==
    [payload |-> payload, method |-> method,
     scope |-> [run_id |-> observation.run_id, seed |-> observation.seed,
                start |-> func.start,
                end |-> Max({func.end} \cup {c.end : c \in func.chunks})]]

cfg_kind(kind) == IF kind = "Jump" THEN "Indirect" ELSE kind

valid_image_range(img, addr, size) ==
    size # 0 /\ \E seg \in img.segs : seg_contains(seg, addr) /\ addr + size <= seg.end

\* Transfers with a known kind between two image addresses.
EdgeFacts(img, func, e) ==
    LET fact(method, rest) ==
            make_evidence(func, e, method, [source |-> e.from, target |-> e.to, kind |-> rest])
    IN  IF e.kind = "Unknown" \/ ~img_contains(img, e.from) \/ ~img_contains(img, e.to)
        THEN {}
        ELSE {fact("executed-control-transfer", e.kind),
              fact("executed-successor", "Reached"),
              fact("executed-cfg-edge", cfg_kind(e.kind))}
             \cup (IF e.kind = "Call" THEN {fact("executed-call", "Call")} ELSE {})

\* Only image addresses are facts; the value is kept when it is whole.
AccessFacts(img, func, a) ==
    IF a.scope # "IMAGE" \/ ~valid_image_range(img, a.addr, a.size) THEN {}
    ELSE {make_evidence(func, a, "memory-access",
                        [from |-> a.from, addr |-> a.addr, size |-> a.size, kind |-> a.kind])}
         \cup (IF a.size <= EvidenceValueBytes
               THEN {make_evidence(func, a, "memory-value",
                         [from |-> a.from, addr |-> a.addr, kind |-> a.kind,
                          bytes |-> scalar_bytes(a.value, a.size, img.big_endian)])}
               ELSE {})

StateFacts(func, p) ==
    {make_evidence(func, p, "transfer-target-register-state",
                   [pc |-> p.pc, reg |-> r, value |-> p.regs[r]]) : r \in DOMAIN p.regs}

\* A final range is attributed to the last recorded write of its run into it.
FinalWriteFacts(img, func, events, m) ==
    LET writers == {d \in Range(events.data) :
                      /\ d.run_id = m.run_id /\ d.seed = m.seed
                      /\ d.kind = "write" /\ d.scope = "IMAGE"
                      /\ Overlap(d.addr, d.size, m.addr, Len(m.bytes))}
        last    == {d \in writers : \A o \in writers : o.sequence <= d.sequence}
        from    == IF last = {} THEN func.start ELSE (CHOOSE d \in last : TRUE).from
    IN  IF m.scope # "IMAGE" \/ ~valid_image_range(img, m.addr, Len(m.bytes)) THEN {}
        ELSE {make_evidence(func, m, "final-written-bytes",
                            [from |-> from, addr |-> m.addr, bytes |-> m.bytes])}

StopKind(outcome) ==
    IF outcome.returned THEN "Returned"
    ELSE IF outcome.terminated_process THEN "TerminatedProcess"
    ELSE IF outcome.stop \in {{"hlt"}, {"shutdown"}} THEN "Halted"
    ELSE IF outcome.stop = {"timeout"} THEN "TimedOut"
    ELSE IF outcome.stop = {"count"} THEN "BudgetExhausted"
    ELSE IF outcome.stop = {"exception"} THEN "Faulted"
    ELSE "Unknown"

OutcomeFact(func, run) ==
    make_evidence(func, run, "function-outcome",
        [function |-> func.start, stop |-> StopKind(run.outcome),
         stop_pc |-> run.outcome.stop_pc, stack_delta |-> run.outcome.sp_delta,
         instruction_count |-> run.outcome.instruction_count])

viy_record_emulation_evidence(img, func, events, runs) ==
    (UNION {EdgeFacts(img, func, e) : e \in Range(events.edges)})
    \cup (UNION {AccessFacts(img, func, a) : a \in Range(events.data)})
    \cup (UNION {StateFacts(func, p) : p \in events.states})
    \cup (UNION {FinalWriteFacts(img, func, events, m) : m \in events.final_writes})
    \cup {OutcomeFact(func, r) : r \in {x \in Range(runs) : x.ran}}
=============================================================================
