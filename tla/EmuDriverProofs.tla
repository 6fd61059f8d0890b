-------------------------- MODULE EmuDriverProofs --------------------------
(***************************************************************************)
(* Proofs about a run under the driver's hooks, for every program, every   *)
(* table of call summaries and every budget.  Nothing is assumed of guest  *)
(* values: registers, memory and the arguments of a summary are whatever   *)
(* the guest left in them.                                                 *)
(***************************************************************************)
EXTENDS EmuDriver, SequenceTheorems, TLAPS

\* A sequence, whatever its elements are.
IsSequence(q) == q \in Seq(Range(q))

\* The fields of the driver's records that the budgets depend on.
HookFields == {"c", "e", "o", "stop"}
ContextFields == {"heap_cursor", "icount_start", "count_limit", "resumptions"}
EventFields == {"edges", "data"}

\* What holds of a run, context, engine and events: the heap cursor is within
\* the modelled heap, and the event lists are within their caps.
RunOK(c, e, o) ==
    /\ ContextFields \subseteq DOMAIN c
    /\ "icount" \in DOMAIN e
    /\ EventFields \subseteq DOMAIN o
    /\ c.heap_cursor \in HeapLo .. HeapHi
    /\ IsSequence(o.edges) /\ Len(o.edges) <= MaxInsns
    /\ IsSequence(o.data) /\ Len(o.data) <= MaxInsns

HookOK(s) == HookFields \subseteq DOMAIN s /\ RunOK(s.c, s.e, s.o)

\* What no hook touches: the instruction counter, and the run's limits.
SameLimits(s, t) ==
    /\ t.e.icount = s.e.icount
    /\ t.c.icount_start = s.c.icount_start
    /\ t.c.count_limit = s.c.count_limit
    /\ t.c.resumptions = s.c.resumptions

Keeps(s, t) == HookOK(t) /\ SameLimits(s, t)

\* The budgets of the current run, and of the runs the job has made.
DriverInv ==
    /\ RunOK(ctx, engine, out)
    /\ engine.icount \in Nat /\ ctx.icount_start \in Nat /\ ctx.resumptions \in Nat
    /\ phase \in {"loop", "running", "ending"} =>
          /\ ctx.icount_start <= engine.icount
          /\ engine.icount <= ctx.icount_start + MaxInsns
          /\ ctx.resumptions <= MaxResumptions + 1
    /\ phase = "running" => ctx.count_limit = ctx.icount_start + MaxInsns
    /\ {"runs"} \subseteq DOMAIN result
    /\ IsSequence(result.runs)
    /\ \A r \in Range(result.runs) :
          Len(r.events.edges) <= MaxInsns /\ Len(r.events.data) <= MaxInsns

-----------------------------------------------------------------------------
(* Lemmas about sequences and records.                                     *)

\* A list that grows by one element.
LEMMA RangeOfAppend ==
    ASSUME NEW q, IsSequence(q), NEW j
    PROVE  /\ IsSequence(Append(q, j))
           /\ Range(Append(q, j)) \subseteq Range(q) \cup {j}
           /\ Len(q) \in Nat /\ Len(Append(q, j)) = Len(q) + 1
  <1>1. PICK S : S = Range(q) \cup {j}
    BY Zenon
  <1>2. PICK R : R = Range(q)
    OBVIOUS
  <1>3. q \in Seq(S)
    BY <1>1, <1>2, SMTT(30) DEF IsSequence
  <1>4. j \in S
    BY <1>1, Zenon
  <1>5. PICK t : t = Append(q, j)
    BY Zenon
  <1>6. t \in Seq(S) /\ Len(t) = Len(q) + 1
    BY <1>3, <1>4, <1>5, AppendProperties, Zenon
  <1>7. Len(q) \in Nat
    BY <1>3, LenProperties, Zenon
  <1>8. t \in Seq(Range(t)) /\ Range(t) \subseteq S
    BY <1>6, SeqOfRange, RangeOfSeq, Zenon
  <1> QED
    BY <1>1, <1>5, <1>6, <1>7, <1>8, Zenon DEF IsSequence

\* A list that loses its head.
LEMMA RangeOfTail ==
    ASSUME NEW q, IsSequence(q), q # <<>>
    PROVE  /\ Head(q) \in Range(q)
           /\ IsSequence(Tail(q))
           /\ Range(Tail(q)) \subseteq Range(q)
  <1>1. PICK S : S = Range(q)
    OBVIOUS
  <1>2. Head(q) \in S /\ Tail(q) \in Seq(S)
    BY <1>1, HeadTailProperties, Zenon DEF IsSequence
  <1>3. PICK t : t = Tail(q)
    BY Zenon
  <1> QED
    BY <1>1, <1>2, <1>3, SeqOfRange, RangeOfSeq, Zenon DEF IsSequence

\* The empty list.
LEMMA EmptyList == IsSequence(<<>>) /\ Len(<<>>) = 0 /\ Range(<<>>) = {}
  BY DEF IsSequence, Range

-----------------------------------------------------------------------------
(* The engine: what an instruction or a memory write does to the counter.  *)

\* e and f are records with the same fields and the same counter.
LEMMA WriteKeepsCounter ==
    ASSUME NEW e, "icount" \in DOMAIN e, NEW addr, NEW bytes
    PROVE  /\ DOMAIN mem_write(e, addr, bytes) = DOMAIN e
           /\ mem_write(e, addr, bytes).icount = e.icount
  BY DEF mem_write

\* An instruction retires and counts once, or faults and does not count.
LEMMA ExecuteCounts ==
    ASSUME NEW e, "icount" \in DOMAIN e, e.icount \in Nat, NEW i, NEW big_endian
    PROVE  LET x == Execute(e, i, big_endian)
           IN  /\ DOMAIN x.engine = DOMAIN e
               /\ x.engine.icount \in {e.icount, e.icount + 1}
  <1> DEFINE Counts(x) == /\ DOMAIN x.engine = DOMAIN e
                          /\ x.engine.icount \in {e.icount, e.icount + 1}
  <1>1. \A f, pc, accesses :
           DOMAIN f = DOMAIN e /\ f.icount = e.icount
           => Counts(Retired(f, pc, accesses))
    BY Zenon DEF Retired
  <1>2. \A reason : Counts(Stopped(e, reason))
    BY DEF Stopped
  <1>3. \A f, pc, accesses, stop :
           DOMAIN f = DOMAIN e /\ f.icount = e.icount
           => Counts([Retired(f, pc, accesses) EXCEPT !.stop = stop])
    BY Zenon DEF Retired
  <1>4. \A addr, bytes : Counts(Store(e, addr, bytes))
    BY <1>1, <1>2, WriteKeepsCounter, SMTT(30) DEF Store
  <1>5. \A addr, size : Counts(Load(e, addr, size, big_endian))
    <2>1. \A v : LET f == [e EXCEPT !.ret = v]
                 IN  DOMAIN f = DOMAIN e /\ f.icount = e.icount
      OBVIOUS
    <2> QED BY <2>1, <1>1, <1>2, SMTT(30) DEF Load
  <1>6. \A value, pc : Counts(Push(e, value, pc, big_endian))
    <2>1. \A addr, bytes, v :
             LET f == [mem_write(e, addr, bytes) EXCEPT !.sp = v]
             IN  DOMAIN f = DOMAIN e /\ f.icount = e.icount
      BY WriteKeepsCounter
    <2> QED BY <2>1, <1>1, <1>2, SMTT(30) DEF Push
  <1>7. \A pop : Counts(Return(e, pop, big_endian))
    <2>1. \A v : LET f == [e EXCEPT !.sp = v]
                 IN  DOMAIN f = DOMAIN e /\ f.icount = e.icount
      OBVIOUS
    <2> QED BY <2>1, <1>1, <1>2, SMTT(30) DEF Return
  <1>8. \A args, pc : Counts(Retired([e EXCEPT !.args = args], pc, <<>>))
    BY <1>1
  <1>9. \A pc : /\ Counts(Retired(e, pc, <<>>))
                /\ Counts([Retired(e, pc, <<>>) EXCEPT !.stop = {"hlt"}])
    BY <1>1, <1>3
  <1> HIDE DEF Counts
  <1>10. Counts(Execute(e, i, big_endian))
    BY <1>4, <1>5, <1>6, <1>7, <1>8, <1>9, Zenon DEF Execute, Call
  <1> QED BY <1>10 DEF Counts

-----------------------------------------------------------------------------
(* Call summaries.                                                         *)

\* What a summary leaves: the counter as it was, a cursor inside the heap.
SoundEffect(e, heap, f) ==
    /\ DOMAIN f.e = DOMAIN e
    /\ f.e.icount = e.icount
    /\ f.heap \in HeapLo .. HeapHi

\* The effect of a summary that allocates nothing.
LEMMA EffectIsSound ==
    ASSUME NEW e, "icount" \in DOMAIN e, NEW heap \in HeapLo .. HeapHi,
           NEW accesses, NEW value, NEW addr, NEW bytes
    PROVE  /\ \A f \in Effect(e, accesses, value, heap) : SoundEffect(e, heap, f)
           /\ \A f \in Effect(mem_write(e, addr, bytes), accesses, value, heap) :
                 SoundEffect(e, heap, f)
  BY WriteKeepsCounter DEF Effect, SoundEffect

\* allocate_summary moves the cursor forward by whole units, and only when
\* what is left of the heap is enough.
LEMMA AllocateStaysInHeap ==
    ASSUME NEW e, "icount" \in DOMAIN e, NEW heap \in HeapLo .. HeapHi,
           NEW size, NEW zeroed
    PROVE  \A f \in allocate_summary(e, heap, size, zeroed) : SoundEffect(e, heap, f)
  <1>1. PICK n \in Nat : n = IF size \in 1 .. MaxModelBytes THEN size ELSE 0
    BY BudgetAssumption
  <1>2. PICK q : q = (n + HeapAlign - 1) \div HeapAlign
    OBVIOUS
  <1>3. q \in Nat
    BY <1>2, BudgetAssumption
  <1>4. PICK aligned : aligned = q * HeapAlign
    OBVIOUS
  <1>5. aligned \in Nat
    BY <1>3, <1>4, BudgetAssumption, SMTT(30)
  <1>6. PICK zeros : zeros = [i \in 1 .. n |-> 0]
    BY Zenon
  <1>7. allocate_summary(e, heap, size, zeroed) =
           IF n = 0 \/ aligned > HeapHi - heap THEN Effect(e, <<>>, 0, heap)
           ELSE IF zeroed
           THEN Effect(mem_write(e, heap, zeros), <<Access("write", heap, zeros)>>,
                       heap, heap + aligned)
           ELSE Effect(e, <<>>, heap, heap + aligned)
    BY <1>1, <1>2, <1>4, <1>6, Zenon DEF allocate_summary
  <1>8. ~(aligned > HeapHi - heap) => heap + aligned \in HeapLo .. HeapHi
    BY <1>5, BudgetAssumption, SMTT(30)
  <1>9. CASE n = 0 \/ aligned > HeapHi - heap
    BY <1>7, <1>9, EffectIsSound, Zenon
  <1>10. CASE ~(n = 0 \/ aligned > HeapHi - heap)
    <2>1. PICK h \in HeapLo .. HeapHi : h = heap + aligned
      BY <1>8, <1>10
    <2>2. \A f : SoundEffect(e, h, f) <=> SoundEffect(e, heap, f)
      BY DEF SoundEffect
    <2> QED BY <1>7, <1>10, <2>1, <2>2, EffectIsSound, SMTT(30)
  <1> QED BY <1>9, <1>10

\* Every summary: of the others, some write memory and none moves the cursor.
LEMMA SummariesStayInHeap ==
    ASSUME NEW kind, NEW e, "icount" \in DOMAIN e, NEW heap \in HeapLo .. HeapHi
    PROVE  \A f \in SummaryEffect(kind, e, heap) : SoundEffect(e, heap, f)
  <1> DEFINE Sound(effects) == \A f \in effects : SoundEffect(e, heap, f)
  <1>1. \A dst, src, n : Sound(copy_summary(e, heap, dst, src, n))
    BY EffectIsSound, Zenon DEF copy_summary
  <1>2. \A dst, value, n : Sound(set_summary(e, heap, dst, value, n))
    BY EffectIsSound, Zenon DEF set_summary
  <1>3. ASSUME NEW dst, NEW src PROVE Sound(strcpy_summary(e, heap, dst, src))
    <2> SUFFICES ASSUME NEW f \in strcpy_summary(e, heap, dst, src)
                 PROVE  SoundEffect(e, heap, f)
      OBVIOUS
    <2>1. PICK bytes : f \in Effect(mem_write(e, dst, bytes),
                                    <<Access("read", src, bytes), Access("write", dst, bytes)>>,
                                    dst, heap)
      BY Zenon DEF strcpy_summary
    <2> QED BY <2>1, EffectIsSound
  <1>4. ASSUME NEW dst, NEW src, NEW n PROVE Sound(strncpy_summary(e, heap, dst, src, n))
    <2> SUFFICES ASSUME NEW f \in strncpy_summary(e, heap, dst, src, n)
                 PROVE  SoundEffect(e, heap, f)
      OBVIOUS
    <2>1. \/ f \in Effect(e, <<>>, dst, heap)
          \/ \E bytes, accesses :
                f \in Effect(mem_write(e, dst, bytes), accesses, dst, heap)
      BY Zenon DEF strncpy_summary
    <2> QED BY <2>1, EffectIsSound, Zenon
  <1>5. \A size, zeroed : Sound(allocate_summary(e, heap, size, zeroed))
    BY AllocateStaysInHeap
  <1>6. Sound(Effect(e, <<>>, 0, heap))
    BY EffectIsSound, Zenon
  <1>7. ASSUME NEW a PROVE Sound(EffectOf(kind, e, heap, a))
    <2>1. CASE kind = "STRLEN"
      <3>1. EffectOf(kind, e, heap, a) =
              {[e |-> e, accesses |-> <<Access("read", a[1], x)>>,
                value |-> Len(x) - 1, heap |-> heap] : x \in read_c_string(e, a[1])}
        BY <2>1 DEF EffectOf
      <3> QED BY <3>1 DEF SoundEffect
    <2>2. CASE kind = "STRCMP"
      <3>1. EffectOf(kind, e, heap, a) =
              {[e |-> e, heap |-> heap,
                value |-> CompareResult(x, y) % 256 ^ PtrSize,
                accesses |-> <<Access("read", a[1], x), Access("read", a[2], y)>>]
               : x \in read_c_string(e, a[1]), y \in read_c_string(e, a[2])}
        BY <2>2 DEF EffectOf
      <3> QED BY <3>1 DEF SoundEffect
    <2>3. CASE kind = "CALLOCATE"
      <3>1. PICK size : size = IF a[1] * a[2] < 256 ^ PtrSize THEN a[1] * a[2] ELSE 0
        OBVIOUS
      <3>2. EffectOf(kind, e, heap, a) = allocate_summary(e, heap, size, TRUE)
        BY <2>3, <3>1, SMTT(30) DEF EffectOf
      <3> QED BY <3>2, <1>5, Zenon
    <2>4. CASE kind = "ALLOCATE"
      <3>1. EffectOf(kind, e, heap, a) = allocate_summary(e, heap, a[1], FALSE)
        BY <2>4 DEF EffectOf
      <3> QED BY <3>1, <1>5, Zenon
    <2>5. CASE kind \in {"MEMCPY", "MEMMOVE"}
      <3>1. EffectOf(kind, e, heap, a) = copy_summary(e, heap, a[1], a[2], a[3])
        <4>1. CASE kind = "MEMCPY"
          BY <4>1 DEF EffectOf
        <4>2. CASE kind = "MEMMOVE"
          BY <4>2, SMTT(30) DEF EffectOf
        <4> QED BY <2>5, <4>1, <4>2, SMTT(30)
      <3> QED BY <3>1, <1>1, SMTT(30)
    <2>6. CASE kind = "MEMSET"
      <3>1. EffectOf(kind, e, heap, a) = set_summary(e, heap, a[1], a[2], a[3])
        BY <2>6 DEF EffectOf
      <3> QED BY <3>1, <1>2
    <2>7. CASE kind = "STRCPY"
      <3>1. EffectOf(kind, e, heap, a) = strcpy_summary(e, heap, a[1], a[2])
        BY <2>7 DEF EffectOf
      <3> QED BY <3>1, <1>3, SMTT(30)
    <2>8. CASE kind = "STRNCPY"
      <3>1. EffectOf(kind, e, heap, a) = strncpy_summary(e, heap, a[1], a[2], a[3])
        BY <2>8 DEF EffectOf
      <3> QED BY <3>1, <1>4, SMTT(30)
    <2>9. CASE kind \notin {"STRLEN", "STRCMP", "CALLOCATE", "ALLOCATE", "MEMCPY",
                            "MEMMOVE", "MEMSET", "STRCPY", "STRNCPY"}
      <3>1. EffectOf(kind, e, heap, a) = Effect(e, <<>>, 0, heap)
        <4>1. /\ kind # "STRLEN" /\ kind # "STRCMP" /\ kind # "CALLOCATE"
              /\ kind # "ALLOCATE" /\ kind # "MEMSET" /\ kind # "STRCPY"
              /\ kind # "STRNCPY" /\ ~(kind \in {"MEMCPY", "MEMMOVE"})
          BY <2>9
        <4> HIDE <2>9
        <4> QED BY <4>1 DEF EffectOf
      <3> QED BY <3>1, <1>6, SMTT(30)
    <2> QED BY <2>1, <2>2, <2>3, <2>4, <2>5, <2>6, <2>7, <2>8, <2>9, SMTT(30)
  <1> HIDE DEF Sound
  <1> QED BY <1>7, Zenon DEF SummaryEffect, Sound

-----------------------------------------------------------------------------
(* The hooks.                                                              *)

\* Hooks that follow one another.
LEMMA KeepsComposes ==
    ASSUME NEW s, NEW t, NEW u, Keeps(s, t), Keeps(t, u)
    PROVE  Keeps(s, u)
  BY DEF Keeps, SameLimits

\* A hook may replace a part of the state that no budget is about.
LEMMA KeepsOthers ==
    ASSUME NEW s, HookOK(s), NEW v
    PROVE  /\ Keeps(s, s)
           /\ Keeps(s, [s EXCEPT !.stop = v])
           /\ Keeps(s, [s EXCEPT !.c.sequence = v])
           /\ Keeps(s, [s EXCEPT !.c.summary_source = v])
           /\ Keeps(s, [s EXCEPT !.o.execution = v])
           /\ Keeps(s, [s EXCEPT !.o.exec_pcs = v])
           /\ Keeps(s, [s EXCEPT !.e.exit = v])
  BY DEF HookOK, RunOK, Keeps, SameLimits, HookFields, ContextFields, EventFields

\* The engine can be exchanged for one with the same counter, and the heap
\* cursor for one in the heap.
LEMMA KeepsEngine ==
    ASSUME NEW s, HookOK(s), NEW e, DOMAIN e = DOMAIN s.e, e.icount = s.e.icount
    PROVE  /\ Keeps(s, [s EXCEPT !.e = e])
           /\ \A heap \in HeapLo .. HeapHi :
                 Keeps(s, [s EXCEPT !.e = e, !.c.heap_cursor = heap])
  BY DEF HookOK, RunOK, Keeps, SameLimits, HookFields, ContextFields, EventFields

\* record_access appends one access, and none when the list is full.
LEMMA AccessKeeps ==
    ASSUME NEW s, HookOK(s), NEW from, NEW access, NEW big_endian
    PROVE  Keeps(s, record_access(s, from, access, big_endian))
  <1>1. PICK d : d = DataAcc(s.c, from, access,
              CHOOSE x \in access_scope(access.addr, Len(access.bytes)) : TRUE, big_endian)
    BY Zenon
  <1>2. PICK data : data = Append(s.o.data, d)
    BY Zenon
  <1>3. \/ record_access(s, from, access, big_endian) = s
        \/ /\ Len(s.o.data) < MaxInsns
           /\ record_access(s, from, access, big_endian)
                = [s EXCEPT !.o.data = data, !.c.sequence = @ + 1]
    BY <1>1, <1>2, SMTT(30) DEF record_access
  <1>4. IsSequence(data) /\ Len(s.o.data) \in Nat /\ Len(data) = Len(s.o.data) + 1
    BY <1>2, RangeOfAppend, SMTT(30) DEF HookOK, RunOK
  <1>5. CASE Len(s.o.data) < MaxInsns
    <2>1. Len(data) <= MaxInsns
      BY <1>4, <1>5, BudgetAssumption, SMTT(30)
    <2>2. Keeps(s, [s EXCEPT !.o.data = data, !.c.sequence = @ + 1])
      BY <1>4, <2>1 DEF HookOK, RunOK, Keeps, SameLimits, HookFields, ContextFields, EventFields
    <2> QED BY <1>3, <2>2, KeepsOthers, Zenon
  <1> QED BY <1>3, <1>5, KeepsOthers, Zenon

\* record_edge appends one edge, and none when the list is full.
LEMMA EdgeKeeps ==
    ASSUME NEW s, HookOK(s), NEW addr, NEW sequence
    PROVE  Keeps(s, record_edge(s, addr, sequence))
  <1> DEFINE p == CHOOSE x \in s.c.prev : TRUE
             decoded == loaded_view(image, isa, p.pc)
             edge == [from |-> p.pc, to |-> addr,
                      kind |-> IF decoded = {} THEN "Unknown"
                               ELSE FlowKind(CHOOSE i \in decoded : TRUE),
                      sequence |-> sequence, run_id |-> s.c.run_id, seed |-> s.c.seed]
             states == IF Len(s.o.edges) >= MaxStates THEN {}
                       ELSE {[source |-> p.pc, pc |-> addr,
                              run_id |-> s.c.run_id, seed |-> s.c.seed,
                              regs |-> <<s.e.ret, s.e.sp>> \o s.e.args]}
  <1>1. \/ record_edge(s, addr, sequence) = s
        \/ /\ Len(s.o.edges) < MaxInsns
           /\ record_edge(s, addr, sequence)
                = [s EXCEPT !.o.edges = Append(@, edge), !.o.states = @ \cup states]
    BY Zenon DEF record_edge
  <1> HIDE DEF edge, states
  <1>2. ASSUME Len(s.o.edges) < MaxInsns
        PROVE  Keeps(s, [s EXCEPT !.o.edges = Append(@, edge),
                                  !.o.states = @ \cup states])
    <2>1. PICK edges : edges = Append(s.o.edges, edge)
      BY Zenon
    <2>2. IsSequence(edges) /\ Len(s.o.edges) \in Nat /\ Len(edges) = Len(s.o.edges) + 1
      BY <2>1, RangeOfAppend, SMTT(30) DEF HookOK, RunOK
    <2>3. Len(edges) <= MaxInsns
      BY <1>2, <2>2, BudgetAssumption, SMTT(30)
    <2> QED
      BY <2>1, <2>2, <2>3, Zenon
         DEF HookOK, RunOK, Keeps, SameLimits, HookFields, ContextFields, EventFields
  <1> QED BY <1>1, <1>2, KeepsOthers, Zenon

\* A summary that returns rewrites registers and asks for a resumption.
LEMMA SummaryReturnKeeps ==
    ASSUME NEW s, HookOK(s), NEW value
    PROVE  Keeps(s, summary_return(s, value))
  <1>1. PICK e : e = [s.e EXCEPT !.ret = value]
    BY Zenon
  <1>2. DOMAIN e = DOMAIN s.e /\ e.icount = s.e.icount
    BY <1>1 DEF HookOK, RunOK
  <1>3. PICK f : f = [e EXCEPT !.sp = @ + PtrSize, !.pc = read_word(e, e.sp, be)]
    OBVIOUS
  <1>4. DOMAIN f = DOMAIN s.e /\ f.icount = s.e.icount
    BY <1>2, <1>3, SMTT(30) DEF HookOK, RunOK
  <1>5. \/ summary_return(s, value) = [s EXCEPT !.e = e]
        \/ summary_return(s, value)
             = [s EXCEPT !.e = f, !.c.summary_resume = TRUE,
                         !.c.summarized_calls = @ + 1, !.stop = TRUE]
    BY <1>1, <1>3, Zenon DEF summary_return
  <1>6. Keeps(s, [s EXCEPT !.e = f, !.c.summary_resume = TRUE,
                           !.c.summarized_calls = @ + 1, !.stop = TRUE])
    BY <1>4, Zenon DEF HookOK, RunOK, Keeps, SameLimits, HookFields, ContextFields, EventFields
  <1>7. Keeps(s, [s EXCEPT !.e = e])
    BY <1>2, KeepsEngine, Zenon
  <1> QED BY <1>5, <1>6, <1>7, Zenon

\* A call summary spends no instruction, stays in the heap and within the cap.
LEMMA SummaryKeeps ==
    ASSUME NEW s, HookOK(s), NEW summary
    PROVE  Keeps(s, apply_summary(s, summary))
  <1>1. Keeps(s, [s EXCEPT !.c.terminated_process = TRUE,
                           !.c.summarized_calls = @ + 1, !.stop = TRUE])
    BY Zenon DEF HookOK, RunOK, Keeps, SameLimits, HookFields, ContextFields, EventFields
  <1>2. PICK effects : effects = SummaryEffect(summary.kind, s.e, s.c.heap_cursor)
    OBVIOUS
  <1>3. ASSUME NEW f \in effects
        PROVE  Keeps(s, summary_return(record_summary_accesses(
                          [s EXCEPT !.e = f.e, !.c.heap_cursor = f.heap], f.accesses),
                        f.value))
    <2>1. SoundEffect(s.e, s.c.heap_cursor, f)
      BY <1>2, SummariesStayInHeap DEF HookOK, RunOK
    <2>2. PICK t : t = [s EXCEPT !.e = f.e, !.c.heap_cursor = f.heap]
      OBVIOUS
    <2>3. Keeps(s, t)
      BY <2>1, <2>2, KeepsEngine, Zenon DEF SoundEffect
    <2>4. \A u, access : HookOK(u) => Keeps(u, record_summary_access(u, access))
      BY AccessKeeps DEF record_summary_access
    <2>5. PICK first : first = IF f.accesses = <<>> THEN t
                               ELSE record_summary_access(t, f.accesses[1])
      OBVIOUS
    <2>6. Keeps(t, first)
      BY <2>3, <2>4, <2>5, KeepsOthers, Zenon DEF Keeps
    <2>7. PICK both : both = IF Len(f.accesses) < 2 THEN first
                             ELSE record_summary_access(first, f.accesses[2])
      OBVIOUS
    <2>8. Keeps(first, both)
      BY <2>4, <2>6, <2>7, KeepsOthers, Zenon DEF Keeps
    <2>9. both = record_summary_accesses(t, f.accesses)
      BY <2>5, <2>7 DEF record_summary_accesses
    <2>10. Keeps(s, both)
      BY <2>3, <2>6, <2>8, KeepsComposes, Zenon
    <2>11. Keeps(both, summary_return(both, f.value))
      BY <2>10, SummaryReturnKeeps DEF Keeps
    <2> QED BY <2>2, <2>9, <2>10, <2>11, KeepsComposes, Zenon
  <1>4. PICK f : effects # {} => f \in effects /\ f = CHOOSE x \in effects : TRUE
    OBVIOUS
  <1> QED
    BY <1>1, <1>2, <1>3, <1>4, KeepsOthers, Zenon DEF apply_summary

\* The code hook.
LEMMA CodeHookKeeps ==
    ASSUME NEW s, HookOK(s), NEW addr
    PROVE  Keeps(s, code_tr(s, addr))
  <1>1. Keeps(s, [s EXCEPT !.c.permission_violation = TRUE, !.stop = TRUE])
    BY DEF HookOK, RunOK, Keeps, SameLimits, HookFields, ContextFields, EventFields
  <1>2. PICK s1 : s1 = [s EXCEPT !.c.sequence = @ + 1]
    BY Zenon
  <1>3. PICK s2 : s2 = record_edge(s1, addr, s.c.sequence)
    OBVIOUS
  <1>4. PICK s3 : s3 = record_execution(s2, addr, s.c.sequence)
    OBVIOUS
  <1>5. PICK s4 : s4 = record_pc(s3, addr)
    OBVIOUS
  <1>6. PICK s5 : s5 = [s4 EXCEPT !.c.summary_source =
                          IF s.c.prev = {} THEN addr
                          ELSE (CHOOSE p \in s.c.prev : TRUE).pc]
    BY Zenon
  <1>7. PICK s6 : s6 = IF find_summary(addr) = {} THEN s5
                       ELSE apply_summary(s5, CHOOSE x \in find_summary(addr) : TRUE)
    BY Zenon
  <1>8. code_tr(s, addr) \in {[s EXCEPT !.c.permission_violation = TRUE, !.stop = TRUE],
                              enter_instruction(s6, addr)}
    BY <1>2, <1>3, <1>4, <1>5, <1>6, <1>7, SMTT(30) DEF code_tr
  <1>9. Keeps(s, s1)
    BY <1>2, KeepsOthers, Zenon
  <1>10. Keeps(s, s2)
    <2>1. Keeps(s1, s2)
      BY <1>3, <1>9, EdgeKeeps, SMTT(30) DEF Keeps
    <2> QED BY <1>9, <2>1, KeepsComposes, SMTT(30)
  <1>11. Keeps(s, s3)
    <2>1. Keeps(s2, s3)
      BY <1>4, <1>10, KeepsOthers, Zenon DEF Keeps, record_execution
    <2> QED BY <1>10, <2>1, KeepsComposes
  <1>12. Keeps(s, s4)
    <2>1. Keeps(s3, s4)
      BY <1>5, <1>11, KeepsOthers, Zenon DEF Keeps, record_pc
    <2> QED BY <1>11, <2>1, KeepsComposes
  <1>13. Keeps(s, s5)
    <2>1. Keeps(s4, s5)
      BY <1>6, <1>12, KeepsOthers, Zenon DEF Keeps
    <2> QED BY <1>12, <2>1, KeepsComposes
  <1>14. Keeps(s, s6)
    <2>1. Keeps(s5, s6)
      BY <1>7, <1>13, KeepsOthers, SummaryKeeps, Zenon DEF Keeps
    <2> QED BY <1>13, <2>1, KeepsComposes
  <1>15. Keeps(s, enter_instruction(s6, addr))
    <2>1. Keeps(s6, enter_instruction(s6, addr))
      BY <1>14, Zenon
         DEF enter_instruction, HookOK, RunOK, Keeps, SameLimits, HookFields, ContextFields,
                   EventFields
    <2> QED BY <1>14, <2>1, KeepsComposes, SMTT(30)
  <1> QED BY <1>1, <1>8, <1>15, SMTT(30)

\* The memory hook.
LEMMA MemoryHookKeeps ==
    ASSUME NEW s, HookOK(s), NEW access
    PROVE  Keeps(s, mem_tr(s, access))
  <1>1. PICK e : e = IF access.kind = "write"
                     THEN restore_snapshot_bytes(s.e, access.addr, Len(access.bytes))
                     ELSE s.e
    OBVIOUS
  <1>2. DOMAIN e = DOMAIN s.e /\ e.icount = s.e.icount
    BY <1>1, WriteKeepsCounter, SMTT(30) DEF restore_snapshot_bytes, HookOK, RunOK
  <1>3. Keeps(s, [s EXCEPT !.e = e, !.c.permission_violation = TRUE, !.stop = TRUE])
    BY <1>2 DEF HookOK, RunOK, Keeps, SameLimits, HookFields, ContextFields, EventFields
  <1>4. mem_tr(s, access) \in
          {s, record_access(s, s.c.last_pc, access, FALSE),
           [s EXCEPT !.e = e, !.c.permission_violation = TRUE, !.stop = TRUE]}
    BY <1>1 DEF mem_tr
  <1>5. Keeps(s, s) /\ Keeps(s, record_access(s, s.c.last_pc, access, FALSE))
    BY AccessKeeps, KeepsOthers, Zenon
  <1> QED BY <1>3, <1>4, <1>5, Zenon

\* One boundary of emu_start: the limits stay, and an instruction is counted
\* only below the limit that emu_start was given.
LEMMA BoundaryInBudget ==
    ASSUME NEW s, HookOK(s), s.e.icount \in Nat, s.c.count_limit \in Nat,
           s.e.icount <= s.c.count_limit
    PROVE  LET t == Boundary(s)
           IN  /\ HookOK(t)
               /\ t.c.icount_start = s.c.icount_start
               /\ t.c.count_limit = s.c.count_limit
               /\ t.c.resumptions = s.c.resumptions
               /\ t.e.icount \in {s.e.icount, s.e.icount + 1}
               /\ t.e.icount <= s.c.count_limit
  <1> DEFINE Fits(t) == /\ HookOK(t)
                        /\ t.c.icount_start = s.c.icount_start
                        /\ t.c.count_limit = s.c.count_limit
                        /\ t.c.resumptions = s.c.resumptions
                        /\ t.e.icount \in {s.e.icount, s.e.icount + 1}
                        /\ t.e.icount <= s.c.count_limit
  <1>1. \A t, u : Fits(t) /\ Keeps(t, u) => Fits(u)
    BY DEF Keeps, SameLimits
  <1>2. Fits(s)
    OBVIOUS
  <1>3. ASSUME NEW t, HookOK(t), NEW reason PROVE Keeps(t, Exit(t, reason))
    BY <1>3, SMTT(30)
       DEF Exit, HookOK, RunOK, Keeps, SameLimits, HookFields, ContextFields, EventFields
  <1>4. \A t, reason : Fits(t) => Fits(Exit(t, reason))
    BY <1>1, <1>3, SMTT(30)
  <1>5. PICK h : h = code_tr(s, s.e.pc)
    OBVIOUS
  <1>6. Keeps(s, h)
    BY <1>5, CodeHookKeeps, SMTT(30)
  <1>7. ASSUME NEW i, s.e.icount < s.c.count_limit PROVE Fits(Retire(h, i))
    <2>1. PICK x : x = Execute(h.e, i, be)
      OBVIOUS
    <2>2. DOMAIN x.engine = DOMAIN h.e /\ x.engine.icount \in {s.e.icount, s.e.icount + 1}
      BY <1>6, <2>1, ExecuteCounts, SMTT(30) DEF Keeps, HookOK, RunOK, SameLimits
    <2>3. PICK after : after = [h EXCEPT !.e = x.engine]
      BY Zenon
    <2>4. /\ HookOK(after) /\ after.e.icount = x.engine.icount
          /\ after.c = h.c
      BY <1>6, <2>2, <2>3, SMTT(30) DEF Keeps, HookOK, RunOK, HookFields
    <2>5. Fits(after)
      BY <1>6, <1>7, <2>2, <2>4, SMTT(30) DEF Keeps, SameLimits
    <2>6. PICK hooked : hooked = IF h.c.mem_hook /\ x.accesses # <<>>
                                 THEN mem_tr(after, Head(x.accesses)) ELSE after
      BY SMTT(30)
    <2>7. Fits(hooked)
      BY <1>1, <2>4, <2>5, <2>6, MemoryHookKeeps, SMTT(30)
    <2>8. \/ Retire(h, i) = hooked
          \/ \E reason : Retire(h, i) = Exit(hooked, reason)
      BY <2>1, <2>3, <2>6, Zenon DEF Retire
    <2> HIDE DEF Fits
    <2> QED BY <1>4, <2>7, <2>8, SMTT(30)
  <1>8. Fits(h)
    BY <1>1, <1>2, <1>6, SMTT(30)
  <1>9. \/ \E reason : Boundary(s) = Exit(s, reason)
        \/ \E reason : Boundary(s) = Exit(h, reason)
        \/ s.e.icount < s.c.count_limit /\ \E i : Boundary(s) = Retire(h, i)
    <2>1. \/ \E reason : Boundary(s) = Exit(s, reason)
          \/ \E reason : Boundary(s) = Exit(h, reason)
          \/ ~(s.e.icount >= s.c.count_limit) /\ \E i : Boundary(s) = Retire(h, i)
      BY <1>5, Zenon DEF Boundary
    <2>2. ~(s.e.icount >= s.c.count_limit) => s.e.icount < s.c.count_limit
      OBVIOUS
    <2> QED BY <2>1, <2>2, Zenon
  <1>10. Fits(Boundary(s))
    <2> HIDE DEF Fits
    <2> QED BY <1>2, <1>4, <1>7, <1>8, <1>9, SMTT(30)
  <1> QED BY <1>10, SMTT(30)

-----------------------------------------------------------------------------
(* The steps of a job.                                                     *)

\* Preparing a run writes memory and registers, not the counter.
LEMMA PreparedKeepsCounter ==
    ASSUME NEW e, "icount" \in DOMAIN e, NEW r
    PROVE  /\ DOMAIN Prepared(e, r) = DOMAIN e
           /\ Prepared(e, r).icount = e.icount
  <1> DEFINE Same(f) == DOMAIN f = DOMAIN e /\ f.icount = e.icount
  <1>1. Same(restore_state(e))
    BY DEF restore_state
  <1>2. \A f, addr, bytes : Same(f) => Same(mem_write(f, addr, bytes))
    BY WriteKeepsCounter
  <1>3. \A f, v : Same(f) => /\ Same([f EXCEPT !.sp = v]) /\ Same([f EXCEPT !.args = v])
                             /\ Same([f EXCEPT !.pc = v])
    OBVIOUS
  <1> HIDE DEF Same
  <1>4. PICK entry : /\ entry = [mem_write(restore_state(e), EntrySp,
                                           scalar_bytes(Sentinel, PtrSize, FALSE))
                                 EXCEPT !.sp = EntrySp]
                     /\ Same(entry)
    BY <1>1, <1>2, <1>3, Zenon
  <1>5. PICK seeded : seeded = seed_arg_regs(entry, effective_seed(r)) /\ Same(seeded)
    BY <1>3, <1>4, Zenon DEF seed_arg_regs
  <1>6. PICK given : /\ given = IF r.input = {} THEN seeded
                                ELSE apply_input(seeded, CHOOSE i \in r.input : TRUE)
                     /\ Same(given)
    <2>1. \A input : Same(apply_input(seeded, input))
      BY <1>2, <1>3, <1>5, Zenon DEF apply_input
    <2> QED BY <1>5, <2>1, Zenon
  <1>7. Same([given EXCEPT !.pc = func.start])
    BY <1>3, <1>6, Zenon
  <1>8. Prepared(e, r) = [given EXCEPT !.pc = func.start]
    BY <1>4, <1>5, <1>6, Zenon DEF Prepared
  <1> QED BY <1>7, <1>8, Zenon DEF Same

\* The runs of a result that grows by one bounded run.
LEMMA AppendRun ==
    ASSUME NEW runs, IsSequence(runs),
           \A r \in Range(runs) :
              Len(r.events.edges) <= MaxInsns /\ Len(r.events.data) <= MaxInsns,
           NEW run,
           Len(run.events.edges) <= MaxInsns, Len(run.events.data) <= MaxInsns
    PROVE  /\ IsSequence(Append(runs, run))
           /\ \A r \in Range(Append(runs, run)) :
                 Len(r.events.edges) <= MaxInsns /\ Len(r.events.data) <= MaxInsns
  <1>1. PICK all : all = Append(runs, run)
    BY Zenon
  <1>2. IsSequence(all) /\ Range(all) \subseteq Range(runs) \cup {run}
    BY <1>1, RangeOfAppend, Zenon
  <1> QED BY <1>1, <1>2, Zenon

\* A fresh context has the whole heap; a fresh event record is empty.
LEMMA NewRunFields ==
    ASSUME NEW run_id, NEW seed, NEW mem_hook, NEW icount,
           NEW c, c = NewContext(run_id, seed, mem_hook, icount), NEW o, o = NoEvents
    PROVE  /\ ContextFields \subseteq DOMAIN c
           /\ c.heap_cursor \in HeapLo .. HeapHi
           /\ c.icount_start = icount /\ c.resumptions = 0
           /\ EventFields \subseteq DOMAIN o
           /\ o.edges = <<>> /\ o.data = <<>>
  BY BudgetAssumption DEF NewContext, NoEvents, ContextFields, EventFields

\* A new result has made no run.
LEMMA NewResultRuns ==
    ASSUME NEW start, NEW status, NEW audit
    PROVE  LET r == NewResult(start, status, audit)
           IN  "runs" \in DOMAIN r /\ r.runs = <<>>
  BY DEF NewResult

\* A worker starts within its budgets.
LEMMA DriverInitInv ==
    ASSUME NEW img, NEW i, NEW s, DriverInit(img, i, s)
    PROVE  DriverInv
  <1>1. "icount" \in DOMAIN engine /\ engine.icount = 0
    BY DEF DriverInit, NewEngine
  <1>2. /\ ContextFields \subseteq DOMAIN ctx /\ ctx.heap_cursor \in HeapLo .. HeapHi
        /\ ctx.icount_start = 0 /\ ctx.resumptions = 0
        /\ EventFields \subseteq DOMAIN out /\ out.edges = <<>> /\ out.data = <<>>
    <2>1. out = NoEvents /\ \E mem_hook : ctx = NewContext(0, 0, mem_hook, 0)
      BY Zenon DEF DriverInit
    <2> QED BY <2>1, NewRunFields
  <1>3. "runs" \in DOMAIN result /\ result.runs = <<>> /\ phase = "done"
    BY NewResultRuns DEF DriverInit
  <1>4. RunOK(ctx, engine, out)
    <2>1. IsSequence(out.edges) /\ IsSequence(out.data)
      BY <1>2, EmptyList, Zenon
    <2>2. Len(out.edges) <= MaxInsns /\ Len(out.data) <= MaxInsns
      BY <1>2, EmptyList, BudgetAssumption, SMTT(30)
    <2> QED BY <1>1, <1>2, <2>1, <2>2, SMTT(30) DEF RunOK
  <1>5. IsSequence(result.runs) /\ Range(result.runs) = {}
    BY <1>3, EmptyList, Zenon
  <1> QED BY <1>1, <1>2, <1>3, <1>4, <1>5, SMTT(30) DEF DriverInv

\* Between runs a job only takes requests, or finishes: the runs it has made
\* stay as they are.
LEMMA SameRuns ==
    ASSUME DriverInv, UNCHANGED <<engine, ctx, out>>,
           "runs" \in DOMAIN result', result'.runs \in {<<>>, result.runs},
           phase' \in {"idle", "done"}
    PROVE  DriverInv'
  <1>1. RunOK(ctx, engine, out)'
    BY DEF DriverInv
  <1>2. /\ IsSequence(result.runs)'
        /\ (\A r \in Range(result.runs) :
              Len(r.events.edges) <= MaxInsns /\ Len(r.events.data) <= MaxInsns)'
    BY EmptyList, Zenon DEF DriverInv
  <1> QED BY <1>1, <1>2, SMTT(30) DEF DriverInv

\* execute starts with no run.
LEMMA ExecuteInv ==
    ASSUME DriverInv, NEW f, NEW rs, NEW audit, execute(f, rs, audit)
    PROVE  DriverInv'
  <1>1. "runs" \in DOMAIN result' /\ result'.runs = <<>>
    BY NewResultRuns, Zenon DEF execute
  <1>2. UNCHANGED <<engine, ctx, out>> /\ phase' \in {"idle", "done"}
    BY DEF execute
  <1> QED BY <1>1, <1>2, SameRuns, SMTT(30)

\* A run that begins gets a fresh context on the same engine.
LEMMA BeginRunInv ==
    ASSUME DriverInv, BeginRun
    PROVE  DriverInv'
  <1>1. PICK p : p = Prepared(engine, Head(requests))
    OBVIOUS
  <1>2. DOMAIN p = DOMAIN engine /\ p.icount = engine.icount
    BY <1>1, PreparedKeepsCounter, SMTT(30) DEF DriverInv, RunOK
  <1>3. \E hooks : engine' = [p EXCEPT !.hooks = hooks]
    BY <1>1, Zenon DEF BeginRun
  <1>4. "icount" \in DOMAIN engine' /\ engine'.icount = engine.icount
    BY <1>2, <1>3, SMTT(30) DEF DriverInv, RunOK
  <1>5. /\ ContextFields \subseteq DOMAIN ctx' /\ ctx'.heap_cursor \in HeapLo .. HeapHi
        /\ ctx'.icount_start = engine.icount /\ ctx'.resumptions = 0
        /\ EventFields \subseteq DOMAIN out' /\ out'.edges = <<>> /\ out'.data = <<>>
    <2>1. out' = NoEvents /\ \E run_id, seed, mem_hook :
                                ctx' = NewContext(run_id, seed, mem_hook, engine.icount)
      BY Zenon DEF BeginRun
    <2> QED BY <2>1, NewRunFields, SMTT(30)
  <1>6. RunOK(ctx, engine, out)'
    <2>1. IsSequence(out'.edges) /\ IsSequence(out'.data)
      BY <1>5, EmptyList, Zenon
    <2>2. Len(out'.edges) <= MaxInsns /\ Len(out'.data) <= MaxInsns
      BY <1>5, EmptyList, BudgetAssumption, SMTT(30)
    <2> QED BY <1>4, <1>5, <2>1, <2>2, SMTT(30) DEF RunOK
  <1>7. phase' = "loop" /\ result' = result
    BY DEF BeginRun
  <1> QED BY <1>4, <1>5, <1>6, <1>7, BudgetAssumption, SMTT(30) DEF DriverInv

\* A resumption gets what is left of the budget, and there are only so many.
LEMMA LoopTopInv ==
    ASSUME DriverInv, LoopTop
    PROVE  DriverInv'
  <1>1. CASE ctx.resumptions > MaxResumptions \/ Used >= MaxInsns
    <2>1. phase' = "ending" /\ UNCHANGED <<ctx, engine, out, result>>
      BY <1>1 DEF LoopTop
    <2> QED BY <2>1 DEF DriverInv, RunOK, LoopTop
  <1>2. CASE ~(ctx.resumptions > MaxResumptions \/ Used >= MaxInsns)
    <2>1. /\ phase' = "running" /\ UNCHANGED <<engine, out, result>>
          /\ ctx' = [ctx EXCEPT !.summary_resume = FALSE, !.resumptions = @ + 1,
                                !.count_limit = engine.icount + (MaxInsns - Used)]
      BY <1>2 DEF LoopTop
    <2>2. /\ DOMAIN ctx' = DOMAIN ctx /\ ctx'.heap_cursor = ctx.heap_cursor
          /\ ctx'.icount_start = ctx.icount_start
          /\ ctx'.resumptions = ctx.resumptions + 1
          /\ ctx'.count_limit = engine.icount + (MaxInsns - Used)
      BY <2>1 DEF DriverInv, RunOK, ContextFields
    <2>3. RunOK(ctx, engine, out)'
      BY <2>1, <2>2, SMTT(30) DEF DriverInv, RunOK
    <2>4. /\ ctx.icount_start <= engine.icount
          /\ engine.icount <= ctx.icount_start + MaxInsns
      BY DEF LoopTop, DriverInv
    <2>5. /\ ctx'.resumptions \in Nat /\ ctx'.resumptions <= MaxResumptions + 1
          /\ ctx'.count_limit = ctx'.icount_start + MaxInsns
      BY <1>2, <2>2, BudgetAssumption, SMTT(30) DEF DriverInv, Used
    <2> QED BY <2>1, <2>2, <2>3, <2>4, <2>5, SMTT(30) DEF DriverInv
  <1> QED BY <1>1, <1>2, SMTT(30)

\* A time-out ends the run where it is.
LEMMA TimeOutInv ==
    ASSUME DriverInv, TimeOut
    PROVE  DriverInv'
  <1>1. /\ phase \in {"loop", "running"} /\ phase' = "ending"
        /\ UNCHANGED <<ctx, out, result>>
    BY DEF TimeOut
  <1>2. "icount" \in DOMAIN engine' /\ engine'.icount = engine.icount
    BY DEF TimeOut, DriverInv, RunOK
  <1>3. RunOK(ctx, engine, out)'
    BY <1>1, <1>2, SMTT(30) DEF DriverInv, RunOK
  <1> QED BY <1>1, <1>2, <1>3, SMTT(30) DEF DriverInv

\* An instruction boundary spends at most one instruction of the budget.
LEMMA StepInv ==
    ASSUME DriverInv, Step
    PROVE  DriverInv'
  <1>1. PICK s : s = [c |-> ctx, e |-> engine, o |-> out, stop |-> FALSE]
    BY Zenon
  <1>2. /\ HookFields \subseteq DOMAIN s
        /\ s.c = ctx /\ s.e = engine /\ s.o = out
    BY <1>1, SMTT(30) DEF HookFields
  <1>3. HookOK(s)
    BY <1>2 DEF DriverInv, HookOK
  <1>4. PICK t : t = Boundary(s)
    OBVIOUS
  <1>5. /\ phase = "running" /\ phase' \in {"running", "loop", "ending"}
        /\ ctx' = t.c /\ engine' = t.e /\ out' = t.o /\ result' = result
    BY <1>1, <1>4, SMTT(30) DEF Step
  <1>6. /\ ctx.count_limit = ctx.icount_start + MaxInsns
        /\ ctx.icount_start <= engine.icount
        /\ engine.icount <= ctx.icount_start + MaxInsns
        /\ ctx.resumptions <= MaxResumptions + 1
        /\ engine.icount \in Nat /\ ctx.icount_start \in Nat /\ ctx.resumptions \in Nat
    BY <1>5, SMTT(30) DEF DriverInv
  <1>7. /\ HookOK(t)
        /\ t.c.icount_start = ctx.icount_start
        /\ t.c.count_limit = ctx.count_limit
        /\ t.c.resumptions = ctx.resumptions
        /\ t.e.icount \in {engine.icount, engine.icount + 1}
        /\ t.e.icount <= ctx.count_limit
    BY <1>2, <1>3, <1>4, <1>6, BoundaryInBudget, BudgetAssumption, SMTT(30)
  <1>8. RunOK(ctx, engine, out)'
    BY <1>5, <1>7, SMTT(30) DEF HookOK
  <1> QED BY <1>5, <1>6, <1>7, <1>8, BudgetAssumption, SMTT(30) DEF DriverInv

\* A run that ends hands over what it recorded, and only that.
LEMMA EndRunInv ==
    ASSUME DriverInv, EndRun
    PROVE  DriverInv'
  <1>1. /\ phase' = "idle" /\ ctx' = ctx
        /\ engine' = [engine EXCEPT !.hooks = {}]
        /\ out' = [out EXCEPT !.final_writes =
                     capture_final_writes(engine, out.data, ctx.run_id, ctx.seed)]
    BY Zenon DEF EndRun
  <1>2. PICK run, merged :
          /\ result' = [result EXCEPT !.runs = Append(@, run), !.merged = merged]
          /\ run = [run_id |-> ctx.run_id, seed |-> ctx.seed, ran |-> TRUE,
                    events |-> out', outcome |-> EmuOutcome(ctx, engine)]
    BY Zenon DEF EndRun
  <1>3. out'.edges = out.edges /\ out'.data = out.data /\ DOMAIN out' = DOMAIN out
    BY <1>1 DEF DriverInv, RunOK, EventFields
  <1>4. "icount" \in DOMAIN engine' /\ engine'.icount = engine.icount
    BY <1>1 DEF DriverInv, RunOK
  <1>5. RunOK(ctx, engine, out)'
    BY <1>1, <1>3, <1>4, SMTT(30) DEF DriverInv, RunOK
  <1>6. "runs" \in DOMAIN result' /\ result'.runs = Append(result.runs, run)
    BY <1>2 DEF DriverInv
  <1>7. Len(run.events.edges) <= MaxInsns /\ Len(run.events.data) <= MaxInsns
    BY <1>2, <1>3, SMTT(30) DEF DriverInv, RunOK
  <1>8. /\ IsSequence(result'.runs)
        /\ \A r \in Range(result'.runs) :
              Len(r.events.edges) <= MaxInsns /\ Len(r.events.data) <= MaxInsns
    BY <1>6, <1>7, AppendRun, SMTT(30) DEF DriverInv
  <1> QED BY <1>1, <1>4, <1>5, <1>6, <1>8, SMTT(30) DEF DriverInv

\* A run that could not be prepared adds an empty one.
LEMMA RunFailsInv ==
    ASSUME DriverInv, RunFails
    PROVE  DriverInv'
  <1>1. phase' = "done" /\ UNCHANGED <<ctx, out>>
    BY DEF RunFails
  <1>2. "icount" \in DOMAIN engine' /\ engine'.icount = engine.icount
    <2>1. engine' \in {engine, Prepared(engine, Head(requests))}
      BY DEF RunFails
    <2> QED BY <2>1, PreparedKeepsCounter DEF DriverInv, RunOK
  <1>3. RunOK(ctx, engine, out)'
    BY <1>1, <1>2, SMTT(30) DEF DriverInv, RunOK
  <1>4. PICK run : run = [run_id |-> effective_run(Head(requests)),
                          seed |-> effective_seed(Head(requests)), ran |-> FALSE,
                          events |-> NoEvents, outcome |-> NoOutcome]
    BY Zenon
  <1>5. result' = [result EXCEPT !.status = "FAILED", !.merged = normalize(@),
                                 !.runs = Append(@, run)]
    BY <1>4 DEF RunFails
  <1>6. "runs" \in DOMAIN result' /\ result'.runs = Append(result.runs, run)
    BY <1>5, SMTT(30) DEF DriverInv
  <1>7. run.events.edges = <<>> /\ run.events.data = <<>>
    BY <1>4, SMTT(30) DEF NoEvents
  <1>8. Len(run.events.edges) <= MaxInsns /\ Len(run.events.data) <= MaxInsns
    BY <1>7, EmptyList, BudgetAssumption, SMTT(30)
  <1>9. /\ IsSequence(result'.runs)
        /\ \A r \in Range(result'.runs) :
              Len(r.events.edges) <= MaxInsns /\ Len(r.events.data) <= MaxInsns
    BY <1>6, <1>8, AppendRun DEF DriverInv
  <1> QED BY <1>1, <1>2, <1>3, <1>6, <1>9, SMTT(30) DEF DriverInv

\* Every step of the worker.
LEMMA WorkerStepInv ==
    ASSUME DriverInv, WorkerStep
    PROVE  DriverInv'
  <1>1. ASSUME NEW status, Finish(status), UNCHANGED <<engine, ctx, out>>
        PROVE  DriverInv'
    <2>1. /\ result' = [result EXCEPT !.status = status, !.merged = normalize(@)]
          /\ phase' = "done"
      BY <1>1 DEF Finish
    <2>2. "runs" \in DOMAIN result' /\ result'.runs = result.runs
      BY <2>1 DEF DriverInv
    <2> QED BY <1>1, <2>1, <2>2, SameRuns, SMTT(30)
  <1>2. CASE CancelJob
    BY <1>1, <1>2, SMTT(30) DEF CancelJob
  <1>3. CASE FinishJob
    BY <1>1, <1>3, SMTT(30) DEF FinishJob
  <1>4. CASE CancelAudit
    <2>1. "runs" \in DOMAIN result' /\ result'.runs = result.runs
      BY <1>4, SMTT(30) DEF CancelAudit, DriverInv
    <2>2. UNCHANGED <<engine, ctx, out>> /\ phase' = "done"
      BY <1>4, SMTT(30) DEF CancelAudit
    <2> QED BY <2>1, <2>2, SameRuns, SMTT(30)
  <1> QED
    BY <1>2, <1>3, <1>4, RunFailsInv, BeginRunInv, LoopTopInv, TimeOutInv, StepInv, EndRunInv,
       SMTT(30)
       DEF WorkerStep

-----------------------------------------------------------------------------
(* The decoder audit in the result of a job.                              *)

\* A new result holds the audit it is given.
LEMMA NewResultFields ==
    ASSUME NEW start, NEW status, NEW audit
    PROVE  /\ {"status", "decoder_audit"} \subseteq DOMAIN NewResult(start, status, audit)
           /\ NewResult(start, status, audit).decoder_audit = audit
           /\ NewResult(start, status, audit).status = status
  BY DEF NewResult

\* A step of the worker keeps the audit or drops it, and ends the job, if at
\* all, with a status.
LEMMA WorkerKeepsAudit ==
    ASSUME "status" \in DOMAIN result, "decoder_audit" \in DOMAIN result, WorkerStep
    PROVE  /\ DOMAIN result' = DOMAIN result
           /\ result'.decoder_audit \in {result.decoder_audit, {}}
           /\ result'.status \in {result.status, "CANCELLED", "COMPLETED", "FAILED"}
  <1>1. ASSUME NEW status \in {"CANCELLED", "COMPLETED"}, Finish(status)
        PROVE  /\ DOMAIN result' = DOMAIN result
               /\ result'.decoder_audit = result.decoder_audit
               /\ result'.status = status
    BY <1>1, SMTT(30) DEF Finish
  <1>2. CASE CancelJob
    BY <1>1, <1>2, Zenon DEF CancelJob
  <1>3. CASE CancelAudit
    <2>1. result' = [result EXCEPT !.status = "CANCELLED", !.decoder_audit = {}]
      BY <1>3, Zenon DEF CancelAudit
    <2> QED
      BY <2>1
  <1>4. CASE FinishJob
    BY <1>1, <1>4, Zenon DEF FinishJob
  <1>5. CASE RunFails
    <2>1. PICK merged, rs : result' = [result EXCEPT !.status = "FAILED", !.merged = merged,
                                                     !.runs = rs]
      BY <1>5, Zenon DEF RunFails
    <2> QED
      BY <2>1
  <1>6. CASE BeginRun \/ LoopTop \/ TimeOut \/ Step
    <2>1. result' = result
      BY <1>6, Zenon DEF BeginRun, LoopTop, TimeOut, Step
    <2> QED
      BY <2>1
  <1>7. CASE EndRun
    <2>1. PICK rs, merged : result' = [result EXCEPT !.runs = rs, !.merged = merged]
      BY <1>7, Zenon DEF EndRun
    <2> QED
      BY <2>1
  <1> QED
    BY <1>2, <1>3, <1>4, <1>5, <1>6, <1>7, Zenon DEF WorkerStep
=============================================================================
