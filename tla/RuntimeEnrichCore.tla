------------------------- MODULE RuntimeEnrichCore --------------------------
(***************************************************************************)
(* The IDA-free policy over final memory observations                       *)
(* (runtime_enrich_core.cpp): grouping of equal writes, conflicts between   *)
(* runs, write-before-execute correlation, and the recognition of strings.  *)
(* An observation is [addr, bytes, scope, run_id, seed].  A decoder returns *)
(* a set of at most one result.                                             *)
(***************************************************************************)
EXTENDS ProgramModel

CONSTANTS
    MinimumCharacters,      \* options.minimum_characters
    MaxCandidateBytes,      \* options.max_candidate_bytes
    MaxCandidatesPerWrite   \* options.max_candidates_per_write

run_key(observation) == <<observation.run_id, observation.seed>>

\* Valid Unicode that is evidence of text: no control, private-use or
\* noncharacter code point, no surrogate.
scalar_is_text(cp) ==
    \/ cp \in {9, 10, 13}
    \/ /\ cp >= 32
       /\ cp \notin 127 .. 159
       /\ cp \notin 57344 .. 63743
       /\ cp \notin 983040 .. 1048573
       /\ cp \notin 1048576 .. 1114109
       /\ cp \notin 64976 .. 65007
       /\ cp % 65536 < 65534
       /\ cp <= 1114111
       /\ cp \notin 55296 .. 57343

append_utf8(cp) ==
    CASE cp <= 127   -> <<cp>>
      [] cp \in 128 .. 2047 -> <<192 + (cp \div 64), 128 + (cp % 64)>>
      [] cp \in 2048 .. 65535 ->
           <<224 + (cp \div 4096), 128 + ((cp \div 64) % 64), 128 + (cp % 64)>>
      [] OTHER ->
           <<240 + (cp \div 262144), 128 + ((cp \div 4096) % 64),
             128 + ((cp \div 64) % 64), 128 + (cp % 64)>>

read_u16(bytes, i, be) == scalar_value(SubSeq(bytes, i, i + 1), be)

\* A word past 2^24 is beyond Unicode and beyond every length limit: it is
\* cut to one value that is both, to stay inside TLC's integers.
read_u32(bytes, i, be) ==
    LET word == SubSeq(bytes, i, i + 3)
        top  == IF be THEN word[1] ELSE word[4]
    IN  IF top # 0 THEN 16777216 ELSE scalar_value(word, be)

\* The payload of a lead byte and how many continuation bytes follow it.
Utf8Lead(b) ==
    CASE b < 128         -> {[cp |-> b, extra |-> 0]}
      [] b \in 194 .. 223 -> {[cp |-> b % 32, extra |-> 1]}
      [] b \in 224 .. 239 -> {[cp |-> b % 16, extra |-> 2]}
      [] b \in 240 .. 244 -> {[cp |-> b % 8, extra |-> 3]}
      [] OTHER            -> {}

\* Code points of a payload all of which is text, or nothing.
LongEnough(decoded) == {cps \in decoded : Len(cps) >= MinimumCharacters}

\* Mutant: continuation bytes are not checked.
AcceptAnyContinuation(bytes) ==
    LET n == Len(bytes)
        from[i \in 1 .. n + 1] ==
            IF i = n + 1 THEN {<<>>}
            ELSE UNION {
              LET rest == SubSeq(bytes, i + 1, i + lead.extra)
                  cp   == FoldLeft(LAMBDA v, b : 64 * v + (b % 64), lead.cp, rest)
              IN  IF i + lead.extra <= n /\ scalar_is_text(cp)
                  THEN {<<cp>> \o tail : tail \in from[i + lead.extra + 1]} ELSE {}
              : lead \in Utf8Lead(bytes[i])}
    IN  LongEnough(from[1])

decode_utf8_exact(bytes) ==
    LET n == Len(bytes)
        from[i \in 1 .. n + 1] ==
            IF i = n + 1 THEN {<<>>}
            ELSE UNION {
              LET rest == SubSeq(bytes, i + 1, i + lead.extra)
                  cp   == FoldLeft(LAMBDA v, b : 64 * v + (b % 64), lead.cp, rest)
              IN  IF /\ i + lead.extra <= n
                     /\ \A b \in Range(rest) : b \in 128 .. 191
                     /\ lead.extra = 2 => cp >= 2048
                     /\ lead.extra = 3 => cp >= 65536
                     /\ scalar_is_text(cp)
                  THEN {<<cp>> \o tail : tail \in from[i + lead.extra + 1]}
                  ELSE {}
              : lead \in Utf8Lead(bytes[i])}
    IN  LongEnough(from[1])

\* A high surrogate takes the low surrogate after it; a lone one is refused.
decode_utf16_exact(bytes, be) ==
    LET n == Len(bytes)
        from[i \in 1 .. n + 1] ==
            IF i = n + 1 THEN {<<>>}
            ELSE LET first  == read_u16(bytes, i, be)
                     paired == first \in 55296 .. 56319
                     second == IF i + 3 <= n THEN read_u16(bytes, i + 2, be) ELSE 0
                     cp     == IF paired
                               THEN 65536 + 1024 * (first - 55296) + (second - 56320)
                               ELSE first
                 IN  IF /\ paired => second \in 56320 .. 57343
                        /\ scalar_is_text(cp)
                     THEN {<<cp>> \o tail : tail \in from[i + (IF paired THEN 4 ELSE 2)]}
                     ELSE {}
    IN  IF n = 0 \/ n % 2 # 0 THEN {} ELSE LongEnough(from[1])

decode_utf32_exact(bytes, be) ==
    LET n   == Len(bytes)
        cps == [k \in 1 .. n \div 4 |-> read_u32(bytes, 4 * k - 3, be)]
    IN  IF n = 0 \/ n % 4 # 0 \/ \E k \in DOMAIN cps : ~scalar_is_text(cps[k])
        THEN {} ELSE LongEnough({cps})

\* The strict decoding of a payload whose unit is width bytes.
decode_exact(bytes, width, be) ==
    CASE width = 1 -> decode_utf8_exact(bytes)
      [] width = 2 -> decode_utf16_exact(bytes, be)
      [] width = 4 -> decode_utf32_exact(bytes, be)

encoding_of(width, cps, be) ==
    CASE width = 1 -> IF \A k \in DOMAIN cps : cps[k] < 128 THEN "ASCII" ELSE "UTF8"
      [] width = 2 -> IF be THEN "UTF16_BE" ELSE "UTF16_LE"
      [] width = 4 -> IF be THEN "UTF32_BE" ELSE "UTF32_LE"

assign_candidate(raw, width, be, layout, cps) ==
    [encoding |-> encoding_of(width, cps, be), layout |-> layout,
     raw |-> raw, codepoints |-> cps]

\* The payload ends at the first all-zero unit; only that unit is tried.
decode_nul(bytes, width, be) ==
    LET zeros == {k \in 0 .. (Len(bytes) \div width) - 1 :
                     \A j \in 1 .. width : bytes[width * k + j] = 0}
        size  == width * Min(zeros)
    IN  IF zeros = {} THEN {}
        ELSE UNION {{assign_candidate(SubSeq(bytes, 1, Len(payload) + width), width, be, "NUL", cps)
                     : cps \in decode_exact(payload, width, be)}
                    : payload \in {SubSeq(bytes, 1, size)}}

\* The candidate with the most characters, then the most bytes; the wider
\* encoding wins a tie.
best_nul_candidate(bytes, unicode, be) ==
    LET widths == IF unicode THEN {1, 2, 4} ELSE {1}
        found  == UNION {{[width |-> w, string |-> c] : c \in decode_nul(bytes, w, be)}
                         : w \in widths}
        Better(x, y) ==
            LET cx == Len(x.string.codepoints)
                cy == Len(y.string.codepoints)
                rx == Len(x.string.raw)
                ry == Len(y.string.raw)
            IN  \/ cx > cy
                \/ cx = cy /\ rx > ry
                \/ cx = cy /\ rx = ry /\ x.width >= y.width
    IN  {x.string : x \in {y \in found : \A z \in found : Better(y, z)}}

read_prefix(bytes, width, be) ==
    CASE width = 1 -> bytes[1]
      [] width = 2 -> read_u16(bytes, 1, be)
      [] width = 4 -> read_u32(bytes, 1, be)

checked_payload_size(units, width, prefix) ==
    units # 0 /\ units * width <= MaxCandidateBytes - prefix

\* A length prefix counts units of the encoding, in the image's byte order.
add_pascal_interpretations(bytes, prefix, layout, unicode, be) ==
    IF prefix > Len(bytes) THEN {}
    ELSE LET units == read_prefix(bytes, prefix, be)
             fits(w) == checked_payload_size(units, w, prefix)
                        /\ units * w <= Len(bytes) - prefix
             payload(w) == SubSeq(bytes, prefix + 1, prefix + units * w)
         IN  UNION {{assign_candidate(SubSeq(bytes, 1, prefix) \o payload(w), w, be, layout, cps)
                     : cps \in decode_exact(payload(w), w, be)}
                    : w \in {u \in (IF unicode THEN {1, 2, 4} ELSE {1}) : fits(u)}}

PascalLayouts == {<<1, "PASCAL8">>, <<2, "PASCAL16">>, <<4, "PASCAL32">>}

OnlyOne(all) == IF Cardinality(all) = 1 THEN all ELSE {}

\* A length-prefixed reading counts only if it is the only one.
unique_pascal_candidate(bytes, unicode, be) ==
    OnlyOne(UNION {add_pascal_interpretations(bytes, p[1], p[2], unicode, be)
                   : p \in PascalLayouts})

Unambiguous(nul, pascal) ==
    IF nul = {} THEN pascal
    ELSE IF pascal = {} \/ nul = pascal THEN nul
    ELSE {}

\* Two layouts at the same start are ambiguous unless they are the same.
SelectedCandidate(bytes, unicode, be) ==
    Unambiguous(best_nul_candidate(bytes, unicode, be),
                unique_pascal_candidate(bytes, unicode, be))

-----------------------------------------------------------------------------
(* Pointer words and the scan.  Offsets count from zero.                   *)

pointer_offsets(observation, options) ==
    {off \in 0 .. Len(observation.bytes) - options.pointer_width :
        /\ (observation.addr + off) % options.pointer_width = 0
        /\ LET value == scalar_value(
                   SubSeq(observation.bytes, off + 1, off + options.pointer_width),
                   options.big_endian)
           IN  value # 0 /\ \E r \in options.pointer_ranges : value \in r}

overlaps_pointer(observation, options, start, length) ==
    \E p \in pointer_offsets(observation, options) :
        p < start + length /\ start < p + options.pointer_width

\* One pass over the bytes: a recognised string is skipped whole, anything
\* else moves on by one byte.
ScanStrings(observation, options) ==
    LET n == Len(observation.bytes)
        candidates(off) ==
            IF overlaps_pointer(observation, options, off, 1) THEN {}
            ELSE UNION {{c \in SelectedCandidate(window, options.unicode, options.big_endian) :
                            ~overlaps_pointer(observation, options, off, Len(c.raw))}
                        : window \in {SubSeq(observation.bytes, off + 1,
                                             Min({off + MaxCandidateBytes, n}))}}
        scan[off \in 0 .. n, count \in 0 .. MaxCandidatesPerWrite] ==
            IF off >= n \/ count >= MaxCandidatesPerWrite THEN {}
            ELSE UNION {
              IF found = {} THEN scan[off + 1, count]
              ELSE UNION {{[addr |-> observation.addr + off, scope |-> observation.scope,
                            string |-> c]}
                          \cup scan[off + Len(c.raw), count + 1] : c \in found}
              : found \in {candidates(off)}}
    IN  scan[0, 0]

collect_string_groups(observations, options) ==
    UNION {{[key |-> k, runs |-> {x.run : x \in {y \in scanned : y.key = k}}]
            : k \in {x.key : x \in scanned}}
           : scanned \in {UNION {{[key |-> s, run |-> run_key(o)] : s \in ScanStrings(o, options)}
                                 : o \in observations}}}

-----------------------------------------------------------------------------
(* Groups of equal writes, conflicts and temporal correlation.             *)

collect_write_groups(observations) ==
    LET key(o) == [addr |-> o.addr, scope |-> o.scope, bytes |-> o.bytes]
        full   == {o \in observations : o.bytes # <<>>}
    IN  {[key |-> k, runs |-> {run_key(o) : o \in {p \in full : key(p) = k}}]
         : k \in {key(o) : o \in full}}

\* Some run ended with other bytes somewhere in the range.
range_has_conflict(observations, addr, expected, scope) ==
    \/ expected = <<>>
    \/ \E o \in observations :
         /\ o.scope = scope
         /\ \E a \in Span(addr, Len(expected)) \cap Span(o.addr, Len(o.bytes)) :
               expected[a - addr + 1] # o.bytes[a - o.addr + 1]

write_then_execute_runs(data, execution, addr, size, scope) ==
    {run_key(w) : w \in
        {d \in Range(data) :
            /\ d.kind = "write" /\ d.scope = scope
            /\ Overlap(addr, size, d.addr, d.size)
            /\ \E p \in Range(execution) :
                  /\ run_key(p) = run_key(d)
                  /\ p.sequence > d.sequence
                  /\ p.pc \in Span(addr, size)}}

read_precedes_edge(read, edge) ==
    read.kind = "read" /\ run_key(read) = run_key(edge)
    /\ read.sequence < edge.sequence
=============================================================================
