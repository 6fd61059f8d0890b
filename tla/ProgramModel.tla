---------------------------- MODULE ProgramModel ----------------------------
(***************************************************************************)
(* The immutable program snapshot that emulation and enrichment read        *)
(* (program_model.hpp, program_model_core.cpp).  An image is a record       *)
(*   segs       the segments, [start, end, perm, bytes, loaded]: perm a set *)
(*              of "X", "W", "R" (empty: the loader gave no information),   *)
(*              bytes a function on the segment, loaded the initialised     *)
(*              addresses;                                                  *)
(*   entries    the functions, [start, end, chunks];                        *)
(*   big_endian the byte order.                                             *)
(* A query that may find nothing returns a set of at most one element.      *)
(***************************************************************************)
EXTENDS Integers, Sequences, FiniteSets, SequencesExt, FiniteSetsExt

\* A half-open range of addresses.
Span(start, size) == start .. (start + size - 1)

Overlap(a, asize, b, bsize) ==
    asize # 0 /\ bsize # 0 /\ a < b + bsize /\ b < a + asize

seg_contains(seg, ea) == seg.start <= ea /\ ea < seg.end

segment_at(img, ea) == {seg \in img.segs : seg_contains(seg, ea)}

img_contains(img, ea) == segment_at(img, ea) # {}

byte_loaded(img, ea) == \E seg \in segment_at(img, ea) : ea \in seg.loaded

\* The snapshot byte; an unloaded byte reads as zero.
snapshot_byte(img, ea) ==
    IF byte_loaded(img, ea)
    THEN (CHOOSE seg \in img.segs : seg_contains(seg, ea)).bytes[ea]
    ELSE 0

has_perm(seg, required) == required \in seg.perm

executable(img, ea, allow_unknown) ==
    \E seg \in segment_at(img, ea) :
        (allow_unknown /\ seg.perm = {}) \/ has_perm(seg, "X")

image_lo(img) == Min({seg.start : seg \in img.segs})

image_hi(img) == Max({seg.end : seg \in img.segs})

func_contains(func, ea) ==
    \E chunk \in func.chunks : chunk.start <= ea /\ ea < chunk.end

\* An exact entry wins; otherwise the entry just before the address if it
\* owns it, and then the first function with a chunk around it.
function_at(img, ea) ==
    LET owners == {f \in img.entries : func_contains(f, ea)}
        below  == {f \in owners : f.start < ea
                      /\ \A g \in img.entries :
                             g.start < ea => g.start <= f.start}
    IN  IF \E f \in img.entries : f.start = ea
        THEN {f \in img.entries : f.start = ea}
        ELSE IF below # {} THEN below
        ELSE {f \in owners : \A g \in owners : f.start <= g.start}

\* The instruction the snapshot holds at an address: decoding reads loaded
\* snapshot bytes, never guest memory.
loaded_view(img, isa, ea) ==
    IF byte_loaded(img, ea) /\ snapshot_byte(img, ea) \in DOMAIN isa
    THEN {isa[snapshot_byte(img, ea)]}
    ELSE {}

\* The number a sequence of bytes denotes in a byte order, and back.
scalar_value(bytes, be) ==
    FoldLeft(LAMBDA v, b : 256 * v + b, 0,
             IF be THEN bytes ELSE Reverse(bytes))

scalar_bytes(value, size, be) ==
    [i \in 1 .. size |->
        (value \div 256 ^ (IF be THEN size - i ELSE i - 1)) % 256]
=============================================================================
