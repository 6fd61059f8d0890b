----------------------------- MODULE MCViySweep -----------------------------
(* Instances of ViySweep for TLC. *)
EXTENDS ViySweep

Config(rax, static, native, deob) ==
    [rax |-> rax, want_static |-> static, want_native |-> native,
     want_deobf |-> deob]

RaxOnly == Config(TRUE, FALSE, FALSE, FALSE)
NativeOnly == Config(FALSE, TRUE, TRUE, TRUE)
Everything == Config(TRUE, TRUE, TRUE, TRUE)

EachAlone == {RaxOnly, NativeOnly}
Dynamic == {RaxOnly}
AllTogether == {Everything}

(* A history that holds the largest generation, and one that ends just    *)
(* below it: the allocator wraps, and steps over generation 2.            *)
RestoredAtLimits ==
    {{0, 2, MaxGeneration}, {2, MaxGeneration - 1}}
NothingRestored == {{}}
=============================================================================
