------------------------- MODULE DeobfAnalysisProofs ------------------------
(***************************************************************************)
(* The provider's epochs, for every program, every limit, every result of  *)
(* the classifiers and every set of facts the sink refuses.                *)
(***************************************************************************)
EXTENDS DeobfAnalysis, TLAPS

\* The payloads in the ledger for one epoch.
Delivered(g) == PayloadsOf({f.claim : f \in {h \in ledger : h.generation = g}})

\* The keys are the payloads the sink took in this epoch: no more, or a fact
\* would be lost, and no fewer, or one would be delivered twice.
ProviderInv ==
  /\ epoch \in Nat \ {0}
  /\ \A f \in ledger : f.generation \in 1 .. epoch
  /\ emitted = Delivered(epoch)
  /\ emitted \subseteq PayloadsOf(UNION Range(Passes))
  /\ analysed => PayloadsOf(UNION Range(Passes)) \subseteq emitted
  /\ \A f, g \in ledger :
       f.generation = g.generation /\ f.claim.payload = g.claim.payload => f = g

\* A set of pass numbers that is not empty has a least one.
LEMMA FirstPass ==
    ASSUME NEW S \in SUBSET (1 .. 6), S # {}
    PROVE  Min(S) \in S
  <1>1. \E x \in S : \A y \in S : x <= y
    <2>1. CASE 1 \in S
      BY <2>1
    <2>2. CASE 1 \notin S /\ 2 \in S
      BY <2>2
    <2>3. CASE 1 \notin S /\ 2 \notin S /\ 3 \in S
      BY <2>3
    <2>4. CASE 1 \notin S /\ 2 \notin S /\ 3 \notin S /\ 4 \in S
      BY <2>4
    <2>5. CASE 1 \notin S /\ 2 \notin S /\ 3 \notin S /\ 4 \notin S /\ 5 \in S
      BY <2>5
    <2>6. CASE 1 \notin S /\ 2 \notin S /\ 3 \notin S /\ 4 \notin S /\ 5 \notin S
      <3>1. \A y \in S : y = 6
        BY <2>6
      <3>2. 6 \in S
        BY <3>1, Zenon
      <3> QED BY <3>1, <3>2, SMTT(30)
    <2> QED BY <2>1, <2>2, <2>3, <2>4, <2>5, <2>6, SMTT(30)
  <1> QED BY <1>1, Zenon DEF Min

\* analyze_one runs six passes.
LEMMA SixPasses == DOMAIN Passes = 1 .. 6
  BY DEF Passes, analyze_one

\* The first claim of a payload is a claim of the passes and makes it.
LEMMA FirstClaimMakes ==
    ASSUME NEW passes, DOMAIN passes = 1 .. 6,
           NEW p \in PayloadsOf(UNION Range(passes))
    PROVE  FirstClaim(passes, p).payload = p
  <1> DEFINE makers(k) == {c \in passes[k] : c.payload = p}
             with == {k \in DOMAIN passes : makers(k) # {}}
  <1>1. with # {}
    <2>1. PICK c \in UNION Range(passes) : c.payload = p
      BY Zenon DEF PayloadsOf
    <2>2. PICK k \in DOMAIN passes : c \in passes[k]
      BY <2>1, Zenon DEF Range
    <2>3. c \in makers(k)
      BY <2>1, <2>2, Zenon
    <2> QED BY <2>2, <2>3, Zenon
  <1>2. Min(with) \in with
    <2>1. with \in SUBSET (1 .. 6)
      BY Zenon
    <2> HIDE DEF with
    <2> QED BY <1>1, <2>1, FirstPass, Zenon
  <1>3. PICK m : m = Min(with)
    BY Zenon
  <1>4. makers(m) # {}
    BY <1>2, <1>3, Zenon
  <1>5. FirstClaim(passes, p) = CHOOSE c \in makers(m) : TRUE
    BY <1>3, Zenon DEF FirstClaim
  <1>6. FirstClaim(passes, p) \in makers(m)
    BY <1>4, <1>5, Zenon
  <1> QED BY <1>6, Zenon

\* The fresh claims make exactly the payloads that were not emitted, one claim
\* each.
LEMMA FreshPayloads ==
    ASSUME NEW passes, DOMAIN passes = 1 .. 6, NEW keys
    PROVE  /\ PayloadsOf(FreshClaims(passes, keys)) = PayloadsOf(UNION Range(passes)) \ keys
           /\ \A c, d \in FreshClaims(passes, keys) : c.payload = d.payload => c = d
  <1>1. \A p \in PayloadsOf(UNION Range(passes)) : FirstClaim(passes, p).payload = p
    BY FirstClaimMakes, Zenon
  <1>2. PICK todo : todo = PayloadsOf(UNION Range(passes)) \ keys
    BY Zenon
  <1>3. FreshClaims(passes, keys) = {FirstClaim(passes, p) : p \in todo}
    BY <1>2, Zenon DEF FreshClaims
  <1>4. \A p \in todo : FirstClaim(passes, p).payload = p
    BY <1>1, <1>2, Zenon
  <1>5. PayloadsOf(FreshClaims(passes, keys)) = todo
    BY <1>3, <1>4, SMTT(30) DEF PayloadsOf
  <1> QED BY <1>2, <1>3, <1>4, <1>5, ZenonT(30)

\* The provider starts with nothing.
LEMMA InitProvider == Init => ProviderInv
  <1> SUFFICES ASSUME Init PROVE ProviderInv
    OBVIOUS
  <1>1. epoch = 1 /\ emitted = {} /\ ledger = {} /\ analysed = FALSE
    BY Zenon DEF Init
  <1>2. Delivered(epoch) = {}
    BY <1>1, Zenon DEF Delivered, PayloadsOf
  <1>3. epoch \in Nat \ {0}
    BY <1>1
  <1> QED BY <1>1, <1>2, <1>3, Zenon DEF ProviderInv

\* An analysis delivers the payloads of the facts that are not refused and not
\* yet delivered, and remembers those.
LEMMA AnalyzeProvider ==
    ASSUME ProviderInv, analyze_function
    PROVE  ProviderInv'
  <1>1. PICK refused : /\ emit(Passes, refused) /\ analysed' = (analysed \/ refused = {})
                       /\ epoch' = epoch /\ text' = text
    BY Zenon DEF analyze_function
  <1>2. Passes' = Passes
    BY <1>1, Zenon DEF Passes
  <1>3. PICK taken : taken = [k \in DOMAIN Passes |-> Passes[k] \ refused]
    BY Zenon
  <1>4. DOMAIN taken = 1 .. 6
    BY <1>3, SixPasses, Zenon
  <1>5. PICK all : all = PayloadsOf(UNION Range(Passes))
    OBVIOUS
  <1>6. PICK some : some = PayloadsOf(UNION Range(taken))
    OBVIOUS
  <1>7. some \subseteq all
    <2>1. UNION Range(taken) \subseteq UNION Range(Passes)
      <3> SUFFICES ASSUME NEW k \in DOMAIN taken, NEW c \in taken[k]
                   PROVE  c \in UNION Range(Passes)
        BY Zenon DEF Range
      <3>1. k \in DOMAIN Passes /\ c \in Passes[k]
        BY <1>3, Zenon
      <3> QED BY <3>1, Zenon DEF Range
    <2> QED BY <1>5, <1>6, <2>1, Zenon DEF PayloadsOf
  <1>8. refused = {} => some = all
    <2> SUFFICES ASSUME refused = {} PROVE all \subseteq some
      BY <1>7, Zenon
    <2>1. \A k \in DOMAIN Passes : taken[k] = Passes[k]
      BY <1>3, Zenon
    <2>2. Range(taken) = Range(Passes)
      BY <1>3, <2>1, Zenon DEF Range
    <2> QED BY <1>5, <1>6, <2>2, Zenon
  <1>9. PICK fresh : fresh = FreshClaims(taken, emitted)
    OBVIOUS
  <1>10. /\ PayloadsOf(fresh) = some \ emitted
         /\ \A c, d \in fresh : c.payload = d.payload => c = d
    BY <1>4, <1>6, <1>9, FreshPayloads, Zenon
  <1>11. /\ ledger' = ledger \cup {[claim |-> c, generation |-> epoch] : c \in fresh}
         /\ emitted' = emitted \cup (some \ emitted)
    BY <1>1, <1>3, <1>9, <1>10, Zenon DEF emit
  <1>12. Delivered(epoch)' = Delivered(epoch) \cup PayloadsOf(fresh)
    <2>1. ASSUME NEW h \in ledger', h \notin ledger
          PROVE  h.claim \in fresh
      <3>1. PICK c \in fresh : h = [claim |-> c, generation |-> epoch]
        BY <1>11, <2>1, Zenon
      <3> QED BY <3>1
    <2>2. ASSUME NEW c \in fresh
          PROVE  \E h \in ledger' : h.generation = epoch /\ h.claim = c
      <3>1. PICK h : h = [claim |-> c, generation |-> epoch]
        BY Zenon
      <3>2. h \in ledger'
        BY <1>11, <3>1, Zenon
      <3>3. h.generation = epoch /\ h.claim = c
        BY <3>1
      <3> QED BY <3>2, <3>3, Zenon
    <2>3. ledger \subseteq ledger'
      BY <1>11, Zenon
    <2>4. \A p \in Delivered(epoch)' : p \in Delivered(epoch) \cup PayloadsOf(fresh)
      BY <1>1, <2>1, Zenon DEF Delivered, PayloadsOf
    <2>5. \A p \in Delivered(epoch) : p \in Delivered(epoch)'
      BY <1>1, <2>3, Zenon DEF Delivered, PayloadsOf
    <2>6. \A p \in PayloadsOf(fresh) : p \in Delivered(epoch)'
      BY <1>1, <2>2, Zenon DEF Delivered, PayloadsOf
    <2> QED BY <2>4, <2>5, <2>6, Zenon
  <1>13. emitted' = Delivered(epoch)'
    BY <1>10, <1>11, <1>12, Zenon DEF ProviderInv
  <1>14. /\ emitted' \subseteq all
         /\ analysed' => all \subseteq emitted'
    BY <1>1, <1>5, <1>7, <1>8, <1>11, Zenon DEF ProviderInv
  <1>15. \A f \in ledger' : f.generation \in 1 .. epoch
    <2>1. epoch \in 1 .. epoch
      BY DEF ProviderInv
    <2> QED BY <1>11, <2>1, SMTT(30) DEF ProviderInv
  <1>16. ASSUME NEW f \in ledger', NEW g \in ledger',
                f.generation = g.generation, f.claim.payload = g.claim.payload
         PROVE  f = g
    <2>1. \A h \in ledger, c \in fresh :
             h.generation = epoch => h.claim.payload # c.payload
      <3>1. \A h \in ledger : h.generation = epoch => h.claim.payload \in emitted
        BY Zenon DEF ProviderInv, Delivered, PayloadsOf
      <3>2. \A c \in fresh : c.payload \notin emitted
        BY <1>10, Zenon DEF PayloadsOf
      <3> QED BY <3>1, <3>2, Zenon
    <2>2. \A h \in ledger' : h \in ledger
                             \/ \E c \in fresh : h = [claim |-> c, generation |-> epoch]
      BY <1>11, Zenon
    <2>3. CASE f \in ledger /\ g \in ledger
      BY <1>16, <2>3, Zenon DEF ProviderInv
    <2>4. CASE f \in ledger /\ g \notin ledger
      <3>1. PICK d \in fresh : g = [claim |-> d, generation |-> epoch]
        BY <2>2, <2>4, Zenon
      <3>2. g.generation = epoch /\ g.claim = d
        BY <3>1
      <3> QED BY <1>16, <2>1, <2>4, <3>2, Zenon
    <2>5. CASE f \notin ledger /\ g \in ledger
      <3>1. PICK d \in fresh : f = [claim |-> d, generation |-> epoch]
        BY <2>2, <2>5, Zenon
      <3>2. f.generation = epoch /\ f.claim = d
        BY <3>1
      <3> QED BY <1>16, <2>1, <2>5, <3>2, Zenon
    <2>6. CASE f \notin ledger /\ g \notin ledger
      <3>1. PICK c \in fresh, d \in fresh : /\ f = [claim |-> c, generation |-> epoch]
                                            /\ g = [claim |-> d, generation |-> epoch]
        BY <2>2, <2>6, Zenon
      <3>2. c.payload = d.payload
        BY <1>16, <3>1, SMTT(30)
      <3> QED BY <1>10, <3>1, <3>2, Zenon
    <2> QED BY <2>3, <2>4, <2>5, <2>6, Zenon
  <1> QED BY <1>1, <1>2, <1>5, <1>13, <1>14, <1>15, <1>16, Zenon DEF ProviderInv

\* A new epoch forgets the keys and keeps the ledger, which has nothing yet for
\* that epoch, whether or not the one before was complete.
LEMMA ResetProvider ==
    ASSUME ProviderInv, reset
    PROVE  ProviderInv'
  <1>1. /\ analysed' = FALSE /\ epoch' = epoch + 1 /\ emitted' = {}
        /\ text' = text /\ ledger' = ledger
    BY Zenon DEF reset
  <1>2. /\ epoch' \in Nat \ {0}
        /\ \A f \in ledger' : f.generation \in 1 .. epoch' /\ f.generation # epoch'
    BY <1>1 DEF ProviderInv
  <1>3. Delivered(epoch)' = {}
    BY <1>2, Zenon DEF Delivered, PayloadsOf
  <1> QED BY <1>1, <1>2, <1>3, Zenon DEF ProviderInv

\* Every step keeps the invariant; the processor does not touch the provider.
LEMMA NextProvider ==
    ASSUME ProviderInv, [Next]_vars
    PROVE  ProviderInv'
  <1>1. CASE UNCHANGED <<text, provider>>
    <2>1. UNCHANGED <<text, epoch, emitted, ledger, analysed>>
      BY <1>1, SMTT(30) DEF provider
    <2> QED BY <2>1, Zenon DEF ProviderInv, Delivered, Passes
  <1> QED
    BY <1>1, AnalyzeProvider, ResetProvider, Zenon DEF Next, Enter, Execute, Fetch, vars

\* The keys are what the sink took in this epoch.
LEMMA ProviderInvariant == Spec => []ProviderInv
  <1> QED BY InitProvider, NextProvider, PTL DEF Spec

\* Once an analysis met no refusal, the ledger holds every payload of the
\* function for this epoch, once, whatever an earlier epoch had emitted and
\* whatever facts the sink had refused before: emit remembers only what the
\* sink took, and reset clears the keys (deobf_analysis.cpp).
THEOREM EveryEpochIsComplete == Spec => []EpochIsComplete
  <1>1. ProviderInv => EpochIsComplete
    BY Zenon DEF ProviderInv, EpochIsComplete, Delivered
  <1> QED BY <1>1, ProviderInvariant, PTL
=============================================================================
