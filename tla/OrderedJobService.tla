------------------------- MODULE OrderedJobService -------------------------
(***************************************************************************)
(* What emulation_workers.hpp promises its client, with no queue, thread   *)
(* or lock: tickets are assigned in increasing order, every accepted       *)
(* ticket gets one outcome, outcomes are taken in ticket order, a          *)
(* cancelled ticket that was still pending ends CANCELLED, and at most     *)
(* Capacity tickets are outstanding (Capacity 0 means unbounded).          *)
(***************************************************************************)
EXTENDS Integers

CONSTANTS Capacity, Statuses

VARIABLES
    accepted,   \* tickets 1..accepted have been assigned
    taken,      \* tickets 1..taken have been delivered
    outcome,    \* outcomes of accepted tickets not yet taken
    doomed,     \* pending tickets of a cancelled generation
    closed      \* shutdown has begun: nothing more is accepted

serviceVars == <<accepted, taken, outcome, doomed, closed>>

Pending == (taken + 1)..accepted \ DOMAIN outcome

Init ==
    /\ accepted = 0
    /\ taken = 0
    /\ outcome = <<>>
    /\ doomed = {}
    /\ closed = FALSE

(* outcome extended with what `fresh` says about newly settled tickets.   *)
Extend(fresh) ==
    [t \in DOMAIN outcome \cup DOMAIN fresh |->
        IF t \in DOMAIN outcome THEN outcome[t] ELSE fresh[t]]

HasRoom == Capacity # 0 => accepted - taken < Capacity

(* A ticket is assigned; with no usable executor it is settled at once.   *)
Accept ==
    /\ ~closed
    /\ HasRoom
    /\ accepted' = accepted + 1
    /\ \/ outcome' = outcome
       \/ outcome' = Extend([t \in {accepted + 1} |-> "UNAVAILABLE"])
    /\ UNCHANGED <<taken, doomed, closed>>

Settle ==
    /\ \E S \in (SUBSET Pending) \ {{}} :
         \E fresh \in [S -> Statuses] :
            /\ \A t \in S \cap doomed : fresh[t] = "CANCELLED"
            /\ outcome' = Extend(fresh)
            /\ doomed' = doomed \ S
    /\ UNCHANGED <<accepted, taken, closed>>

Take ==
    /\ \E n \in 1..(accepted - taken) :
         /\ (taken + 1)..(taken + n) \subseteq DOMAIN outcome
         /\ taken' = taken + n
         /\ outcome' = [t \in DOMAIN outcome \ ((taken + 1)..(taken + n))
                          |-> outcome[t]]
    /\ UNCHANGED <<accepted, doomed, closed>>

(* Cancellation (closing included) settles some pending tickets now and   *)
(* dooms all the others.                                                  *)
Cancel ==
    /\ ~closed
    /\ \E S \in SUBSET Pending :
         /\ outcome' = Extend([t \in S |-> "CANCELLED"])
         /\ doomed' = Pending \ S
    /\ closed' \in BOOLEAN
    /\ UNCHANGED <<accepted, taken>>

Next == Accept \/ Settle \/ Take \/ Cancel

Spec == Init /\ [][Next]_serviceVars
=============================================================================
