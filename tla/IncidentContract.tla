--------------------------- MODULE IncidentContract ---------------------------
(***************************************************************************)
(* What an incident run promises to production, to the audit log and to    *)
(* on-call, whatever nodes, twins, mirrors and timers it is made of:       *)
(*                                                                         *)
(*   - production is touched only after a plan was claimed in a durable    *)
(*     row, never again once the final row is written, and the claim is    *)
(*     never changed;                                                      *)
(*   - there is at most one final row; it says EXECUTED only of the        *)
(*     claimed plan and only when nothing is still in flight, and it says  *)
(*     anything else only after on-call was called;                        *)
(*   - the run ends only when on-call was called or the row says EXECUTED. *)
(***************************************************************************)
CONSTANTS Plans, NoPlan

VARIABLES
    prod,    \* clean, inflight, mutated
    claim,   \* the claimed plan
    row,     \* outcome and plan of the final row
    called,  \* on-call was paged, or paging was tried
    over     \* the run has ended

vars == <<prod, claim, row, called, over>>

NoRow == [outcome |-> "none", applied |-> NoPlan]

Init ==
    /\ prod = "clean" /\ claim = NoPlan /\ row = NoRow
    /\ called = FALSE /\ over = FALSE

Claim ==
    /\ claim = NoPlan /\ row = NoRow /\ ~over
    /\ claim' \in Plans
    /\ UNCHANGED <<prod, row, called, over>>

Touch ==
    /\ claim # NoPlan /\ row = NoRow /\ prod = "clean" /\ ~over
    /\ prod' = "inflight"
    /\ UNCHANGED <<claim, row, called, over>>

Settle ==
    /\ prod = "inflight"
    /\ prod' \in {"clean", "mutated"}
    /\ UNCHANGED <<claim, row, called, over>>

Call ==
    /\ ~over
    /\ called' = TRUE
    /\ UNCHANGED <<prod, claim, row, over>>

Write ==
    /\ row = NoRow /\ ~over
    /\ \/ /\ row' = [outcome |-> "EXECUTED", applied |-> claim]
          /\ claim # NoPlan /\ prod # "inflight"
       \/ /\ row' \in [outcome : {"ESCALATED", "FAILED"}, applied : {claim, NoPlan}]
          /\ called
    /\ UNCHANGED <<prod, claim, called, over>>

Return ==
    /\ ~over
    /\ called \/ row.outcome = "EXECUTED"
    /\ over' = TRUE
    /\ UNCHANGED <<prod, claim, row, called>>

Next == Claim \/ Touch \/ Settle \/ Call \/ Write \/ Return

Spec == Init /\ [][Next]_vars

=============================================================================
