----------------------------- MODULE MCFeePolling -----------------------------
(***************************************************************************)
(* FeePolling on a small network: six transactions in four ledgers, a page *)
(* of two, and the smallest capacity CapacityAssumption allows.            *)
(***************************************************************************)
EXTENDS FeePolling

MCLedgerOf == <<1, 1, 2, 3, 3, 4>>
MCDropped == {4}
MCMalformed == {6}

(* PushAll in closed form is push, one point after the other. *)
RECURSIVE PushEach(_, _)
PushEach(s, b) ==
    IF b = <<>> THEN s
    ELSE PushEach(Append(IF Len(s) >= Capacity THEN Tail(s) ELSE s, Head(b)), Tail(b))

ASSUME PushAllIsRepeatedPush ==
    \A s, b \in UNION {[1..n -> 1..2] : n \in 0..Capacity} : PushAll(s, b) = PushEach(s, b)
=============================================================================
