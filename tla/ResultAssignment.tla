-------------------------- MODULE ResultAssignment --------------------------
(***************************************************************************)
(* How record_result_set attributes broker orders to the saved intents of  *)
(* a run.  An intent is the position of a planned order in close_orders    *)
(* followed by new_orders; a broker order is attributed to the first       *)
(* intent of its ticker and side that still has room for its quantity, and *)
(* an order whose identifier was attributed before keeps its intent.       *)
(* Attributions are what a later recovery compares with the plan.          *)
(***************************************************************************)
EXTENDS Integers, Sequences, SequencesExt, FiniteSetsExt, TLC

\* A result without a broker order identifier (rejected, or its response was
\* lost), and an order that no intent has room for.
NoId == 0
Unmapped == 0

(***************************************************************************)
(* saved: broker id -> [intent, qty], read back from order_observations.   *)
(* During one call the attribution in progress also counts the results     *)
(* that carry no identifier.                                               *)
(***************************************************************************)
QuantityOf(saved, intent) ==
    SumFunction([id \in DOMAIN saved |->
                    IF saved[id].intent = intent THEN saved[id].qty ELSE 0])

Allocated(plan, saved) ==
    [intent \in DOMAIN plan |-> QuantityOf(saved, intent)]

\* Mutant: the last fit is taken.
LastFit(plan, allocated, r) ==
    LET room == {i \in DOMAIN plan :
                    /\ plan[i].ticker = r.ticker
                    /\ plan[i].side = r.side
                    /\ allocated[i] + r.qty <= plan[i].qty}
    IN  IF room = {} THEN Unmapped ELSE Max(room)

FirstFit(plan, allocated, r) ==
    LET room == {i \in DOMAIN plan :
                    /\ plan[i].ticker = r.ticker
                    /\ plan[i].side = r.side
                    /\ allocated[i] + r.qty <= plan[i].qty}
    IN  IF room = {} THEN Unmapped ELSE Min(room)

Attributed(saved, r, intent) ==
    [id \in DOMAIN saved \cup {r.id} |->
        IF id = r.id THEN [intent |-> intent, qty |-> r.qty] ELSE saved[id]]

\* One result of the list that a call is given.
Attribute(plan, state, r) ==
    LET intent == FirstFit(plan, state.allocated, r)
    IN  IF r.id \in DOMAIN state.saved \/ intent = Unmapped
        THEN state
        ELSE [allocated |-> [state.allocated EXCEPT ![intent] = @ + r.qty],
              saved     |-> IF r.id = NoId THEN state.saved
                            ELSE Attributed(state.saved, r, intent)]

\* Mutant: every call attributes its results afresh.
RecordAfresh(plan, saved, results) ==
    FoldLeft(LAMBDA state, r : Attribute(plan, state, r),
             [allocated |-> [i \in DOMAIN plan |-> 0], saved |-> <<>>],
             results).saved

\* The attributions after one call of record_result_set.
RecordResultSet(plan, saved, results) ==
    LET after[n \in 0 .. Len(results)] ==
            IF n = 0
            THEN [allocated |-> Allocated(plan, saved), saved |-> saved]
            ELSE Attribute(plan, after[n - 1], results[n])
    IN  after[Len(results)].saved

\* Mutant: some quantity of every intent is enough.
PartlyIdentified(plan, saved) ==
    \A i \in DOMAIN plan : Allocated(plan, saved)[i] > 0

\* Recovery's test that no quantity of the plan is unidentified or unsent.
FullyIdentified(plan, saved) ==
    \A i \in DOMAIN plan : Allocated(plan, saved)[i] = plan[i].qty
=============================================================================
