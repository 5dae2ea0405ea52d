-------------------------- MODULE MCOrderExecution --------------------------
(***************************************************************************)
(* A day of two tickers: a large order of the split ETF and a reversed     *)
(* stock, so that a decision has a close, an immediate and a delayed batch *)
(* with both sides in one of them.                                         *)
(***************************************************************************)
EXTENDS OrderExecution
CONSTANTS dec1, dec2, cls, decision, close

MCTickers == <<"etf", "stock">>
MCLot == [t \in {"etf", "stock"} |-> 1]
MCJobs == {decision, close}
MCCloseJobs == {close}
MCJobOf == [p \in Procs |-> IF p = cls THEN close ELSE decision]

OneDecision == {dec1}
DecisionAndClose == {dec1, cls}
WithRestart == {dec1, dec2, cls}
CloseOnly == {cls}
\* Two direct processes of the decision job differ in nothing but their name.
DecisionsAlike == Permutations({dec1, dec2})

AcceptedOrLost == {"accepted", "lost"}
Unreliable == {"accepted", "rejected", "lost"}

LongStock == [t \in {"etf", "stock"} |-> IF t = "stock" THEN 1 ELSE 0]
LongEtf == [t \in {"etf", "stock"} |-> IF t = "etf" THEN 2 ELSE 0]
Flat == [t \in {"etf", "stock"} |-> 0]
Reversed == [t \in {"etf", "stock"} |-> IF t = "stock" THEN -1 ELSE 2]
ReverseTarget == {Reversed}
EtfTarget == {LongEtf}
=============================================================================
