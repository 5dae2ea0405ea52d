----------------------------- MODULE TradingDay -----------------------------
(***************************************************************************)
(* What the execution subsystem promises of one account and strategy: runs *)
(* are opened one at a time, what is held only moves by the trades of the  *)
(* open run, a run is closed only when its start and its own trades add up *)
(* to what is held, and a run that is closed is never opened again.        *)
(***************************************************************************)
EXTENDS Integers

CONSTANTS
    Jobs,       \* a job has at most one run
    Tickers,    \* what can be held
    NotOpened   \* the starting inventory of a run that was never opened

VARIABLES
    phase,      \* Jobs -> "idle", "open" or "closed"
    start,      \* Jobs -> the inventory a run was planned from
    traded,     \* Jobs -> the change its trades have made so far
    inventory   \* what is held at the broker

vars == <<phase, start, traded, inventory>>

Inventories == [Tickers -> Int]

Init ==
    /\ phase = [j \in Jobs |-> "idle"]
    /\ start = [j \in Jobs |-> NotOpened]
    /\ traded = [j \in Jobs |-> [t \in Tickers |-> 0]]
    /\ inventory \in Inventories

\* A plan may rest on an old inventory; such a run is never closed.
Open(j) ==
    /\ phase[j] = "idle"
    /\ \A other \in Jobs : phase[other] # "open"
    /\ phase' = [phase EXCEPT ![j] = "open"]
    /\ start'[j] \in Inventories
    /\ start' = [start EXCEPT ![j] = start'[j]]
    /\ UNCHANGED <<traded, inventory>>

Trade(j) ==
    /\ phase[j] = "open"
    /\ inventory' \in Inventories
    /\ traded' = [traded EXCEPT ![j] =
                     [t \in Tickers |-> @[t] + inventory'[t] - inventory[t]]]
    /\ UNCHANGED <<phase, start>>

Close(j) ==
    /\ phase[j] = "open"
    /\ inventory = [t \in Tickers |-> start[j][t] + traded[j][t]]
    /\ phase' = [phase EXCEPT ![j] = "closed"]
    /\ UNCHANGED <<start, traded, inventory>>

Next == \E j \in Jobs : Open(j) \/ Trade(j) \/ Close(j)

Spec == Init /\ [][Next]_vars
=============================================================================
