--------------------------- MODULE ResultRecording ---------------------------
(***************************************************************************)
(* One run's calls of record_result_set: after every batch with all the    *)
(* results so far, again with the summary, whose order is different, and   *)
(* again by a recovery after a crash, which knows the identified orders    *)
(* only.                                                                   *)
(***************************************************************************)
EXTENDS OrderPlanning, ResultAssignment

CONSTANTS
    Targets,      \* targets a decision may aim at
    Inventories,  \* inventories it may start from
    BrokerLots    \* position lists the close job may find, one entry per lot

ASSUME RecordingAssumption ==
    /\ Targets \subseteq [TickerSet -> Int]
    /\ Inventories \subseteq [TickerSet -> Int]
    /\ \A list \in BrokerLots :
          list \in Seq([ticker : TickerSet, side : {"BUY", "SELL"}, qty : Nat \ {0}])

VARIABLES
    plan,     \* the saved intents, in order, each with its purpose
    unsent,   \* batches of orders still to be sent
    results,  \* results of the orders sent, in sending order
    saved,    \* attributions in the store
    alive     \* the submitting process has not crashed

recordingVars == <<plan, unsent, results, saved, alive>>

\* The code keeps no link from an order or its parts to the intent they come
\* from; the orders carry it here for the properties only.
Tagged(orders, base) ==
    [i \in DOMAIN orders |->
        [ticker |-> orders[i].ticker, side |-> orders[i].side,
         qty |-> orders[i].qty, intent |-> base + i]]

DecisionParts(closes, news) ==
    <<Tagged(closes, 0), Immediate(Tagged(news, Len(closes))),
      Delayed(Tagged(news, Len(closes)))>>

CloseParts(closes) == <<Immediate(Tagged(closes, 0)), Delayed(Tagged(closes, 0))>>

RecordingInit ==
    /\ \/ \E tgt \in Targets, cur \in Inventories :
            /\ plan = DecisionPlan(tgt, cur)
            /\ unsent = DecisionParts(CloseOrders(tgt, cur), NewOrders(tgt, cur))
       \/ \E list \in BrokerLots :
            /\ plan = Intents(DayCloseOrders(list, 0, 0), "close")
            /\ unsent = CloseParts(DayCloseOrders(list, 0, 0))
    /\ results = <<>>
    /\ saved = <<>>
    /\ alive = TRUE

Result(sent, id) ==
    [id |-> id, ticker |-> sent.ticker, side |-> sent.side,
     qty |-> sent.qty, intent |-> sent.intent]

\* A batch goes out, and its results are committed together with all earlier
\* ones before anything else happens.  Broker ids are numbered as they come.
SubmitBatch ==
    /\ alive /\ unsent # <<>>
    /\ \E identified \in SUBSET (DOMAIN Head(unsent)) :
          LET Id(i) == IF i \in identified THEN Len(results) + i ELSE NoId
              sent == [i \in DOMAIN Head(unsent) |->
                          Result(Head(unsent)[i], Id(i))]
          IN  /\ results' = results \o sent
              /\ saved' = RecordResultSet(plan, saved, results')
    /\ unsent' = Tail(unsent)
    /\ UNCHANGED <<plan, alive>>

\* The summary lists the new orders, buys first, before the closes.
Summary ==
    LET Of(purpose, sides) ==
            Entries(results, {k \in DOMAIN results :
                                 /\ plan[results[k].intent].purpose = purpose
                                 /\ results[k].side \in sides})
    IN  Of("new", {"BUY"}) \o Of("new", {"SELL"}) \o Of("close", {"BUY", "SELL"})

RecordSummary ==
    /\ alive
    /\ saved' = RecordResultSet(plan, saved, Summary)
    /\ UNCHANGED <<plan, unsent, results, alive>>

\* The process dies, between a batch and the commit of its results too.
Crash ==
    /\ alive
    /\ alive' = FALSE
    /\ \/ UNCHANGED <<plan, unsent, results, saved>>
       \/ /\ unsent # <<>>
          /\ results' = results \o
                [i \in DOMAIN Head(unsent) |-> Result(Head(unsent)[i], NoId)]
          /\ unsent' = Tail(unsent)
          /\ UNCHANGED <<plan, saved>>

Identified == {i \in DOMAIN results : results[i].id # NoId}

\* A recovery records the identified orders again.
Recover ==
    /\ ~alive
    /\ saved' = RecordResultSet(plan, saved, Entries(results, Identified))
    /\ UNCHANGED <<plan, unsent, results, alive>>

RecordingNext == SubmitBatch \/ RecordSummary \/ Crash \/ Recover

RecordingSpec == RecordingInit /\ [][RecordingNext]_recordingVars

-----------------------------------------------------------------------------
\* A broker order keeps the intent it was first attributed to, although later
\* calls list the results in another order and with fewer or more of them.
IntentRetained ==
    [][\A id \in DOMAIN saved :
          id \in DOMAIN saved' /\ saved'[id] = saved[id]]_recordingVars

\* No order of the plan that is sent in two parts is followed by a close of its
\* ticker and side.  Every decision is like this, and so is a close whose lots
\* of one ticker and side are not split or end with the one that is.
InTurn ==
    \A i, k \in DOMAIN plan :
        i < k /\ plan[i].ticker = plan[k].ticker /\ plan[i].side = plan[k].side
              /\ plan[k].purpose = "close"
            => ~IsSplit(plan[i])

\* Every identified order is attributed to the intent it is a part of, also
\* when a planned quantity was sent in two parts, whenever the orders of each
\* ticker and side go out in the order of their intents.
PartsKeepTheirIntent ==
    InTurn =>
        \A i \in Identified :
            /\ results[i].id \in DOMAIN saved
            /\ saved[results[i].id].intent = results[i].intent

AllSent == \A i \in DOMAIN unsent : unsent[i] = <<>>

AllKnown == AllSent /\ Identified = DOMAIN results

\* A recovery finds every intent identified only when every part of the plan was
\* sent and no response was lost, whatever lots the plan closes: it never
\* completes a run with an unknown order.  And where orders go out in the order
\* of their intents nothing in the store keeps a run whose orders are known open.
FullyIdentifiedExactly ==
    /\ FullyIdentified(plan, saved) => AllKnown
    /\ InTurn /\ AllKnown => FullyIdentified(plan, saved)
=============================================================================
