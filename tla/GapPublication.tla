--------------------------- MODULE GapPublication ---------------------------
(***************************************************************************)
(* One trade date from the frozen 09:10 quotes to the decision's blend.    *)
(* Captures freeze the quotes in a file; publishers compute a distribution *)
(* for each horizon and save each in a transaction of its own, then the    *)
(* rank signal, then read everything back; the decision takes a horizon    *)
(* from the store only when its identity agrees with the decision's own    *)
(* inputs, computes it on demand otherwise, and is flat when that fails.   *)
(*                                                                         *)
(* A computed distribution is the identity of its inputs: the execution    *)
(* frame and the quotes.  The configuration and the model do not change.   *)
(* A capture's quotes are named by the capture.                            *)
(***************************************************************************)
EXTENDS Naturals, Sequences, FiniteSets

CONSTANTS
    Captures,     \* runs of the 09:10 capture
    Publishers,   \* runs of publish_gap_distribution
    Deciders,     \* runs of the decision
    Horizons,     \* the configured horizons, in order
    LastFrame,    \* bound: the execution frame is rebuilt LastFrame - 1 times
    None,         \* no file, no row, nothing held
    Partial       \* a quote file created and not yet written

VARIABLES
    quotes,     \* the frozen quote file
    frame,      \* version of the local execution-frame cache
    bundle,     \* the store's distribution of each horizon
    rank,       \* the store's rank signal, by the frame it was computed from
    capture,    \* each capture's next step
    publisher,  \* each publisher's next step and inputs
    decider,    \* each decision's next step, inputs and what it has resolved
    onTime      \* decisions a publisher had passed for in time (history)

\* There is a horizon, and no capture goes by the name of what is not a capture.
PublicationAssumption ==
    /\ Horizons \in Seq(Nat) /\ Horizons # <<>>
    /\ None \notin Captures /\ Partial \notin Captures /\ None # Partial

vars == <<quotes, frame, bundle, rank, capture, publisher, decider, onTime>>

Identity(p) == [frame |-> p.frame, quotes |-> p.quotes]

Init ==
    /\ quotes = None
    /\ frame = 1
    /\ bundle = [h \in DOMAIN Horizons |-> None]
    /\ rank = None
    /\ capture = [c \in Captures |-> "idle"]
    /\ publisher = [p \in Publishers |->
                      [at |-> "idle", frame |-> None, quotes |-> None, next |-> 1]]
    /\ decider = [d \in Deciders |->
                    [at |-> "idle", frame |-> None, quotes |-> None,
                     rank |-> None, blend |-> <<>>, cached |-> 0]]
    /\ onTime = {}

-----------------------------------------------------------------------------
(* freeze_quote_snapshot: create exclusively, then write.                  *)

\* Mutant: the file is opened for writing without O_EXCL.
CreateQuotesAnew(c) ==
    /\ capture[c] = "idle"
    /\ quotes' = Partial
    /\ capture' = [capture EXCEPT ![c] = "created"]
    /\ UNCHANGED <<frame, bundle, rank, publisher, decider, onTime>>

CreateQuotes(c) ==
    /\ capture[c] = "idle"
    /\ quotes = None
    /\ quotes' = Partial
    /\ capture' = [capture EXCEPT ![c] = "created"]
    /\ UNCHANGED <<frame, bundle, rank, publisher, decider, onTime>>

WriteQuotes(c) ==
    /\ capture[c] = "created"
    /\ quotes' = c
    /\ capture' = [capture EXCEPT ![c] = "done"]
    /\ UNCHANGED <<frame, bundle, rank, publisher, decider, onTime>>

\* A later capture keeps the file it finds, and fails if that is not valid.
KeepQuotes(c) ==
    /\ capture[c] = "idle"
    /\ quotes # None
    /\ capture' = [capture EXCEPT
                     ![c] = IF quotes \in Captures THEN "done" ELSE "failed"]
    /\ UNCHANGED <<quotes, frame, bundle, rank, publisher, decider, onTime>>

\* The process dies, its file created but not written.
CrashCapture(c) ==
    /\ capture[c] = "created"
    /\ capture' = [capture EXCEPT ![c] = "failed"]
    /\ UNCHANGED <<quotes, frame, bundle, rank, publisher, decider, onTime>>

\* Another job rebuilds the local cache of the execution frame.
RebuildFrame ==
    /\ frame < LastFrame
    /\ frame' = frame + 1
    /\ UNCHANGED <<quotes, bundle, rank, capture, publisher, decider, onTime>>

-----------------------------------------------------------------------------
(* publish_gap_distribution and publish_gap_cache.                         *)

LoadInputs(p) ==
    /\ publisher[p].at = "idle"
    /\ publisher' = [publisher EXCEPT ![p] = [@ EXCEPT !.at = "quotes", !.frame = frame]]
    /\ UNCHANGED <<quotes, frame, bundle, rank, capture, decider, onTime>>

\* All horizons are computed before the first is saved.
Compute(p) ==
    /\ publisher[p].at = "quotes"
    /\ publisher' = [publisher EXCEPT ![p] =
          IF quotes \in Captures
          THEN [@ EXCEPT !.at = "save", !.quotes = quotes]
          ELSE [@ EXCEPT !.at = "failed"]]
    /\ UNCHANGED <<quotes, frame, bundle, rank, capture, decider, onTime>>

SaveHorizon(p) ==
    /\ publisher[p].at = "save"
    /\ LET h == publisher[p].next
       IN  /\ bundle' = [bundle EXCEPT ![h] = Identity(publisher[p])]
           /\ publisher' = [publisher EXCEPT ![p] =
                 IF h = Len(Horizons) THEN [@ EXCEPT !.at = "rank", !.next = 1]
                                      ELSE [@ EXCEPT !.next = h + 1]]
    /\ UNCHANGED <<quotes, frame, rank, capture, decider, onTime>>

\* Mutant: a failure to save the rank signal is swallowed.
SkipRank(p) ==
    /\ publisher[p].at = "rank"
    /\ publisher' = [publisher EXCEPT ![p].at = "verify"]
    /\ UNCHANGED <<quotes, frame, bundle, rank, capture, decider, onTime>>

SaveRank(p) ==
    /\ publisher[p].at = "rank"
    /\ rank' = publisher[p].frame
    /\ publisher' = [publisher EXCEPT ![p].at = "verify"]
    /\ UNCHANGED <<quotes, frame, bundle, capture, decider, onTime>>

\* Mutant: the frame's fingerprint is not compared.
ServableByQuotes(h, inputs) ==
    bundle[h] # None /\ bundle[h].quotes = inputs.quotes

\* What FileCacheDistributionSource accepts.
Servable(h, inputs) == bundle[h] = Identity(inputs)

Verify(p) ==
    /\ publisher[p].at = "verify"
    /\ LET h == publisher[p].next
       IN  publisher' = [publisher EXCEPT ![p] =
              IF ~Servable(h, publisher[p])
              THEN [@ EXCEPT !.at = "failed"]
              ELSE IF h = Len(Horizons)
                   THEN [@ EXCEPT !.at = "passed"]
                   ELSE [@ EXCEPT !.next = h + 1]]
    /\ UNCHANGED <<quotes, frame, bundle, rank, capture, decider, onTime>>

\* A computation or a transaction fails, the phase deadline kills the
\* publisher, or it dies: what it has saved stays.
FailPublisher(p) ==
    /\ publisher[p].at \in {"quotes", "save", "rank", "verify"}
    /\ publisher' = [publisher EXCEPT ![p].at = "failed"]
    /\ UNCHANGED <<quotes, frame, bundle, rank, capture, decider, onTime>>

-----------------------------------------------------------------------------
(* run_v2_decision and _multi_horizon_scores_with_metadata.                *)

\* A live decision without valid frozen quotes raises.
LoadQuotes(d) ==
    /\ decider[d].at = "idle"
    /\ decider' = [decider EXCEPT ![d] =
          IF quotes \in Captures
          THEN [@ EXCEPT !.at = "frame", !.quotes = quotes]
          ELSE [@ EXCEPT !.at = "raised"]]
    /\ UNCHANGED <<quotes, frame, bundle, rank, capture, publisher, onTime>>

LoadFrame(d) ==
    /\ decider[d].at = "frame"
    /\ decider' = [decider EXCEPT ![d] = [@ EXCEPT !.at = "rank", !.frame = frame]]
    /\ UNCHANGED <<quotes, frame, bundle, rank, capture, publisher, onTime>>

\* The rank signal is taken as it is found: it carries no identity.
LoadRank(d) ==
    /\ decider[d].at = "rank"
    /\ decider' = [decider EXCEPT ![d] = [@ EXCEPT !.at = "blend", !.rank = rank]]
    /\ onTime' = IF \E p \in Publishers : publisher[p].at = "passed"
                 THEN onTime \cup {d} ELSE onTime
    /\ UNCHANGED <<quotes, frame, bundle, rank, capture, publisher>>

\* The decision with one more horizon.
Resolved(d, identity, cached) ==
    LET blend == Append(decider[d].blend, identity)
    IN  [decider[d] EXCEPT
            !.blend = blend,
            !.cached = @ + cached,
            !.at = IF Len(blend) = Len(Horizons) THEN "decided" ELSE "blend"]

\* The next horizon, from the store or else on demand; failing both, the
\* decision is flat.
ResolveHorizon(d) ==
    /\ decider[d].at = "blend"
    /\ LET h == Len(decider[d].blend) + 1
       IN  \/ /\ Servable(h, decider[d])
              /\ decider' = [decider EXCEPT ![d] = Resolved(d, bundle[h], 1)]
           \/ /\ ~Servable(h, decider[d])
              /\ \/ decider' = [decider EXCEPT ![d] =
                                   Resolved(d, Identity(decider[d]), 0)]
                 \/ decider' = [decider EXCEPT ![d].at = "flat"]
    /\ UNCHANGED <<quotes, frame, bundle, rank, capture, publisher, onTime>>

-----------------------------------------------------------------------------
Capture(c) == CreateQuotes(c) \/ WriteQuotes(c) \/ KeepQuotes(c) \/ CrashCapture(c)

Publish(p) ==
    LoadInputs(p) \/ Compute(p) \/ SaveHorizon(p) \/ SaveRank(p) \/ Verify(p)
        \/ FailPublisher(p)

Decide(d) == LoadQuotes(d) \/ LoadFrame(d) \/ LoadRank(d) \/ ResolveHorizon(d)

Next ==
    \/ \E c \in Captures : Capture(c)
    \/ RebuildFrame
    \/ \E p \in Publishers : Publish(p)
    \/ \E d \in Deciders : Decide(d)

Spec == Init /\ [][Next]_vars

-----------------------------------------------------------------------------
\* The quotes a publisher or a decision holds are valid, never a file that is
\* being written, and both hold the same: the first capture to create the
\* file settles the quotes of the day, although several may run.
QuoteAgreement ==
    LET Holders == {publisher[p].quotes : p \in Publishers}
                     \cup {decider[d].quotes : d \in Deciders}
    IN  Holders \ {None} \subseteq (Captures \cap {quotes})

\* A decision blends distributions of its own frame and quotes only, also
\* when a publisher failed between two horizons, two publishers interleaved
\* or the frame was rebuilt between publisher and decision.
BlendIsOfOneIdentity ==
    \A d \in Deciders : \A i \in DOMAIN decider[d].blend :
        decider[d].blend[i] = Identity(decider[d])

Saved == {p \in Publishers : publisher[p].quotes # None}

\* A decision made after a publisher passed, when no other publisher saved
\* anything and both worked from one frame, takes every horizon and the rank
\* signal from that publication, and needs no fallback.
PassedIsServed ==
    \A d \in onTime, p \in Publishers :
        /\ Saved = {p}
        /\ publisher[p].frame = decider[d].frame
        => /\ decider[d].at # "flat"
           /\ decider[d].rank = publisher[p].frame
           /\ decider[d].cached = Len(decider[d].blend)
=============================================================================
