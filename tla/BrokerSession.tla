---------------------------- MODULE BrokerSession ----------------------------
(***************************************************************************)
(* The Tachibana session: a login opens one at the server, every request   *)
(* carries the next p_no, an expired session is renewed and the request    *)
(* repeated once, and a process may leave its session to the next one in   *)
(* a cache file, without taking it out when it restores it.                *)
(*                                                                         *)
(* The server is external: it executes a request of a live session whose   *)
(* p_no is above all it has seen in the session, answers the code of an    *)
(* expired session without executing, and refuses any other p_no.          *)
(***************************************************************************)
EXTENDS Naturals, FiniteSets

CONSTANTS
    LastProcess,  \* processes that use the broker, in the order they start
    LastSession,  \* bound: sessions the server opens
    LastCall,     \* bound: calls a process makes after its health check
    NoSession

VARIABLES
    cache,    \* the session file: a session and its next p_no
    live,     \* sessions the server knows
    opened,   \* number of the last session opened
    highest,  \* highest p_no the server has seen in each session
    client,   \* each process: next step, session, next p_no, restored, calls
    call,     \* each process's last call: its answer, and executions of it
    shared,   \* sessions two processes have held together (history)
    refused   \* sessions in which a call was refused for its p_no (history)

vars == <<cache, live, opened, highest, client, call, shared, refused>>

Processes == 1 .. LastProcess
Sessions == 1 .. LastSession
NoCall == [answer |-> "none", executed |-> 0]

SessionAssumption == LastSession \in Nat /\ NoSession \notin Sessions

Init ==
    /\ cache = NoSession
    /\ live = {}
    /\ opened = 0
    /\ highest = [s \in Sessions |-> 0]
    /\ client = [p \in Processes |->
                   [at |-> "new", session |-> NoSession, pno |-> 1,
                    restored |-> FALSE, calls |-> 0]]
    /\ call = [p \in Processes |-> NoCall]
    /\ shared = {}
    /\ refused = {}

Holders(s) == {p \in Processes : client[p].session = s /\ client[p].at # "ended"}

\* The session expires at the server.
Expire(s) ==
    /\ s \in live
    /\ live' = live \ {s}
    /\ UNCHANGED <<cache, opened, highest, client, call, shared, refused>>

-----------------------------------------------------------------------------
(* build_api_client: restore, health check, discard.                       *)

\* Mutant: a restored session is used without a health check.
StartUnprobed(p) ==
    /\ client[p].at = "new"
    /\ p > 1 => client[p - 1].at # "new"
    /\ \/ /\ cache # NoSession
          /\ client' = [client EXCEPT ![p] =
                [@ EXCEPT !.at = "ready", !.session = cache.session,
                          !.pno = cache.pno, !.restored = TRUE]]
          /\ shared' = IF Holders(cache.session) = {} THEN shared
                                          ELSE shared \cup {cache.session}
          /\ UNCHANGED cache
       \/ /\ client' = [client EXCEPT ![p].at = "probe"]
          /\ cache' = NoSession
          /\ UNCHANGED shared
    /\ UNCHANGED <<live, opened, highest, call, refused>>

\* A cache older than fifteen minutes is cleared.
Start(p) ==
    /\ client[p].at = "new"
    /\ p > 1 => client[p - 1].at # "new"
    /\ \/ /\ cache # NoSession
          /\ client' = [client EXCEPT ![p] =
                [@ EXCEPT !.at = "probe", !.session = cache.session,
                          !.pno = cache.pno, !.restored = TRUE]]
          /\ shared' = IF Holders(cache.session) = {} THEN shared
                                          ELSE shared \cup {cache.session}
          /\ UNCHANGED cache
       \/ /\ client' = [client EXCEPT ![p].at = "probe"]
          /\ cache' = NoSession
          /\ UNCHANGED shared
    /\ UNCHANGED <<live, opened, highest, call, refused>>

Probing(p) == client[p].at \in {"probe", "reprobe"}
Calling(p) == client[p].at \in {"call", "recall"}

\* The request or the login in hand fails; its p_no is spent.  A failure of the
\* health check discards a restored session and repeats the check, once, with
\* a login; without a restored session the process gives up.  A failure of a
\* call is the caller's.
Fail(p, answer, executed) ==
    LET spent == [client[p] EXCEPT !.pno = @ + 1]
    IN  \/ /\ Probing(p)
           /\ client' = [client EXCEPT ![p] =
                 IF client[p].restored
                 THEN [spent EXCEPT !.at = "probe", !.session = NoSession,
                                    !.restored = FALSE]
                 ELSE [spent EXCEPT !.at = "ended"]]
           /\ cache' = IF client[p].restored THEN NoSession ELSE cache
           /\ UNCHANGED call
        \/ /\ Calling(p)
           /\ client' = [client EXCEPT ![p] = [spent EXCEPT !.at = "ready"]]
           /\ call' = [call EXCEPT ![p] =
                 [answer |-> answer, executed |-> @.executed + executed]]
           /\ UNCHANGED cache

-----------------------------------------------------------------------------
(* login and _request.                                                     *)

\* A request of a client that is not logged in, or whose session has expired,
\* logs in first.
NeedsLogin(p) == client[p].session = NoSession

Login(p) ==
    /\ (Probing(p) \/ Calling(p)) /\ NeedsLogin(p)
    /\ opened < LastSession
    /\ opened' = opened + 1
    /\ live' = live \cup {opened'}
    /\ highest' = [highest EXCEPT ![opened'] = client[p].pno]
    /\ client' = [client EXCEPT ![p].session = opened', ![p].pno = @ + 1]
    /\ UNCHANGED <<cache, call, shared, refused>>

LoginFails(p) ==
    /\ (Probing(p) \/ Calling(p)) /\ NeedsLogin(p)
    /\ Fail(p, "refused", 0)
    /\ UNCHANGED <<live, opened, highest, shared, refused>>

\* A request goes out with the next p_no.
Sending(p) ==
    (Probing(p) \/ Calling(p)) /\ ~NeedsLogin(p)

Advance(p, at) == [client[p] EXCEPT !.at = at, !.pno = @ + 1]

Accepted(p) ==
    client[p].session \in live /\ client[p].pno > highest[client[p].session]

\* The server executes the request and the answer arrives.
Answered(p) ==
    /\ Sending(p) /\ Accepted(p)
    /\ highest' = [highest EXCEPT ![client[p].session] = client[p].pno]
    /\ client' = [client EXCEPT ![p] = Advance(p, "ready")]
    /\ call' = IF Calling(p)
               THEN [call EXCEPT ![p] =
                       [answer |-> "ok", executed |-> @.executed + 1]]
               ELSE call
    /\ UNCHANGED <<cache, live, opened, shared, refused>>

\* Mutant: a call whose transport failed is repeated.
TransportRetries(p) ==
    /\ Sending(p)
    /\ \/ /\ Accepted(p)
          /\ highest' = [highest EXCEPT ![client[p].session] = client[p].pno]
       \/ UNCHANGED highest
    /\ LET executed == IF highest' = highest THEN 0 ELSE 1
       IN  IF client[p].at = "call"
           THEN /\ client' = [client EXCEPT ![p] = Advance(p, "recall")]
                /\ call' = [call EXCEPT ![p].executed = @ + executed]
                /\ UNCHANGED cache
           ELSE Fail(p, "unknown", executed)
    /\ UNCHANGED <<live, opened, shared, refused>>

\* The transport fails, before or after the server executed the request: it
\* is not repeated, and the caller learns only that it failed.
TransportFails(p) ==
    /\ Sending(p)
    /\ \/ /\ Accepted(p)
          /\ highest' = [highest EXCEPT ![client[p].session] = client[p].pno]
       \/ UNCHANGED highest
    /\ Fail(p, "unknown", IF highest' = highest THEN 0 ELSE 1)
    /\ UNCHANGED <<live, opened, shared, refused>>

\* The server takes the request and refuses it for a reason of its business.
BusinessRefuses(p) ==
    /\ Sending(p) /\ Accepted(p)
    /\ highest' = [highest EXCEPT ![client[p].session] = client[p].pno]
    /\ Fail(p, "refused", 0)
    /\ UNCHANGED <<live, opened, shared, refused>>

\* The first time a session is found expired the client logs in and repeats
\* the request; the second time the call fails.
SessionExpired(p) ==
    /\ Sending(p) /\ client[p].session \notin live
    /\ \/ /\ client[p].at \in {"probe", "call"}
          /\ client' = [client EXCEPT ![p] =
                [Advance(p, IF client[p].at = "probe" THEN "reprobe" ELSE "recall")
                    EXCEPT !.session = NoSession]]
          /\ UNCHANGED <<cache, call>>
       \/ /\ client[p].at \in {"reprobe", "recall"}
          /\ Fail(p, "refused", 0)
    /\ UNCHANGED <<live, opened, highest, shared, refused>>

PnoRefused(p) ==
    /\ Sending(p)
    /\ client[p].session \in live /\ ~Accepted(p)
    /\ Fail(p, "refused", 0)
    /\ refused' = IF Calling(p)
                  THEN refused \cup {client[p].session} ELSE refused
    /\ UNCHANGED <<live, opened, highest, shared>>

BeginCall(p) ==
    /\ client[p].at = "ready" /\ client[p].calls < LastCall
    /\ client' = [client EXCEPT ![p].at = "call", ![p].calls = @ + 1]
    /\ call' = [call EXCEPT ![p] = [answer |-> "open", executed |-> 0]]
    /\ UNCHANGED <<cache, live, opened, highest, shared, refused>>

-----------------------------------------------------------------------------
(* The end of a process.                                                   *)

Ended(p) == client' = [client EXCEPT ![p].at = "ended"]

\* release_session: the session is left to the next process.  A failed write
\* leaves the old file; a state that is not logged in is refused when it is
\* loaded, like no file.
Release(p) ==
    /\ client[p].at = "ready"
    /\ cache' \in {cache, IF NeedsLogin(p) THEN NoSession
                          ELSE [session |-> client[p].session, pno |-> client[p].pno]}
    /\ Ended(p)
    /\ UNCHANGED <<live, opened, highest, call, shared, refused>>

\* close: logout, whose request may fail; the cache is cleared, whoever
\* wrote it.
Close(p) ==
    /\ client[p].at = "ready"
    /\ live' \in {live, live \ {client[p].session}}
    /\ cache' = IF NeedsLogin(p) THEN cache ELSE NoSession
    /\ Ended(p)
    /\ UNCHANGED <<opened, highest, call, shared, refused>>

Crash(p) ==
    /\ client[p].at \notin {"new", "ended"}
    /\ Ended(p)
    /\ UNCHANGED <<cache, live, opened, highest, call, shared, refused>>

-----------------------------------------------------------------------------
Next ==
    \/ \E s \in Sessions : Expire(s)
    \/ \E p \in Processes :
          \/ Start(p) \/ Login(p) \/ LoginFails(p)
          \/ Answered(p) \/ BusinessRefuses(p) \/ TransportFails(p)
          \/ SessionExpired(p) \/ PnoRefused(p)
          \/ BeginCall(p) \/ Release(p) \/ Close(p) \/ Crash(p)

Spec == Init /\ [][Next]_vars

-----------------------------------------------------------------------------
\* A call, which may be an order, is executed at most once, although an
\* expired session makes the client send it twice; the caller is told that it
\* succeeded only if it was executed, and that it was refused only if not.
CallOutcomeIsTrue ==
    \A p \in Processes :
        /\ call[p].executed <= 1
        /\ call[p].answer = "ok" => call[p].executed = 1
        /\ call[p].answer \in {"open", "refused"} => call[p].executed = 0

\* A process that has passed its health check is refused for its p_no only in
\* a session it shares: a session handed over with its p_no, or restored from
\* a file its last user did not clear, is usable or is found out in time.
RefusedOnlyIfShared == refused \subseteq shared
=============================================================================
