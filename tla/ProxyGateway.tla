---------------------------- MODULE ProxyGateway ----------------------------
(***************************************************************************)
(* The gateway in front of the model (memory/proxy/gateway.py, with the    *)
(* hooks of middleware.py and the answers kept by cache.py).  Threads look *)
(* the cache up, forward the request and copy the answer to the client     *)
(* piece by piece; what came until the pieces ended is kept for the next   *)
(* request with the same fields.  Upstream that closes the connection too  *)
(* early ends them as well, so a part of an answer is kept and served like *)
(* an answer.  Each look-up and each store is one transaction of sqlite.   *)
(* Requests that are refused before any of this (no token, too large,      *)
(* another path) change nothing and are left out.                          *)
(***************************************************************************)
EXTENDS Naturals, FiniteSets

CONSTANTS
    GwThreads,   \* the handler threads
    Asks,        \* the values of the fields of the key
    Endpoints,   \* the paths of MIDDLEWARE_PATHS
    MaxRows,     \* MAX_ROWS
    CacheTtl,    \* TTL, 24 h
    MaxGwClock,  \* bound: the clock
    MaxRequests, \* bound: the requests
    Preferred    \* mode is preferred and there is an upstream_fallback

ASSUME GatewayAssumption ==
    /\ {MaxRows, CacheTtl, MaxGwClock, MaxRequests} \subseteq Nat
    /\ MaxRows > 0 /\ Preferred \in BOOLEAN /\ {} \notin {Asks, Endpoints}

VARIABLES
    gwClock,     \* the time, in whole seconds as created_at has it
    rows,        \* the table of the cache
    gwAt,        \* where each thread is
    gwReq,       \* the request it handles
    answerOf,    \* the answer it has from upstream
    asked,       \* how many requests have arrived
    lastHit      \* history: the last answer that was served from the cache

gwVars == <<gwClock, rows, gwAt, gwReq, answerOf, asked, lastHit>>

\* plain: neither stream nor tools.
GwRequests == [ask : Asks, path : Endpoints, plain : BOOLEAN]
\* good: the status is below 400.  kept: it is small enough to be collected.
Answers == [good : BOOLEAN, kept : BOOLEAN]
Rows    == [ask : Asks, path : Endpoints, plain : BOOLEAN, good : BOOLEAN,
            at : 0 .. MaxGwClock]
NoAnswer == [good |-> FALSE, kept |-> FALSE]
GwSteps  == {"idle", "lookup", "connect", "forward", "body", "store"}
\* A hit: the row, and what was asked, and when.
Hits == [row : Rows, ask : Asks, path : Endpoints, at : 0 .. MaxGwClock]

GatewayTypeOK ==
    /\ gwClock \in 0 .. MaxGwClock /\ rows \subseteq Rows
    /\ gwAt \in [GwThreads -> GwSteps] /\ gwReq \in [GwThreads -> GwRequests]
    /\ answerOf \in [GwThreads -> Answers]
    /\ asked \in 0 .. MaxRequests
    /\ lastHit \subseteq Hits /\ Cardinality(lastHit) <= 1

GatewayInit ==
    /\ gwClock = 0 /\ rows = {} /\ gwAt = [t \in GwThreads |-> "idle"]
    /\ gwReq \in {[t \in GwThreads |-> q] : q \in {CHOOSE q \in GwRequests : TRUE}}
    /\ answerOf = [t \in GwThreads |-> NoAnswer]
    /\ asked = 0 /\ lastHit = {}

GwGoes(t, from, to) == gwAt[t] = from /\ gwAt' = [gwAt EXCEPT ![t] = to]
\* The request is over.
GwDone(t, from) ==
    GwGoes(t, from, "idle") /\ answerOf' = [answerOf EXCEPT ![t] = NoAnswer]
Expired(row) == gwClock - row.at > CacheTtl

Asked(t, q) ==
    /\ GwGoes(t, "idle", "lookup") /\ asked < MaxRequests /\ asked' = asked + 1
    /\ gwReq' = [gwReq EXCEPT ![t] = q]
    /\ UNCHANGED <<gwClock, rows, answerOf, lastHit>>

\* process_request, lookup: the key has the fields of the body and not the
\* path.  An expired row is deleted and is a miss.
LookUpCache(t) ==
    LET mine == {row \in rows : row.ask = gwReq[t].ask /\ gwReq[t].plain}
    IN  \/ \E row \in mine :
             /\ ~Expired(row) /\ GwGoes(t, "lookup", "idle")
             /\ lastHit' = {[row |-> row, ask |-> gwReq[t].ask,
                             path |-> gwReq[t].path, at |-> gwClock]}
             /\ UNCHANGED <<gwClock, rows, gwReq, answerOf, asked>>
        \/ /\ \A row \in mine : Expired(row)
           /\ GwGoes(t, "lookup", "connect") /\ rows' = rows \ mine
           /\ UNCHANGED <<gwClock, gwReq, answerOf, asked, lastHit>>

\* tcp_ok: pxpipe, or the fallback without the secrets, or 502.
Connect(t) ==
    /\ \/ GwGoes(t, "connect", "forward")
       \/ ~Preferred /\ GwGoes(t, "connect", "idle")
    /\ UNCHANGED <<gwClock, rows, gwReq, answerOf, asked, lastHit>>

\* _forward: the status line of upstream goes to the client at once.
HeadComes(t) ==
    /\ GwGoes(t, "forward", "body")
    /\ \E good \in BOOLEAN :
         answerOf' = [answerOf EXCEPT ![t] = [good |-> good, kept |-> good]]
    /\ UNCHANGED <<gwClock, rows, gwReq, asked, lastHit>>

\* The pieces end, because the answer does or because upstream closed early;
\* both look the same to the loop.  More than 2,000,000 bytes are not kept.
BodyEnds(t) ==
    /\ GwGoes(t, "body", "store")
    /\ \E small \in BOOLEAN : answerOf' = [answerOf EXCEPT ![t].kept = @ /\ small]
    /\ UNCHANGED <<gwClock, rows, gwReq, asked, lastHit>>

\* Upstream cannot be reached or times out, or the client has gone: 502, with
\* a status line of its own, also behind the one that was sent.
ForwardRaises(t) ==
    /\ GwDone(t, "forward") \/ GwDone(t, "body")
    /\ UNCHANGED <<gwClock, rows, gwReq, asked, lastHit>>

\* The oldest rows above the cap go, by created_at; of equals, any.
Evicted(table) ==
    {kept \in SUBSET table :
        /\ Cardinality(kept) = IF Cardinality(table) > MaxRows
                               THEN MaxRows ELSE Cardinality(table)
        /\ \A k \in kept, gone \in table \ kept : gone.at <= k.at}

RowOf(t) == [ask |-> gwReq[t].ask, path |-> gwReq[t].path, plain |-> gwReq[t].plain,
             good |-> answerOf[t].good, at |-> gwClock]

\* Errors are cached like answers.
MaybeStoreBroken(t) ==
    /\ GwDone(t, "store")
    /\ IF gwReq[t].plain
       THEN rows' \in Evicted({row \in rows : row.ask # gwReq[t].ask} \cup {RowOf(t)})
       ELSE UNCHANGED rows
    /\ UNCHANGED <<gwClock, gwReq, asked, lastHit>>

\* maybe_store_cache, store: one row for a key, the last one wins.
MaybeStore(t) ==
    /\ GwDone(t, "store")
    /\ IF gwReq[t].plain /\ answerOf[t].kept
       THEN rows' \in Evicted({row \in rows : row.ask # gwReq[t].ask} \cup {RowOf(t)})
       ELSE UNCHANGED rows
    /\ UNCHANGED <<gwClock, gwReq, asked, lastHit>>

GwTick ==
    /\ gwClock < MaxGwClock /\ gwClock' = gwClock + 1
    /\ UNCHANGED <<rows, gwAt, gwReq, answerOf, asked, lastHit>>

GatewayNext ==
    \/ \E t \in GwThreads :
         \/ \E q \in GwRequests : Asked(t, q)
         \/ LookUpCache(t) \/ Connect(t) \/ HeadComes(t) \/ BodyEnds(t)
         \/ ForwardRaises(t) \/ MaybeStore(t)
    \/ GwTick

----------------------------------------------------------------------------
(* What is served from the cache was an answer to a request with the same   *)
(* fields, within its time, and it never is an error, a stream or an answer *)
(* to tools, whatever other threads store and evict meanwhile; the table    *)
(* keeps one row for a key and stays under its cap (lookup, store).  That   *)
(* it is all of the answer is not so, and not said (_forward).              *)
HitsAreAnswers ==
    /\ \A h \in lastHit : /\ h.row.ask = h.ask /\ h.at - h.row.at <= CacheTtl
                          /\ h.row.good /\ h.row.plain
    /\ Cardinality(rows) <= MaxRows
    /\ \A r, s \in rows : r.ask = s.ask => r = s
=============================================================================
