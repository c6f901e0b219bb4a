----------------------------- MODULE Idempotency -----------------------------
(***************************************************************************)
(* The idempotency middleware of the FastAPI kit: middleware.py,           *)
(* IdempotencyMiddleware.                                                  *)
(*                                                                         *)
(* A request that carries an Idempotency-Key is looked up in the cache of  *)
(* responses under its tenant, its key, and a hash of its target (method   *)
(* and path), query and body, joined by colons.  A hit is replayed.  A     *)
(* miss runs the application; each chunk of its response goes to the       *)
(* client first, and after the last chunk a 2xx response is written to the *)
(* cache.  Nothing marks a key as in progress.  Requests run concurrently, *)
(* in several processes that share the cache, and may be cut anywhere.     *)
(* The cache may be one that raises when it fails, or the kit's            *)
(* SigningCacheWrapper, whose get answers None instead.                    *)
(*                                                                         *)
(* Tenants, keys, targets and queries are sequences of characters; only    *)
(* the colon matters.                                                      *)
(***************************************************************************)
EXTENDS Sequences, Naturals

CONSTANTS
    Slots,        \* requests that may be served at the same time
    Chars,        \* characters, and the hash of a body as if it were one
    Colon,        \* the character that joins the parts of a key
    Operations,   \* what clients send: tenant, key, target, query and body
    NoTenant,     \* the tenant of a request without an identity
    NoKey,        \* the key of a request without the header, or not POST, PUT, PATCH
    Partial,      \* what arrives of a body when the client hangs up meanwhile
    Oversize,     \* bodies above max_body_size_bytes
    HashBody(_),     \* sixteen digits of the hash of a body
    HashRequest(_),  \* sixteen digits of the hash of a request's text
    Chunks,       \* chunks of a response of the application
    TTL           \* ttl_seconds, in ticks

ASSUME ConfigAssumption ==
    /\ Chunks \in Nat \ {0}
    /\ TTL \in Nat \ {0}
    /\ \E o \in Operations : o.tenant # NoTenant /\ o.key # NoKey
    /\ Colon \in Chars
    /\ \A o \in Operations :
        /\ o.tenant # NoTenant => o.tenant \in Seq(Chars)
        /\ o.key # NoKey => o.key \in Seq(Chars)
        /\ o.target \in Seq(Chars) /\ o.query \in Seq(Chars)
        /\ HashBody(o.body) \in Chars
    /\ HashBody(Partial) \in Chars

VARIABLES
    ready,      \* app.state.cache is there
    cache,      \* responses: of which operation, chunks, 2xx, ticks to live
    phase,      \* where each request is
    asked,      \* the operation of its last lookup, with the body as it was received
    sent,       \* chunks of the application's response it has sent
    good,       \* that response is 2xx
    answer,     \* what its client has been answered in full
    settled,    \* history: ticks for which a response stored in full has to be replayed
    guarded,    \* history: the request came in while its key was settled
    blind       \* history: its lookup failed in the cache, which answered None

vars == <<ready, cache, phase, asked, sent, good, answer, settled, guarded, blind>>

Phases == {"idle", "direct", "lookup", "retry", "missed", "reply", "store"}
Answers == {"none", "app", "replay", "unavailable"}

\* The operation with what is taken for its body.
As(o, body) == [tenant |-> o.tenant, key |-> o.key, target |-> o.target,
                query |-> o.query, body |-> body]

\* Operations as the middleware receives them: a disconnect ends the buffering
\* of a body, and the part that is there is used.
Received == {As(o, o.body) : o \in Operations} \cup {As(o, Partial) : o \in Operations}

Part(s) == <<Colon>> \o s

\* What is hashed: an empty query and a body above the limit are left out.
Text(o) ==
    o.target \o (IF o.query = <<>> THEN <<>> ELSE Part(o.query))
             \o (IF o.body \in Oversize THEN <<>> ELSE Part(<<HashBody(o.body)>>))

\* Bug: the tenant is left out of the key.
CacheKeyNoTenant(o) == <<o.key, HashRequest(Text(o))>>

\* The parts that clients choose are joined, the hash ends the key.
CacheKey(o) == <<o.tenant \o Part(o.key), HashRequest(Text(o))>>

\* The other requests pass straight through to the application.
Keyed(o) == o.tenant # NoTenant /\ o.key # NoKey

LookedUp == {o \in Received : Keyed(o)}
Keys == {CacheKey(o) : o \in LookedUp}
SomeOperation == CHOOSE o \in LookedUp : TRUE
Entries == [of : LookedUp, chunks : 0 .. Chunks, good : BOOLEAN, left : 0 .. TTL]
Absent == [of |-> SomeOperation, chunks |-> 0, good |-> FALSE, left |-> 0]
Live(k) == cache[k].left > 0

TypeOK ==
    /\ ready \in BOOLEAN
    /\ cache \in [Keys -> Entries]
    /\ phase \in [Slots -> Phases]
    /\ asked \in [Slots -> LookedUp]
    /\ sent \in [Slots -> 0 .. Chunks]
    /\ good \in [Slots -> BOOLEAN]
    /\ answer \in [Slots -> Answers]
    /\ settled \in [Keys -> 0 .. TTL]
    /\ guarded \in [Slots -> BOOLEAN]
    /\ blind \in [Slots -> BOOLEAN]

Init ==
    /\ ready = FALSE
    /\ cache = [k \in Keys |-> Absent]
    /\ phase = [r \in Slots |-> "idle"]
    /\ asked = [r \in Slots |-> SomeOperation]
    /\ sent = [r \in Slots |-> 0]
    /\ good = [r \in Slots |-> FALSE]
    /\ answer = [r \in Slots |-> "none"]
    /\ settled = [k \in Keys |-> 0]
    /\ guarded = [r \in Slots |-> FALSE]
    /\ blind = [r \in Slots |-> FALSE]
-----------------------------------------------------------------------------
To(r, p) == phase' = [phase EXCEPT ![r] = p]

\* The request ends, and this is what its client got.
Quit(r, a) ==
    /\ To(r, "idle")
    /\ answer' = [answer EXCEPT ![r] = a]
    /\ sent' = [sent EXCEPT ![r] = 0]
    /\ good' = [good EXCEPT ![r] = FALSE]
    /\ UNCHANGED <<asked, guarded, blind>>

\* The start-up of the application connects the cache.
Connect ==
    /\ ~ready
    /\ ready' = TRUE
    /\ UNCHANGED <<cache, phase, asked, sent, good, answer, settled, guarded, blind>>

\* _handle_http up to the lookup.  Only a request that will be looked up has
\* its body buffered; without a cache it is refused.
Arrive(r, o, body) ==
    /\ phase[r] = "idle"
    /\ body \in {o.body, Partial}
    /\ LET in == As(o, body) IN
         \/ /\ o.key = NoKey \/ (ready /\ o.tenant = NoTenant)
            /\ body = o.body
            /\ To(r, "direct")
            /\ answer' = [answer EXCEPT ![r] = "none"]
            /\ guarded' = [guarded EXCEPT ![r] = FALSE]
            /\ UNCHANGED asked
         \/ /\ o.key # NoKey /\ ~ready
            /\ body = o.body
            /\ answer' = [answer EXCEPT ![r] = "unavailable"]
            /\ guarded' = [guarded EXCEPT ![r] = FALSE]
            /\ UNCHANGED <<phase, asked>>
         \/ /\ ready /\ Keyed(o)
            /\ To(r, "lookup")
            /\ asked' = [asked EXCEPT ![r] = in]
            /\ answer' = [answer EXCEPT ![r] = "none"]
            /\ guarded' = [guarded EXCEPT ![r] = settled[CacheKey(in)] > 0]
    /\ blind' = [blind EXCEPT ![r] = FALSE]
    /\ UNCHANGED <<ready, cache, sent, good, settled>>

\* The application answers a request that passes through.
Direct(r) ==
    /\ phase[r] = "direct"
    /\ Quit(r, "app")
    /\ UNCHANGED <<ready, cache, settled>>

\* cache.get finds a value: it is replayed, or the request is refused because
\* the value is malformed (something else wrote it, or an older version).
Hit(r) ==
    /\ phase[r] \in {"lookup", "retry"}
    /\ Live(CacheKey(asked[r]))
    /\ Quit(r, "replay") \/ Quit(r, "unavailable")
    /\ UNCHANGED <<ready, cache, settled>>

\* cache.get answers None: there is nothing, or the signing cache could not read
\* or verify what there is, and swallowed the error.
Miss(r) ==
    /\ phase[r] \in {"lookup", "retry"}
    /\ To(r, "missed")
    /\ blind' = [blind EXCEPT ![r] = Live(CacheKey(asked[r]))]
    /\ UNCHANGED <<ready, cache, asked, sent, good, answer, settled, guarded>>

\* Bug: when the second get fails too, the request goes on as a miss.
GetFailsOpen(r) ==
    /\ phase[r] \in {"lookup", "retry"}
    /\ To(r, IF phase[r] = "lookup" THEN "retry" ELSE "missed")
    /\ UNCHANGED <<ready, cache, asked, sent, good, answer, settled, guarded, blind>>

\* Bug: a get that fails is tried again and again.
GetFailsForever(r) ==
    /\ phase[r] \in {"lookup", "retry"}
    /\ To(r, IF phase[r] = "lookup" THEN "retry" ELSE "lookup")
    /\ UNCHANGED <<ready, cache, asked, sent, good, answer, settled, guarded, blind>>

\* cache.get fails: it is tried once more after a pause, then the request is
\* refused.
GetFails(r) ==
    \/ /\ phase[r] = "lookup"
       /\ To(r, "retry")
       /\ UNCHANGED <<ready, cache, asked, sent, good, answer, settled, guarded, blind>>
    \/ /\ phase[r] = "retry"
       /\ Quit(r, "unavailable")
       /\ UNCHANGED <<ready, cache, settled>>
-----------------------------------------------------------------------------
\* The application carries the operation out and starts its response.
Run(r) ==
    /\ phase[r] = "missed"
    /\ To(r, "reply")
    /\ \E ok \in BOOLEAN : good' = [good EXCEPT ![r] = ok]
    /\ UNCHANGED <<ready, cache, asked, sent, answer, settled, guarded, blind>>

\* Bug: more_body is not looked at.
SendAnyChunk(r) ==
    /\ phase[r] = "reply"
    /\ sent[r] < Chunks
    /\ \/ /\ sent[r] + 1 = Chunks /\ ~good[r]
          /\ Quit(r, "app")
       \/ /\ sent[r] + 1 < Chunks \/ good[r]
          /\ sent' = [sent EXCEPT ![r] = @ + 1]
          /\ To(r, IF good[r] THEN "store" ELSE "reply")
          /\ answer' = [answer EXCEPT ![r] = "app"]
          /\ UNCHANGED <<asked, good, guarded, blind>>
    /\ UNCHANGED <<ready, cache, settled>>

\* intercept_send forwards a chunk; after the last one a 2xx response is stored.
Send(r) ==
    /\ phase[r] = "reply"
    /\ sent[r] < Chunks
    /\ \/ /\ sent[r] + 1 = Chunks /\ ~good[r]
          /\ Quit(r, "app")
       \/ /\ sent[r] + 1 < Chunks \/ good[r]
          /\ sent' = [sent EXCEPT ![r] = @ + 1]
          /\ To(r, IF sent[r] + 1 = Chunks THEN "store" ELSE "reply")
          /\ answer' = [answer EXCEPT ![r] = IF sent[r] + 1 = Chunks THEN "app" ELSE @]
          /\ UNCHANGED <<asked, good, guarded, blind>>
    /\ UNCHANGED <<ready, cache, settled>>

\* _cache_intercepted_response; with it the request is over.
Store(r) ==
    LET k == CacheKey(asked[r]) IN
    /\ phase[r] = "store"
    /\ cache' = [cache EXCEPT ![k] =
           [of |-> asked[r], chunks |-> sent[r], good |-> good[r], left |-> TTL]]
    /\ settled' = [settled EXCEPT ![k] = TTL]
    /\ Quit(r, "app")
    /\ UNCHANGED ready

\* The write raises, before or after the cache has applied it, or the body is
\* not text; the error is swallowed.
StoreFails(r) ==
    LET k == CacheKey(asked[r]) IN
    /\ phase[r] = "store"
    /\ \/ cache' = [cache EXCEPT ![k] =
           [of |-> asked[r], chunks |-> sent[r], good |-> good[r], left |-> TTL]]
       \/ UNCHANGED cache
    /\ Quit(r, "app")
    /\ UNCHANGED <<ready, settled>>

\* The application raises, sending raises, or the task is cancelled or its
\* process dies, at any await: whatever was done stays done.
Abort(r) ==
    /\ phase[r] # "idle"
    /\ Quit(r, answer[r])
    /\ UNCHANGED <<ready, cache, settled>>
-----------------------------------------------------------------------------
\* The cache drops a response before its time (eviction, flush, restart).
Lose(k) ==
    /\ Live(k)
    /\ cache' = [cache EXCEPT ![k] = Absent]
    /\ settled' = [settled EXCEPT ![k] = 0]
    /\ guarded' = [r \in Slots |-> guarded[r] /\ CacheKey(asked[r]) # k]
    /\ UNCHANGED <<ready, phase, asked, sent, good, answer, blind>>

\* Bug: an entry is not dropped when its time to live is over.
TickPastZero ==
    /\ \E k \in Keys : Live(k)
    /\ cache' = [k \in Keys |-> [cache[k] EXCEPT !.left = @ - 1]]
    /\ settled' = [k \in Keys |-> IF settled[k] > 0 THEN settled[k] - 1 ELSE 0]
    /\ guarded' = [r \in Slots |-> guarded[r] /\ settled'[CacheKey(asked[r])] > 0]
    /\ UNCHANGED <<ready, phase, asked, sent, good, answer, blind>>

\* Time passes at the cache.
Tick ==
    /\ \E k \in Keys : Live(k)
    /\ cache' = [k \in Keys |-> IF cache[k].left > 1 THEN [cache[k] EXCEPT !.left = @ - 1] ELSE Absent]
    /\ settled' = [k \in Keys |-> IF settled[k] > 0 THEN settled[k] - 1 ELSE 0]
    /\ guarded' = [r \in Slots |-> guarded[r] /\ settled'[CacheKey(asked[r])] > 0]
    /\ UNCHANGED <<ready, phase, asked, sent, good, answer, blind>>

Serve(r) == Direct(r) \/ Hit(r) \/ Miss(r) \/ GetFails(r) \/ Run(r) \/ Send(r) \/ Store(r) \/ StoreFails(r)

Next ==
    \/ Connect \/ Tick
    \/ \E r \in Slots :
        \/ \E o \in Operations : \E b \in {o.body, Partial} : Arrive(r, o, b)
        \/ Serve(r)
        \/ Abort(r)
    \/ \E k \in Keys : Lose(k)

Spec == Init /\ [][Next]_vars

\* A request that is being served goes on: its awaits return or raise.
FairSpec == Spec /\ \A r \in Slots : WF_vars(Serve(r))
-----------------------------------------------------------------------------
RunsApplication(r) == phase[r] \in {"missed", "reply", "store"} \/ answer[r] = "app"

\* A request whose key already had its response stored, by a request that was
\* over when this one came in, does not run the application as long as that
\* response has to live, unless the cache hides from it that its own lookup
\* failed: not when the cache raises, once or twice, not when later requests
\* fail, overlap, are cut, or do run it (lookup, second get, 503).
NoReexecution == \A r \in Slots : guarded[r] /\ ~blind[r] => ~RunsApplication(r)

\* Without a colon, a part of a key ends where it seems to.
Plain(s) == \A i \in 1 .. Len(s) : s[i] # Colon

\* What a lookup can replay, and what was asked.
Replayable == {<<cache[CacheKey(asked[r])].of, asked[r]>> : r \in
    {q \in Slots : phase[q] \in {"lookup", "retry"} /\ Live(CacheKey(asked[q]))}}

\* Two tenants never get each other's responses, nor one a response to another
\* of its keys, whatever colons the keys have, if the tenants have none.  If
\* moreover the targets have none, and the hashes of requests tell these two
\* apart, the response is that to the same target, and, for bodies that are
\* hashed, to the same query and a body of the same hash
\* (_build_cache_key, _compute_body_hash).
ReplayIsOwn ==
    \A pair \in Replayable : LET of == pair[1] in == pair[2] IN
        /\ Plain(of.tenant) /\ Plain(in.tenant) =>
               of.tenant = in.tenant /\ of.key = in.key
        /\ Plain(of.target) /\ Plain(in.target) /\ Text(of) = Text(in) =>
               /\ of.target = in.target
               /\ of.body \notin Oversize /\ in.body \notin Oversize =>
                      of.query = in.query /\ HashBody(of.body) = HashBody(in.body)

\* What a lookup can replay is a whole 2xx response, never the first chunks of
\* one that was cut or is still being sent (intercept_send).
ReplayIsWhole == \A k \in Keys : Live(k) => cache[k].chunks = Chunks /\ cache[k].good

\* Every request is over some day, whatever the cache does: there is one retry.
RequestsEnd == \A r \in Slots : (phase[r] # "idle") ~> (phase[r] = "idle")
=============================================================================
