---------------------------- MODULE SECRequests ----------------------------
(***************************************************************************)
(* IAPDClient._request_with_retries of ingestion/iapd.py: the coroutines   *)
(* of one client send requests to the SEC, each after acquire() of the     *)
(* client's TokenBucket, and send again what was refused for now.          *)
(*                                                                         *)
(* Every pipeline run and every CLI builds a client, hence a bucket, of    *)
(* its own, so the bound shown here is per client; clients share nothing.  *)
(***************************************************************************)
EXTENDS Naturals, Sequences

CONSTANTS
    Callers, Unit, Full, Horizon, NULL,    \* as in TokenBucket
    Second,       \* ticks in the first backoff
    MaxRetries,   \* sec_max_retries
    RetryAfters   \* what the SEC may put in Retry-After, in ticks

\* Without Retry-After, the backoff doubles.
Doubled(attempt) == Second * 2 ^ attempt

\* (The last is arithmetic, but of powers the provers know nothing.)
ASSUME RetryAssumption ==
    /\ Second \in Nat
    /\ MaxRetries \in Nat
    /\ RetryAfters \subseteq Nat
    /\ \A n \in 0 .. MaxRetries : Doubled(n) \in Nat

VARIABLES
    tokens, idle, queue, sleeper, left,    \* of the bucket
    sent,         \* a stretch of time, and the requests sent in it
    request       \* what each coroutine is doing

bucket == <<tokens, idle, queue, sleeper, left>>

vars == <<bucket, sent, request>>

\* To the bucket a request is a token granted.
Limiter == INSTANCE TokenBucket WITH window <- sent

ASSUME BucketAssumption == Limiter!Parameters

-----------------------------------------------------------------------------
Request == [pc      : {"idle", "acquiring", "sent", "backoff"},
            attempt : 0 .. MaxRetries,
            wait    : Nat]

NoRequest == [pc |-> "idle", attempt |-> 0, wait |-> 0]

TypeOK ==
    /\ Limiter!TypeOK
    /\ request \in [Callers -> Request]
    /\ \A c \in Callers :
          request[c].pc = "acquiring"
            <=> c = sleeper \/ \E i \in 1 .. Len(queue) : queue[i] = c

Init ==
    /\ Limiter!Init
    /\ request = [c \in Callers |-> NoRequest]

At(c, pc) == request[c].pc = pc

Goes(c, pc) == request' = [request EXCEPT ![c].pc = pc]

-----------------------------------------------------------------------------
\* list_current_brochures or fetch_brochure needs the SEC.
Ask(c) ==
    /\ At(c, "idle")
    /\ Limiter!Call(c)
    /\ request' = [request EXCEPT ![c] = [NoRequest EXCEPT !.pc = "acquiring"]]

\* acquire() returns, at once or after a sleep, and the request is sent.
Send(c) ==
    /\ \/ Limiter!Take /\ c = Head(queue)
       \/ Limiter!Wake /\ c = sleeper
    /\ Goes(c, "sent")

Throttle == Limiter!Sleep /\ UNCHANGED request

\* A status below 400; or one not worth a retry, one retry too many, a
\* timeout, a broken connection: an exception the caller does not catch.
Ends(c) ==
    /\ At(c, "sent")
    /\ request' = [request EXCEPT ![c] = NoRequest]
    /\ UNCHANGED <<bucket, sent>>

\* It doubles also while Retry-After takes its place.
Backoff(attempt) == {Doubled(attempt)} \cup RetryAfters

AttemptNotCounted(n) == n            \* mutant: refusals are not counted

Attempt(n) == n + 1

\* 429, 500, 502, 503 or 504.
Refused(c) ==
    /\ At(c, "sent")
    /\ request[c].attempt < MaxRetries
    /\ \E t \in Backoff(request[c].attempt) :
          request' = [request EXCEPT ![c].pc = "backoff", ![c].wait = t,
                                     ![c].attempt = Attempt(@)]
    /\ UNCHANGED <<bucket, sent>>

RetryAtOnce(c) ==                   \* mutant: acquired once per request
    /\ At(c, "backoff")
    /\ request[c].wait = 0
    /\ sent' = Limiter!Counted(sent)
    /\ Goes(c, "sent")
    /\ UNCHANGED bucket

Retry(c) ==
    /\ At(c, "backoff")
    /\ request[c].wait = 0
    /\ Limiter!Call(c)
    /\ Goes(c, "acquiring")

\* The process dies or its tasks are cancelled.
Abandon ==
    /\ Limiter!Abandon
    /\ request' = [c \in Callers |-> NoRequest]

\* A run of its own builds a client of its own.
NewClient ==
    /\ \A c \in Callers : At(c, "idle")
    /\ Limiter!New
    /\ UNCHANGED request

Tick ==
    /\ Limiter!Tick
    /\ request' = [c \in Callers |->
                     [request[c] EXCEPT !.wait = IF @ > 0 THEN @ - 1 ELSE @]]

Watch == Limiter!Watch /\ UNCHANGED request

Next ==
    \/ \E c \in Callers : Ask(c) \/ Send(c) \/ Ends(c) \/ Refused(c) \/ Retry(c)
    \/ Throttle
    \/ Abandon
    \/ NewClient
    \/ Tick
    \/ Watch

\* The event loop runs what is ready, time passes, and the SEC answers or the
\* request times out.
Fairness ==
    /\ WF_vars(Tick)
    /\ WF_vars(Throttle)
    /\ \A c \in Callers : WF_vars(Send(c)) /\ WF_vars(Retry(c))
                          /\ WF_vars(Ends(c) \/ Refused(c))

Spec == Init /\ [][Next]_vars /\ Fairness

-----------------------------------------------------------------------------
(* Properties. *)

(***************************************************************************)
(* In no stretch of time does a client send more requests, retries         *)
(* included, than its bucket holds plus what grows meanwhile, whatever the *)
(* coroutines that wait for the lock and however late a sleep ends.        *)
(***************************************************************************)
Pace == Limiter!Pace

(***************************************************************************)
(* The client does with the bucket only what a bucket allows: no request,  *)
(* and no retry, leaves without a token of its own.                        *)
(***************************************************************************)
EveryRequestHasAToken == Limiter!Spec

(***************************************************************************)
(* Every request ends, with an answer or an exception: retries are         *)
(* counted, sleeps are finite, and the lock is handed on in order.         *)
(***************************************************************************)
RequestEnds == \A c \in Callers : ~At(c, "idle") ~> At(c, "idle")

(***************************************************************************)
(* A request comes back to the SEC at most MaxRetries times, whatever it   *)
(* answers and whatever Retry-After says: in all a request does, from the  *)
(* first wait for a token on, the steps it has left get fewer.             *)
(***************************************************************************)
Stage(pc) == CASE pc = "backoff" -> 2 [] pc = "acquiring" -> 1 [] OTHER -> 0

HopsLeft(c) == 3 * (MaxRetries - request[c].attempt) + Stage(request[c].pc)

RetriesRunOut ==
    [][\A c \in Callers :
          \/ At(c, "idle") \/ At(c, "idle")'
          \/ UNCHANGED <<request[c].pc, request[c].attempt>>
          \/ HopsLeft(c)' < HopsLeft(c)]_vars
=============================================================================
