---------------------------- MODULE TokenBucket ----------------------------
(***************************************************************************)
(* _TokenBucket of ingestion/iapd.py: at most so many requests to the SEC  *)
(* in any stretch of time.                                                 *)
(*                                                                         *)
(* Time advances in ticks.  Tokens are counted in the time they take to    *)
(* grow: a whole one is worth Unit ticks (1 / rate), the bucket holds Full *)
(* (max(rate, 1) tokens).  Callers queue on an asyncio.Lock, which is      *)
(* first come, first served; whoever finds less than a token sleeps with   *)
(* the lock held.  A sleep may last longer than asked for.                 *)
(***************************************************************************)
EXTENDS Naturals, Sequences

CONSTANTS
    Callers,   \* coroutines that acquire
    Unit,      \* ticks a token takes to grow
    Full,      \* capacity
    Horizon,   \* bound: ticks a window is watched
    NULL

\* rate is positive, and the bucket holds a token at least.
Parameters ==
    /\ Unit \in Nat \ {0}
    /\ Full \in Nat /\ Full >= Unit
    /\ Horizon \in Nat
    /\ NULL \notin Callers

VARIABLES
    tokens,    \* _tokens
    idle,      \* now - _last, cut off at Full, which fills any bucket
    queue,     \* who waits for the lock
    sleeper,   \* who sleeps with the lock held
    left,      \* how long yet
    window     \* a stretch of time and the tokens granted in it

vars == <<tokens, idle, queue, sleeper, left, window>>

-----------------------------------------------------------------------------
Least(a, b) == IF a < b THEN a ELSE b

FilledUncapped(t, i) == t + i       \* mutant: no capacity

\* What acquire() finds when it looks after i ticks.
Filled(t, i) == Least(Full, t + i)

\* One tick more since _last.
Aged(i) == IF i < Full THEN i + 1 ELSE i

Closed == [open |-> FALSE, elapsed |-> 0, granted |-> 0]

Opened == [Closed EXCEPT !.open = TRUE]

Window == {w \in [open : BOOLEAN, elapsed : Nat, granted : Nat] :
             ~w.open => w = Closed}

Counted(w) == IF w.open THEN [w EXCEPT !.granted = @ + 1] ELSE w

Watched(w) ==
    IF w.open /\ w.elapsed < Horizon THEN [w EXCEPT !.elapsed = @ + 1] ELSE Closed

TypeOK ==
    /\ tokens \in 0 .. Full
    /\ idle \in 0 .. Full
    /\ queue \in Seq(Callers)
    /\ sleeper \in Callers \cup {NULL}
    /\ left \in 0 .. Unit
    /\ window \in Window

Init ==
    /\ tokens = Full
    /\ idle = 0
    /\ queue = <<>>
    /\ sleeper = NULL
    /\ left = 0
    /\ window = Closed

-----------------------------------------------------------------------------
\* A client that has ended is replaced by a new one, with a bucket of its own.
New ==
    /\ queue = <<>>
    /\ sleeper = NULL
    /\ tokens' = Full
    /\ idle' = 0
    /\ window' = Closed
    /\ UNCHANGED <<queue, sleeper, left>>

Call(c) ==
    /\ c # sleeper
    /\ \A i \in 1 .. Len(queue) : queue[i] # c
    /\ queue' = Append(queue, c)
    /\ UNCHANGED <<tokens, idle, sleeper, left, window>>

Take ==
    /\ queue # <<>>
    /\ sleeper = NULL
    /\ Filled(tokens, idle) >= Unit
    /\ tokens' = Filled(tokens, idle) - Unit
    /\ idle' = 0
    /\ queue' = Tail(queue)
    /\ window' = Counted(window)
    /\ UNCHANGED <<sleeper, left>>

Sleep ==
    /\ queue # <<>>
    /\ sleeper = NULL
    /\ Filled(tokens, idle) < Unit
    /\ tokens' = Filled(tokens, idle)
    /\ idle' = 0
    /\ sleeper' = Head(queue)
    /\ queue' = Tail(queue)
    /\ left' = Unit - Filled(tokens, idle)
    /\ UNCHANGED window

WakeKeeping ==                      \* mutant: the clock is not restarted
    /\ sleeper # NULL
    /\ left = 0
    /\ tokens' = 0
    /\ sleeper' = NULL
    /\ window' = Counted(window)
    /\ UNCHANGED <<idle, queue, left>>

\* What grew during the sleep, however long it was, is spent on this token.
Wake ==
    /\ sleeper # NULL
    /\ left = 0
    /\ tokens' = 0
    /\ idle' = 0
    /\ sleeper' = NULL
    /\ window' = Counted(window)
    /\ UNCHANGED <<queue, left>>

\* The process dies, or the task is cancelled in its sleep.
Abandon ==
    /\ queue' = <<>>
    /\ sleeper' = NULL
    /\ left' = 0
    /\ UNCHANGED <<tokens, idle, window>>

Tick ==
    /\ idle' = Aged(idle)
    /\ left' = IF left > 0 THEN left - 1 ELSE left
    /\ window' = Watched(window)
    /\ UNCHANGED <<tokens, queue, sleeper>>

\* Any moment may begin a window, and any may end it.
Watch ==
    /\ window' \in {Closed, Opened}
    /\ UNCHANGED <<tokens, idle, queue, sleeper, left>>

Next ==
    \/ New
    \/ \E c \in Callers : Call(c)
    \/ Take
    \/ Sleep
    \/ Wake
    \/ Abandon
    \/ Tick
    \/ Watch

Spec == Init /\ [][Next]_vars

-----------------------------------------------------------------------------
(***************************************************************************)
(* In no stretch of time are more tokens granted than the bucket holds     *)
(* plus what grows meanwhile, whoever waits on the lock and however late   *)
(* a sleeper wakes (setting the bucket to zero after a sleep must not give *)
(* away what grew in it).                                                  *)
(***************************************************************************)
Pace == window.granted * Unit <= Full + window.elapsed
=============================================================================
