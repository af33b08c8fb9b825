----------------------------- MODULE RateLimit ------------------------------
(***************************************************************************)
(* rateLimit of the resolver: for each address a window that opens with a  *)
(* request, and a timer that forgets the windows that are over.  A client  *)
(* learns from a refusal after how many seconds to come back.  cors        *)
(* answers an OPTIONS request before, which is no step here.               *)
(***************************************************************************)
EXTENDS Integers, Sequences, FiniteSets

CONSTANTS
    Client,      \* addresses
    WindowMs,    \* the window, in clock ticks
    MaxRequests, \* requests that pass in a window
    Second,      \* clock ticks of the second in which Retry-After counts
    MaxClock,    \* bound: the clock stops here
    MaxArrivals  \* bound: requests of a client

ASSUME RateAssumption == {WindowMs, MaxRequests, Second} \subseteq Nat \ {0}

VARIABLES
    clock,
    hits,    \* address -> count and resetAt, of those that are remembered
    asked    \* history: address -> the time of each request, and its answer

rateVars == <<clock, hits, asked>>

Opened == [count |-> 0, resetAt |-> clock + WindowMs]

Window(x) ==
    IF x \in DOMAIN hits /\ hits[x].resetAt > clock THEN hits[x] ELSE Opened

\* Whole seconds, rounded up.  Mutant: rounded down.
RetryAfterDown(w) == (w.resetAt - clock) \div Second

RetryAfter(w) == (w.resetAt - clock + Second - 1) \div Second

Arrive(x) ==
    LET w == [Window(x) EXCEPT !.count = @ + 1]
    IN  /\ Len(asked[x]) < MaxArrivals
        /\ hits' = [y \in DOMAIN hits \cup {x} |-> IF y = x THEN w ELSE hits[y]]
        /\ asked' = [asked EXCEPT ![x] = Append(@,
              [time |-> clock, passed |-> w.count =< MaxRequests,
               retryAt |-> clock + Second * RetryAfter(w)])]
        /\ UNCHANGED clock

Expired(x) == hits[x].resetAt =< clock

\* The timer, which may be late but is never owed.
Cleanup ==
    /\ \E x \in DOMAIN hits : Expired(x)
    /\ hits' = [x \in {y \in DOMAIN hits : ~Expired(y)} |-> hits[x]]
    /\ UNCHANGED <<clock, asked>>

Elapse ==
    /\ clock < MaxClock
    /\ clock' = clock + 1
    /\ UNCHANGED <<hits, asked>>

RateInit ==
    /\ clock = 0
    /\ hits = <<>>
    /\ asked = [x \in Client |-> <<>>]

RateNext == (\E x \in Client : Arrive(x)) \/ Cleanup \/ Elapse

RateSpec == RateInit /\ [][RateNext]_rateVars

-----------------------------------------------------------------------------
\* The requests of x, of those in N, in the ticks from a up to but not b.
Within(x, N, a, b) == {n \in N : a =< asked[x][n].time /\ asked[x][n].time < b}

Passed(x) == {n \in DOMAIN asked[x] : asked[x][n].passed}

\* Whatever the windows' boundaries and the timer do: a client that keeps to
\* the limit over every interval as long as a window is never refused, whatever
\* others do; no interval of that length passes more than twice the limit; and
\* who comes back when Retry-After said is served.
RateFair ==
    \A x \in Client :
        /\ \A n \in DOMAIN asked[x] :
              ~asked[x][n].passed =>
                 Cardinality(Within(x, 1..n, asked[x][n].time - WindowMs + 1,
                                    asked[x][n].time + 1)) > MaxRequests
        /\ \A t \in 0..MaxClock :
              Cardinality(Within(x, Passed(x), t, t + WindowMs)) =< 2 * MaxRequests
        /\ \A n \in 2..Len(asked[x]) :
              ~asked[x][n - 1].passed /\ asked[x][n - 1].retryAt =< asked[x][n].time =>
                 asked[x][n].passed
=============================================================================
