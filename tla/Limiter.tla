------------------------------- MODULE Limiter -------------------------------
(***************************************************************************)
(* allowChallenge: a fixed-window limit on the challenges that one source  *)
(* address may request per minute, with a bound on the addresses tracked.  *)
(*                                                                         *)
(* The body runs under challengeMu, but reads the clock before it takes    *)
(* the lock.  A request may therefore arrive with an earlier time than the *)
(* requests served before it.  The map lives as long as the process: the   *)
(* model covers one run of the relay.                                      *)
(***************************************************************************)
EXTENDS Integers, FiniteSets

CONSTANTS
  Sources,      \* remote addresses
  Limit,        \* config PairingAttemptsPerMinute
  MaxSources,   \* maxChallengeSources
  Window,       \* a minute, in ticks of the clock
  MaxLag,       \* how long a request may wait for challengeMu
  MaxTime,      \* bound on the clock
  Null

Attempt == [windowStart : Nat, count : Nat]

\* A request that was let through: the window of its source that it counted
\* in, its number in that window, and the time.
Passage == [window : Nat, nth : Nat, at : Nat]

ASSUME LimiterConstants ==
  /\ Null \notin Attempt
  /\ Limit \in Int
  /\ MaxSources \in Nat \ {0}
  /\ Window \in Nat \ {0}
  /\ MaxLag \in Nat /\ MaxLag < Window
  /\ MaxTime \in Nat
  /\ IsFiniteSet(Sources)

VARIABLES
  attempts,   \* s.challengeAttempts: source -> window or Null
  clock,
  opened,     \* history: how many windows a source has had
  allowed     \* history: the requests of a source that were let through

limiterVars == <<attempts, clock, opened, allowed>>

LimiterTypeOK ==
  /\ attempts \in [Sources -> Attempt \cup {Null}]
  /\ clock \in 0 .. MaxTime
  /\ opened \in [Sources -> Nat]
  /\ allowed \in [Sources -> SUBSET Passage]

LimiterInit ==
  /\ attempts = [a \in Sources |-> Null]
  /\ clock = 0
  /\ opened = [a \in Sources |-> 0]
  /\ allowed = [a \in Sources |-> {}]

Tracked(map) == {a \in Sources : map[a] # Null}

\* A window ends a minute after its start.
Over(attempt, now) == now - attempt.windowStart >= Window

\* The map after the loop that deletes the windows that are over.
Swept(now) ==
  [a \in Sources |->
     IF attempts[a] # Null /\ Over(attempts[a], now) THEN Null ELSE attempts[a]]

MutRoom(map) == Cardinality(Tracked(map)) <= MaxSources

\* Whether a source that is not tracked may be added.
Room(map) == Cardinality(Tracked(map)) < MaxSources

\* The window a request counts in.
WindowOf(map, a, now) ==
  IF map[a] = Null THEN [windowStart |-> now, count |-> 0] ELSE map[a]

MutOneMore(attempt) == attempt.count > Limit

Exhausted(attempt) == attempt.count >= Limit

\* allowChallenge for a request of source a that read the clock at now.
allowChallenge(a, now) ==
  LET map == Swept(now)
      attempt == WindowOf(map, a, now)
      window == opened[a] + (IF map[a] = Null THEN 1 ELSE 0) IN
  /\ Limit > 0
  /\ \/ /\ map[a] = Null
        /\ ~Room(map)
        /\ attempts' = map
        /\ UNCHANGED <<opened, allowed>>
     \/ /\ map[a] # Null \/ Room(map)
        /\ Exhausted(attempt)
        /\ attempts' = [map EXCEPT ![a] = attempt]
        /\ UNCHANGED <<opened, allowed>>
     \/ /\ map[a] # Null \/ Room(map)
        /\ ~Exhausted(attempt)
        /\ attempts' = [map EXCEPT ![a] = [attempt EXCEPT !.count = @ + 1]]
        /\ opened' = [opened EXCEPT ![a] = window]
        /\ allowed' = [allowed EXCEPT ![a] = @ \cup
             {[window |-> window, nth |-> attempt.count + 1, at |-> clock]}]
  /\ UNCHANGED clock

Tick ==
  /\ clock < MaxTime
  /\ clock' = clock + 1
  /\ UNCHANGED <<attempts, opened, allowed>>

Nows == {n \in 0..clock : clock <= n + MaxLag}

LimiterNext ==
  \/ \E a \in Sources, now \in Nows : allowChallenge(a, now)
  \/ Tick

LimiterSpec == LimiterInit /\ [][LimiterNext]_limiterVars

-----------------------------------------------------------------------------
(* Properties *)

\* The map never tracks more than maxChallengeSources addresses, whichever
\* requests arrive with a stale time.
TableBounded == Cardinality(Tracked(attempts)) <= MaxSources

\* The requests of a source that were let through in a span of time.
AllowedIn(a, from, to) == {x \in allowed[a] : from <= x.at /\ x.at <= to}

\* A source gets through at most twice the limit within a minute (less the
\* time that a request may wait for the lock), and never when the limit is
\* not positive: two windows can meet in such a span, three cannot, although
\* a stale request may open a window that starts before the previous one was
\* seen to be over.
BurstBound ==
  \A a \in Sources, from \in 0..MaxTime :
    Cardinality(AllowedIn(a, from, from + Window - MaxLag - 1))
      <= (IF Limit > 0 THEN 2 * Limit ELSE 0)

=============================================================================
