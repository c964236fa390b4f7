--------------------------- MODULE ComponentProofs ---------------------------
(***************************************************************************)
(* Theorems about three components that share no state with the others.    *)
(*                                                                         *)
(* Identity, and Startup, which composes it with Migration, for every      *)
(* number of processes, keys and rows: the key file is never torn, relays  *)
(* that run one at a time keep one identity, and opening the store loses   *)
(* neither the rows of the old schema nor those of the current one.        *)
(*                                                                         *)
(* Frames, for every quota and every sequence of messages: the read limit  *)
(* cuts off no message that the parser would accept, and what is routed is *)
(* exactly the vocabulary of the sender's role.                            *)
(*                                                                         *)
(* Limiter, for every number of sources and every delay before the lock:   *)
(* the map of the challenge limit is bounded, and so is what one source    *)
(* gets through within a minute.                                           *)
(***************************************************************************)
EXTENDS Limiter, Startup, Frames, TLAPS

-----------------------------------------------------------------------------
(* Limiter: the windows of one source *)

\* The time after which a passage and a later one cannot be in one span.
Apart(x, time) == x.at + Window - MaxLag <= time

\* A passage of source a is in one of the windows the source has had, in one
\* of its Limit places, and in the past.
PassageOK(a, x) ==
  /\ x.at <= clock
  /\ x.window <= opened[a]
  /\ 1 <= x.nth /\ x.nth <= Limit

\* The current window of source a: its count covers the passages in it, and
\* it started at most MaxLag before the last passage of an earlier window.
CurrentOK(map, a, x) ==
  /\ map[a] = Null => (x.window < opened[a] => Apart(x, clock))
  /\ map[a] # Null =>
       /\ x.window = opened[a] => x.nth <= map[a].count
       /\ x.window < opened[a] => x.at <= map[a].windowStart + MaxLag

\* Two passages of source a have different places, and are apart when a
\* whole window lies between theirs.
PairOK(x, y) ==
  /\ x.window = y.window /\ x.nth = y.nth => x = y
  /\ x.window + 2 <= y.window => Apart(x, y.at)

SourceOK(map, a) ==
  /\ \A x \in allowed[a] :
       /\ PassageOK(a, x)
       /\ CurrentOK(map, a, x)
       /\ x.window + 2 <= opened[a] => Apart(x, clock)
  /\ \A x, y \in allowed[a] : PairOK(x, y)

\* The inductive invariant behind BurstBound.
BurstInv == LimiterTypeOK /\ \A a \in Sources : SourceOK(attempts, a)

LEMMA BurstStart == LimiterInit => BurstInv
  BY LimiterConstants DEF LimiterInit, BurstInv, LimiterTypeOK, SourceOK

\* The invariant holds of the map that is left after the windows that are
\* over were deleted.
LEMMA SweepKeeps ==
  ASSUME BurstInv, NEW now \in Nows
  PROVE  /\ Swept(now) \in [Sources -> Attempt \cup {Null}]
         /\ \A a \in Sources : SourceOK(Swept(now), a)
  <1>1. Swept(now) \in [Sources -> Attempt \cup {Null}]
    BY DEF BurstInv, LimiterTypeOK, Swept
  <1>2. ASSUME NEW a \in Sources, NEW x \in allowed[a]
        PROVE  CurrentOK(Swept(now), a, x)
    <2>1. x \in Passage /\ opened[a] \in Nat
      BY DEF BurstInv, LimiterTypeOK
    <2>2. CurrentOK(attempts, a, x)
      BY DEF BurstInv, SourceOK
    <2>3. CASE attempts[a] # Null /\ Over(attempts[a], now)
      <3>1. Swept(now)[a] = Null
        BY <2>3 DEF Swept
      <3>2. attempts[a] \in Attempt
        BY <2>3 DEF BurstInv, LimiterTypeOK
      <3>3. x.window < opened[a] => Apart(x, clock)
        BY <2>1, <2>2, <2>3, <3>2, LimiterConstants
           DEF CurrentOK, Apart, Over, Nows, Attempt, Passage, BurstInv, LimiterTypeOK
      <3> QED BY <3>1, <3>3 DEF CurrentOK
    <2>4. CASE ~(attempts[a] # Null /\ Over(attempts[a], now))
      <3>1. Swept(now)[a] = attempts[a]
        BY <2>4 DEF Swept
      <3> QED BY <2>2, <3>1 DEF CurrentOK
    <2> QED BY <2>3, <2>4
  <1> QED BY <1>1, <1>2 DEF BurstInv, SourceOK

\* A request that is let through takes a place that no passage has.
LEMMA PassageKeeps ==
  ASSUME BurstInv, NEW a \in Sources, NEW now \in Nows,
         NEW map \in [Sources -> Attempt \cup {Null}],
         \A b \in Sources : SourceOK(map, b),
         Limit > 0,
         NEW attempt \in Attempt, attempt = WindowOf(map, a, now),
         NEW window,
         window = opened[a] + (IF map[a] = Null THEN 1 ELSE 0),
         ~Exhausted(attempt),
         attempts' = [map EXCEPT ![a] = [attempt EXCEPT !.count = @ + 1]],
         opened' = [opened EXCEPT ![a] = window],
         allowed' = [allowed EXCEPT ![a] = @ \cup
           {[window |-> window, nth |-> attempt.count + 1, at |-> clock]}],
         clock' = clock
  PROVE  BurstInv'
  <1> DEFINE next == [attempt EXCEPT !.count = @ + 1]
             new == [window |-> window, nth |-> attempt.count + 1, at |-> clock]
  <1>   /\ opened[a] \in Nat /\ window \in Nat /\ clock \in Nat /\ now \in Nat
        /\ attempt.count \in Nat /\ attempt.windowStart \in Nat
        /\ now <= clock /\ clock <= now + MaxLag
    BY DEF BurstInv, LimiterTypeOK, Attempt, Nows
  <1>   /\ next \in Attempt
        /\ next.count = attempt.count + 1
        /\ next.windowStart = attempt.windowStart
        /\ next # Null
    BY LimiterConstants DEF Attempt
  <1>   /\ new \in Passage
        /\ new.window = window /\ new.nth = attempt.count + 1 /\ new.at = clock
    BY DEF Passage
  <1> HIDE DEF next, new
  <1>   /\ attempts' = [map EXCEPT ![a] = next]
        /\ allowed' = [allowed EXCEPT ![a] = @ \cup {new}]
    BY DEF next, new
  <1>5. LimiterTypeOK'
    BY DEF BurstInv, LimiterTypeOK
  <1>6. ASSUME NEW b \in Sources, b # a
        PROVE  SourceOK(attempts, b)'
    <2>1. /\ attempts'[b] = map[b] /\ opened'[b] = opened[b]
          /\ allowed'[b] = allowed[b]
      BY <1>6 DEF BurstInv, LimiterTypeOK
    <2> QED
      BY <2>1 DEF SourceOK, PassageOK, CurrentOK, Apart
  <1>7. SourceOK(attempts, a)'
    <2>   /\ attempts'[a] = next /\ opened'[a] = window
          /\ allowed'[a] = allowed[a] \cup {new}
      BY DEF BurstInv, LimiterTypeOK
    <2>   allowed[a] \subseteq Passage
      BY DEF BurstInv, LimiterTypeOK
    <2>3. ASSUME NEW x \in allowed[a]
          PROVE  /\ x.window <= window
                 /\ x.window = window => x.nth < new.nth
                 /\ x.window < window => x.at <= next.windowStart + MaxLag
                 /\ x.window + 2 <= window => Apart(x, clock)
      <3>1. x.window \in Nat /\ x.nth \in Nat /\ x.at \in Nat
        BY DEF Passage
      <3>2. /\ PassageOK(a, x) /\ CurrentOK(map, a, x)
            /\ x.window + 2 <= opened[a] => Apart(x, clock)
        BY DEF SourceOK
      <3>3. CASE map[a] = Null
        <4>1. attempt.windowStart = now /\ window = opened[a] + 1
          BY <3>3 DEF WindowOf
        <4> QED
          BY <3>1, <3>2, <3>3, <4>1, LimiterConstants
             DEF PassageOK, CurrentOK
      <3>4. CASE map[a] # Null
        <4>1. attempt = map[a] /\ window = opened[a]
          BY <3>4 DEF WindowOf
        <4> QED
          BY <3>1, <3>2, <3>4, <4>1 DEF PassageOK, CurrentOK
      <3> QED BY <3>3, <3>4
    <2>4. ASSUME NEW x \in allowed'[a]
          PROVE  /\ PassageOK(a, x)'
                 /\ CurrentOK(attempts, a, x)'
                 /\ (x.window + 2 <= opened[a] => Apart(x, clock))'
      <3>1. CASE x \in allowed[a]
        <4>1. PassageOK(a, x)
          BY <3>1 DEF SourceOK
        <4>2. x.window \in Nat /\ x.nth \in Nat /\ x.at \in Nat
          BY <3>1 DEF Passage
        <4> QED
          BY <2>3, <3>1, <4>1, <4>2
             DEF PassageOK, CurrentOK, Apart
      <3>2. CASE x = new
        BY <3>2, LimiterConstants
           DEF PassageOK, CurrentOK, Apart, Exhausted
      <3> QED BY <3>1, <3>2
    <2>5. ASSUME NEW x \in allowed'[a], NEW y \in allowed'[a]
          PROVE  PairOK(x, y)
      <3>1. CASE x \in allowed[a] /\ y \in allowed[a]
        BY <3>1 DEF SourceOK
      <3>2. CASE x \in allowed[a] /\ y = new
        BY <2>3, <3>2 DEF PairOK, Passage, Apart
      <3>3. CASE x = new /\ y \in allowed[a]
        BY <2>3, <3>3 DEF PairOK, Passage
      <3>4. CASE x = new /\ y = new
        BY <3>4 DEF PairOK
      <3> QED BY <3>1, <3>2, <3>3, <3>4
    <2> QED BY <2>4, <2>5 DEF SourceOK, PairOK, Apart
  <1> QED BY <1>5, <1>6, <1>7 DEF BurstInv

LEMMA BurstStep == BurstInv /\ [LimiterNext]_limiterVars => BurstInv'
  <1> SUFFICES ASSUME BurstInv, [LimiterNext]_limiterVars
               PROVE  BurstInv'
    OBVIOUS
  <1>1. ASSUME NEW a \in Sources, NEW now \in Nows, allowChallenge(a, now)
        PROVE  BurstInv'
    <2>1. PICK map : map = Swept(now)
      OBVIOUS
    <2>   /\ map \in [Sources -> Attempt \cup {Null}]
          /\ \A b \in Sources : SourceOK(map, b)
      BY <2>1, SweepKeeps
    <2>3. PICK attempt : attempt = WindowOf(map, a, now)
      OBVIOUS
    <2>4. PICK window : window = opened[a] + (IF map[a] = Null THEN 1 ELSE 0)
      OBVIOUS
    <2>5. attempt \in Attempt
      BY <2>3 DEF WindowOf, Attempt, Nows
    <2>   Limit > 0 /\ clock' = clock
      BY <1>1 DEF allowChallenge
    <2>7. ASSUME attempts' = map, UNCHANGED <<opened, allowed>>
          PROVE  BurstInv'
      <3>1. LimiterTypeOK'
        BY <2>7 DEF BurstInv, LimiterTypeOK
      <3>2. ASSUME NEW b \in Sources
            PROVE  SourceOK(attempts, b)'
        BY <2>7
           DEF SourceOK, PassageOK, CurrentOK, Apart
      <3> QED BY <3>1, <3>2 DEF BurstInv
    <2>8. ASSUME Exhausted(attempt), attempts' = [map EXCEPT ![a] = attempt],
                 UNCHANGED <<opened, allowed>>
          PROVE  BurstInv'
      <3>1. map[a] # Null
        BY <2>3, <2>8, LimiterConstants DEF Exhausted, WindowOf
      <3>2. attempts' = map
        BY <2>3, <2>8, <3>1 DEF WindowOf
      <3> QED BY <2>7, <2>8, <3>2
    <2>9. ASSUME ~Exhausted(attempt),
                 attempts' = [map EXCEPT ![a] = [attempt EXCEPT !.count = @ + 1]],
                 opened' = [opened EXCEPT ![a] = window],
                 allowed' = [allowed EXCEPT ![a] = @ \cup
                   {[window |-> window, nth |-> attempt.count + 1, at |-> clock]}]
          PROVE  BurstInv'
      BY <2>3, <2>4, <2>5, <2>9, PassageKeeps
    <2> QED
      BY <1>1, <2>1, <2>3, <2>4, <2>7, <2>8, <2>9 DEF allowChallenge
  <1>2. CASE Tick
    <2>1. /\ clock' = clock + 1 /\ clock < MaxTime
          /\ UNCHANGED <<attempts, opened, allowed>>
      BY <1>2 DEF Tick
    <2>2. LimiterTypeOK'
      BY <2>1, LimiterConstants DEF BurstInv, LimiterTypeOK
    <2>3. ASSUME NEW a \in Sources
          PROVE  SourceOK(attempts, a)'
      <3>1. allowed[a] \subseteq Passage /\ clock \in Nat
        BY DEF BurstInv, LimiterTypeOK
      <3>2. SourceOK(attempts, a)
        BY DEF BurstInv
      <3> QED
        BY <2>1, <3>1, <3>2, LimiterConstants
           DEF SourceOK, PassageOK, CurrentOK, Apart, Passage
    <2> QED BY <2>2, <2>3 DEF BurstInv
  <1>3. CASE UNCHANGED limiterVars
    BY <1>3 DEF limiterVars, BurstInv, LimiterTypeOK, SourceOK, PassageOK, CurrentOK,
       Apart
  <1> QED BY <1>1, <1>2, <1>3 DEF LimiterNext

\* The passages in one span are in two consecutive windows.
LEMMA TwoWindows ==
  ASSUME NEW S \in SUBSET Passage,
         \A x, y \in S : ~(x.window + 2 <= y.window)
  PROVE  \E v \in Nat : \A x \in S : x.window = v \/ x.window = v + 1
  <1>1. CASE S = {}
    BY <1>1
  <1>2. ASSUME NEW x \in S
        PROVE  \E v \in Nat : \A z \in S : z.window = v \/ z.window = v + 1
    <2>1. CASE \E y \in S : y.window < x.window
      <3> PICK y \in S : y.window < x.window
        BY <2>1
      <3>1. y.window \in Nat
        BY DEF Passage
      <3>2. \A z \in S : z.window = y.window \/ z.window = y.window + 1
        BY DEF Passage
      <3> QED BY <3>1, <3>2
    <2>2. CASE \A y \in S : x.window <= y.window
      <3>1. x.window \in Nat
        BY DEF Passage
      <3>2. \A z \in S : z.window = x.window \/ z.window = x.window + 1
        BY <2>2 DEF Passage
      <3> QED BY <3>1, <3>2
    <2> QED BY <2>1, <2>2 DEF Passage
  <1> QED BY <1>1, <1>2

-----------------------------------------------------------------------------
(* Startup: no torn file *)

\* From here on the leaves go to Zenon; the ones that need more name their prover.
USE Zenon

\* A file whose contents are a key and on the disk.
Whole(f) == f \in File /\ f.key \in IdentityKeys /\ f.synced = TRUE

\* The temporary file of a process holds the key that it has generated, and
\* is synced before it is published.
WriterOK(p) ==
  /\ phase[p] # "down" => signer[p] \in IdentityKeys
  /\ phase[p] \in {"written", "synced"} =>
       temp[p] \in File /\ temp[p].key = signer[p]
  /\ phase[p] = "synced" => temp[p].synced = TRUE

DiskInv ==
  /\ IdentityTypeOK
  /\ file # Absent => Whole(file)
  /\ durable # Absent => Whole(durable)
  /\ \A p \in Processes : WriterOK(p)
  /\ port # Absent => port \in Processes /\ phase[port] = "serving"

\* A step of a process does not touch what belongs to another.
LEMMA OthersKept ==
  ASSUME DiskInv, NEW p \in Processes, RelayStep(p), NEW q \in Processes,
         q # p
  PROVE  phase'[q] = phase[q] /\ signer'[q] = signer[q] /\ temp'[q] = temp[q]
<1>   IdentityTypeOK
  BY DEF DiskInv
<1>1. phase'[q] = phase[q]
  BY DEF IdentityTypeOK, RelayStep, Load, Generate, WriteTemp, SyncTemp,
       Publish, WriteFails, Listen, Crash, Enter
<1>2. signer'[q] = signer[q]
  BY DEF IdentityTypeOK, RelayStep, Load, Generate, WriteTemp, SyncTemp,
       Publish, WriteFails, Listen, Crash
<1>3. temp'[q] = temp[q]
  BY DEF IdentityTypeOK, RelayStep, Load, Generate, WriteTemp, SyncTemp,
       Publish, WriteFails, Listen, Crash
<1>4. QED
  BY <1>1, <1>2, <1>3

\* What a process does to itself.
LEMMA WriterStep ==
  ASSUME DiskInv, NEW p \in Processes, RelayStep(p)
  PROVE  /\ WriterOK(p)'
         /\ temp'[p] \in File \cup {Absent}
         /\ signer'[p] \in IdentityKeys \cup {Absent}
         /\ phase'[p] \in Phases
<1> USE DEF IdentityTypeOK, Enter, Phases
<1>   IdentityTypeOK /\ WriterOK(p) /\ (file # Absent => Whole(file))
  BY DEF DiskInv
<1>1. CASE Load(p)
  BY <1>1 DEF Load, WriterOK, Whole
<1>2. ASSUME NEW k \in IdentityKeys, Generate(p, k)
      PROVE  /\ WriterOK(p)'
             /\ temp'[p] \in File \cup {Absent}
             /\ signer'[p] \in IdentityKeys \cup {Absent}
             /\ phase'[p] \in Phases
  BY <1>2 DEF Generate, WriterOK
<1>3. CASE WriteTemp(p)
  <2>1. signer[p] \in IdentityKeys /\ signer' = signer
    BY <1>3 DEF WriteTemp, WriterOK
  <2>2. PICK f : f = [key |-> signer[p], synced |-> FALSE]
    OBVIOUS
  <2>3. f \in File /\ f.key = signer[p]
    BY <2>1, <2>2 DEF File
  <2>4. temp'[p] = f /\ phase'[p] = "written"
    BY <1>3, <2>2 DEF WriteTemp
  <2>5. QED
    BY <2>1, <2>3, <2>4 DEF WriterOK
<1>4. CASE SyncTemp(p)
  <2>1. PICK f : f = temp[p]
    OBVIOUS
  <2>2. /\ f \in File /\ f.key = signer[p] /\ signer[p] \in IdentityKeys
        /\ signer' = signer
    BY <1>4, <2>1 DEF SyncTemp, WriterOK
  <2>3. temp'[p] = [f EXCEPT !.synced = TRUE] /\ phase'[p] = "synced"
    BY <1>4, <2>1 DEF SyncTemp
  <2>4. /\ [f EXCEPT !.synced = TRUE] \in File
        /\ [f EXCEPT !.synced = TRUE].key = f.key
        /\ [f EXCEPT !.synced = TRUE].synced = TRUE
    BY <2>2 DEF File
  <2>5. QED
    BY <2>2, <2>3, <2>4 DEF WriterOK
<1>5. CASE Publish(p)
  BY <1>5 DEF Publish, WriterOK
<1>6. CASE WriteFails(p)
  BY <1>6 DEF WriteFails, WriterOK
<1>7. CASE Listen(p)
  BY <1>7 DEF Listen, WriterOK
<1>8. CASE Crash(p)
  BY <1>8 DEF Crash, WriterOK
<1>9. QED
  BY <1>1, <1>2, <1>3, <1>4, <1>5, <1>6, <1>7, <1>8 DEF RelayStep

\* What a process does to the rest.
LEMMA DiskStep ==
  ASSUME DiskInv, NEW p \in Processes, RelayStep(p)
  PROVE  /\ file' = file \/ (Publish(p) /\ Whole(file'))
         /\ durable' = durable
         /\ used' \subseteq IdentityKeys
         /\ served' = served
              \/ (Listen(p) /\ port = Absent /\ served' = served \cup {signer[p]})
         /\ \/ port' = port /\ port # p
            \/ port' = Absent
            \/ port' = p /\ phase'[p] = "serving" /\ port = Absent /\ Listen(p)
<1> USE DEF IdentityTypeOK, Enter
<1>   IdentityTypeOK /\ WriterOK(p) /\ (port # Absent => port \in Processes /\ phase[port] = "serving")
  BY DEF DiskInv
<1>1. file' = file \/ (Publish(p) /\ Whole(file'))
  <2>1. CASE Publish(p)
    <3>1. file' = temp[p] /\ phase[p] = "synced"
      BY <2>1 DEF Publish
    <3>2. temp[p] \in File /\ temp[p].key \in IdentityKeys /\ temp[p].synced = TRUE
      BY <3>1 DEF WriterOK
    <3>3. QED
      BY <2>1, <3>1, <3>2 DEF Whole
  <2>2. CASE ~Publish(p)
    BY <2>2 DEF RelayStep, Load, Generate, WriteTemp, SyncTemp, WriteFails,
                Listen, Crash, disk
  <2>3. QED
    BY <2>1, <2>2
<1>2. durable' = durable
  BY DEF RelayStep, Load, Generate, WriteTemp, SyncTemp, Publish, WriteFails,
         Listen, Crash, disk
<1>3. used' \subseteq IdentityKeys
  BY SMT DEF RelayStep, Load, Generate, WriteTemp, SyncTemp, Publish,
         WriteFails, Listen, Crash
<1>4. served' = served
        \/ (Listen(p) /\ port = Absent /\ served' = served \cup {signer[p]})
  BY DEF RelayStep, Load, Generate, WriteTemp, SyncTemp, Publish, WriteFails,
         Listen, Crash
<1>5. \/ port' = port /\ port # p
      \/ port' = Absent
      \/ port' = p /\ phase'[p] = "serving" /\ port = Absent /\ Listen(p)
  <2>1. CASE Listen(p)
    BY <2>1, IdentityConstants DEF Listen
  <2>2. CASE Crash(p)
    BY <2>2 DEF Crash
  <2>3. CASE ~Listen(p) /\ ~Crash(p)
    <3>1. port' = port /\ phase[p] # "serving"
      BY <2>3 DEF RelayStep, Load, Generate, Start, WriteTemp,
           SyncTemp, Publish, WriteFails
    <3>2. QED
      BY <3>1, IdentityConstants
  <2>4. QED
    BY <2>1, <2>2, <2>3
<1>6. QED
  BY <1>1, <1>2, <1>3, <1>4, <1>5

LEMMA DiskInit == IdentityInit => DiskInv
  BY DEF IdentityInit, DiskInv, IdentityTypeOK, WriterOK, Phases

LEMMA OrderlyType ==
  ASSUME DiskInv, NEW p \in Processes, RelayStep(p)
  PROVE  orderly' \in BOOLEAN
<1>1. orderly \in BOOLEAN
  BY DEF DiskInv, IdentityTypeOK
<1>2. \/ orderly' = orderly
      \/ orderly' = (orderly /\ \A q \in Processes : phase[q] = "down")
  BY DEF RelayStep, Load, Generate, Start, WriteTemp, SyncTemp, Publish,
         WriteFails, Listen, Crash
<1>3. QED
  BY <1>1, <1>2

LEMMA ProcessTypes ==
  ASSUME DiskInv, NEW p \in Processes, RelayStep(p)
  PROVE  /\ temp' \in [Processes -> File \cup {Absent}]
         /\ signer' \in [Processes -> IdentityKeys \cup {Absent}]
         /\ phase' \in [Processes -> Phases]
<1>   IdentityTypeOK
  BY DEF DiskInv
<1>1. temp' = [temp EXCEPT ![p] = temp'[p]]
  BY DEF IdentityTypeOK, RelayStep, Load, Generate, WriteTemp, SyncTemp,
       Publish, WriteFails, Listen, Crash
<1>2. signer' = [signer EXCEPT ![p] = signer'[p]]
  BY DEF IdentityTypeOK, RelayStep, Load, Generate, WriteTemp, SyncTemp,
       Publish, WriteFails, Listen, Crash
<1>3. phase' = [phase EXCEPT ![p] = phase'[p]]
  BY DEF IdentityTypeOK, RelayStep, Load, Generate, WriteTemp, SyncTemp,
       Publish, WriteFails, Listen, Crash, Enter
<1>4. /\ temp'[p] \in File \cup {Absent} /\ signer'[p] \in IdentityKeys \cup {Absent}
      /\ phase'[p] \in Phases
  BY WriterStep
<1>5. QED
  BY <1>1, <1>2, <1>3, <1>4 DEF IdentityTypeOK

LEMMA DiskInvStep == DiskInv /\ [IdentityNext]_identityVars => DiskInv'
<1> SUFFICES ASSUME DiskInv, [IdentityNext]_identityVars
             PROVE  DiskInv'
  OBVIOUS
<1>   /\ IdentityTypeOK /\ (file # Absent => Whole(file)) /\ (durable # Absent => Whole(durable))
      /\ \A q \in Processes : WriterOK(q)
      /\ port # Absent => port \in Processes /\ phase[port] = "serving"
  BY DEF DiskInv
<1>1. ASSUME NEW p \in Processes, RelayStep(p)
      PROVE  DiskInv'
  <2>   /\ file' = file \/ Whole(file')
        /\ durable' = durable
        /\ used' \subseteq IdentityKeys
        /\ served' = served \/ (Listen(p) /\ served' = served \cup {signer[p]})
        /\ \/ port' = port /\ port # p
           \/ port' = Absent
           \/ port' = p /\ phase'[p] = "serving"
    BY <1>1, DiskStep
  <2>2. served' \subseteq IdentityKeys
    <3>1. Listen(p) => signer[p] \in IdentityKeys
      BY DEF Listen, WriterOK
    <3>2. QED
      BY <3>1 DEF IdentityTypeOK
  <2>3. IdentityTypeOK'
    BY <1>1, <2>2, ProcessTypes, OrderlyType DEF IdentityTypeOK, Whole
  <2>4. \A q \in Processes : WriterOK(q)'
    <3>1. WriterOK(p)'
      BY <1>1, WriterStep
    <3>2. ASSUME NEW q \in Processes, q # p
          PROVE  WriterOK(q)'
      <4>1. phase'[q] = phase[q] /\ signer'[q] = signer[q] /\ temp'[q] = temp[q]
        BY <1>1, <3>2, OthersKept
      <4>2. QED
        BY <4>1 DEF WriterOK
    <3>3. QED
      BY <3>1, <3>2
  <2>5. port' # Absent => port' \in Processes /\ phase'[port'] = "serving"
    BY <1>1, OthersKept
  <2>6. QED
    BY <2>3, <2>4, <2>5 DEF DiskInv, Whole
<1>2. CASE Flush
  BY <1>2 DEF Flush, DiskInv, IdentityTypeOK, WriterOK, Whole
<1>3. CASE PowerLoss
  <2>1. file' \in {file, durable} /\ durable' = file'
    <3>1. Survivors(file) = {file} /\ Survivors(durable) = {durable}
      BY DEF Survivors, Whole
    <3>2. QED
      BY <1>3, <3>1 DEF PowerLoss
  <2>   /\ temp' = [p \in Processes |-> Absent] /\ signer' = [p \in Processes |-> Absent]
        /\ phase' = [p \in Processes |-> "down"] /\ port' = Absent
        /\ used' = used /\ served' = served /\ orderly' = FALSE
    BY <1>3 DEF PowerLoss
  <2>3. IdentityTypeOK'
    BY <2>1 DEF IdentityTypeOK, Phases
  <2>4. \A q \in Processes : WriterOK(q)'
    BY DEF WriterOK
  <2>5. QED
    BY <2>1, <2>3, <2>4 DEF DiskInv, Whole
<1>4. CASE UNCHANGED identityVars
  BY <1>4 DEF identityVars, DiskInv, IdentityTypeOK, WriterOK, Whole
<1>5. QED
  BY <1>1, <1>2, <1>3, <1>4 DEF IdentityNext, RelayStep

\* Whatever processes start, crash or race, and whenever the power fails, the
\* path names a whole key or nothing (writeIdentityAtomically syncs before it
\* renames).
THEOREM TheFileIsNeverTorn == IdentitySpec => [](IdentityTypeOK /\ NeverTorn)
<1>1. DiskInv => IdentityTypeOK /\ NeverTorn
  BY IdentityConstants DEF DiskInv, Whole, NeverTorn
<1>2. QED
  BY <1>1, DiskInit, DiskInvStep, PTL DEF IdentitySpec

-----------------------------------------------------------------------------
(* Startup: one relay at a time *)

\* At most one process runs; while it creates a key there is no file, and
\* what it has loaded or published is the file.  Whoever was shown an
\* identity was shown that of the file.
Alone ==
  /\ \A p, q \in Processes : phase[p] # "down" /\ phase[q] # "down" => p = q
  /\ \A p \in Processes :
       /\ phase[p] \in {"generated", "written", "synced"} => file = Absent
       /\ phase[p] \in {"loaded", "serving"} => file # Absent /\ file.key = signer[p]
  /\ \A k \in served : file # Absent /\ file.key = k

AloneInv == orderly => Alone

LEMMA AloneInit == IdentityInit => AloneInv
  BY DEF IdentityInit, AloneInv, Alone

LEMMA AloneStep == DiskInv /\ AloneInv /\ [IdentityNext]_identityVars => AloneInv'
<1> SUFFICES ASSUME DiskInv, AloneInv, [IdentityNext]_identityVars, orderly'
             PROVE  Alone'
  BY DEF AloneInv
<1>a. orderly
  BY DEF IdentityNext, RelayStep, Load, Generate, Start, WriteTemp, SyncTemp, Publish,
         WriteFails, Listen, Crash, Flush, PowerLoss, identityVars
<1>   Alone
  BY <1>a DEF AloneInv
<1>   IdentityTypeOK
  BY DEF DiskInv
<1>1. ASSUME NEW p \in Processes, RelayStep(p)
      PROVE  Alone'
  <2> USE DEF IdentityTypeOK, Enter
  <2>1. \A q \in Processes \ {p} :
          phase'[q] = phase[q] /\ signer'[q] = signer[q] /\ phase[q] = "down"
    <3>1. ASSUME NEW q \in Processes \ {p}
          PROVE  phase[q] = "down"
      BY <1>1 DEF Alone, RelayStep, Load, Generate, Start, WriteTemp,
           SyncTemp, Publish, WriteFails, Listen, Crash
    <3>2. QED
      BY <1>1, <3>1, OthersKept
  <2>2. \/ file' = file
        \/ Publish(p) /\ file = Absent /\ Whole(file') /\ file'.key = signer[p]
    <3>1. CASE Publish(p)
      <4>1. file' = temp[p] /\ phase[p] = "synced"
        BY <3>1 DEF Publish
      <4>2. file = Absent /\ temp[p].key = signer[p] /\ temp[p] \in File
        BY <4>1 DEF Alone, DiskInv, WriterOK
      <4>3. Whole(file') \/ file' = file
        BY <1>1, DiskStep
      <4>4. QED
        BY <3>1, <4>1, <4>2, <4>3
    <3>2. CASE ~Publish(p)
      BY <1>1, <3>2, DiskStep
    <3>3. QED
      BY <3>1, <3>2
  <2>3. /\ phase'[p] \in {"generated", "written", "synced"} => file' = Absent
        /\ phase'[p] \in {"loaded", "serving"} => file' # Absent /\ file'.key = signer'[p]
    <3>1. CASE Load(p)
      BY <3>1 DEF Load, disk
    <3>2. CASE \E k \in IdentityKeys : Generate(p, k)
      BY <3>2 DEF Generate, disk
    <3>3. CASE WriteTemp(p) \/ SyncTemp(p)
      BY <3>3 DEF WriteTemp, SyncTemp, disk, Alone
    <3>4. CASE Publish(p)
      <4>   file' = temp[p] /\ phase[p] = "synced"
        BY <3>4 DEF Publish
      <4>2. temp[p].key = signer[p] /\ temp[p] \in File
        BY DEF DiskInv, WriterOK
      <4>3. file' # Absent
        BY <4>2, IdentityConstants
      <4>4. (phase'[p] = "loaded" /\ signer' = signer) \/ phase'[p] = "down"
        BY <3>4 DEF Publish
      <4>5. QED
        BY <4>2, <4>3, <4>4
    <3>5. CASE WriteFails(p) \/ Crash(p)
      BY <3>5 DEF WriteFails, Crash
    <3>6. CASE Listen(p)
      BY ZenonT(40), <3>6 DEF Listen, disk, Alone
    <3>7. QED
      BY <1>1, <3>1, <3>2, <3>3, <3>4, <3>5, <3>6 DEF RelayStep
  <2>4. \A k \in served' : file' # Absent /\ file'.key = k
    <3>1. CASE served' = served
      BY <2>2, <3>1 DEF Alone
    <3>2. CASE Listen(p) /\ served' = served \cup {signer[p]}
      <4>1. file' = file /\ file # Absent /\ file.key = signer[p]
        BY <3>2 DEF Listen, disk, Alone
      <4>2. QED
        BY <3>2, <4>1 DEF Alone
    <3>3. QED
      BY <1>1, <3>1, <3>2, DiskStep
  <2>5. QED
    BY SMT, <2>1, <2>3, <2>4 DEF Alone
<1>2. CASE Flush
  BY <1>2 DEF Flush, Alone
<1>3. CASE UNCHANGED identityVars
  BY <1>3 DEF identityVars, Alone
<1>4. QED
  BY <1>1, <1>2, <1>3 DEF IdentityNext, RelayStep, PowerLoss

\* Relays that are not started while another one runs, and that may crash at
\* any step, show their clients one identity, the one that is stored, for as
\* long as the power does not fail.
THEOREM OneIdentity == IdentitySpec => []IdentityIsStable
<1>1. DiskInv /\ AloneInv => IdentityIsStable
  BY DEF DiskInv, AloneInv, Alone, IdentityIsStable
<1>2. QED
  BY <1>1, DiskInit, DiskInvStep, AloneInit, AloneStep, PTL DEF IdentitySpec

-----------------------------------------------------------------------------
(* Startup: the relay *)

\* For the identity it makes no difference that a relay opens the store first
\* and that other commands run beside it.
LEMMA StartupStepIsIdentity == [StartupNext]_startupVars => [IdentityNext]_identityVars
  BY DEF StartupNext, startupVars, OpenStore, Serve, Use, Exit, IdentityNext

LEMMA StartupIsIdentity == StartupSpec => IdentitySpec
<1>1. StartupInit => IdentityInit
  BY DEF StartupInit
<1>2. QED
  BY <1>1, StartupStepIsIdentity, PTL DEF StartupSpec, IdentitySpec

\* On one state path, with the store opened first and other commands beside
\* the relay, the key file is never torn and relays that run one at a time
\* show one identity.
THEOREM StartupKeepsIdentity == StartupSpec => [](NeverTorn /\ IdentityIsStable)
  BY StartupIsIdentity, TheFileIsNeverTorn, OneIdentity, PTL

\* The steps that a process takes on the database.
StoreStep(p) ==
  \/ DB!OpenStep(p)
  \/ DB!Close(p)
  \/ \E r \in Rows : DB!Write(p, r)

StoreNext ==
  \/ \E p \in Processes : StoreStep(p)
  \/ DB!PowerLoss

LEMMA StartupStepIsStore == [StartupNext]_startupVars => [StoreNext]_dbVars
<1> SUFFICES ASSUME [StartupNext]_startupVars
             PROVE  [StoreNext]_dbVars
  OBVIOUS
<1>1. ASSUME NEW p \in Processes, OpenStore(p)
      PROVE  StoreNext
  BY <1>1 DEF OpenStore, StoreNext, StoreStep
<1>2. ASSUME NEW p \in Processes, Serve(p)
      PROVE  StoreNext \/ UNCHANGED dbVars
  BY <1>2 DEF Serve, StoreNext, StoreStep
<1>3. ASSUME NEW p \in Processes, NEW r \in Rows, Use(p, r)
      PROVE  StoreNext
  BY <1>3 DEF Use, StoreNext, StoreStep
<1>4. ASSUME NEW p \in Processes, Exit(p)
      PROVE  StoreNext
  BY <1>4 DEF Exit, StoreNext, StoreStep
<1>5. QED
  BY <1>1, <1>2, <1>3, <1>4 DEF StartupNext, startupVars, StoreNext

-----------------------------------------------------------------------------
(* Startup: the types of the store *)

LEMMA StoreTypesInit == StartupInit => DB!TypeOK
  BY DEF StartupInit, DB!Init, DB!TypeOK, DB!Schemas, DB!Points

\* What one process does to the database, call by call.
LEMMA StoreTypesStep ==
  ASSUME DB!TypeOK, NEW p \in Processes, StoreStep(p)
  PROVE  DB!TypeOK'
<1> USE DEF DB!TypeOK, DB!Goto, DB!Points, DB!Schemas, DB!database, DB!history
<1>1. CASE DB!HasLegacySecureSchema(p)
  <2>1. raced' \in BOOLEAN
    BY <1>1 DEF DB!HasLegacySecureSchema, DB!Open
  <2>2. QED
    BY <1>1, <2>1 DEF DB!HasLegacySecureSchema, DB!Open
<1>2. CASE DB!BackupLegacySecureSchema(p)
  BY <1>2 DEF DB!BackupLegacySecureSchema
<1>3. CASE DB!VacuumInto(p)
  <2>1. CASE backup = Absent
    <3>1. PICK b : b = [rows |-> {}, whole |-> FALSE]
      OBVIOUS
    <3>2. b \in DB!Backup
      BY <3>1 DEF DB!Backup
    <3>3. backup' = b /\ copying' = rows \cap Legacy
      BY <1>3, <2>1, <3>1 DEF DB!VacuumInto
    <3>4. QED
      BY <1>3, <2>1, <3>2, <3>3 DEF DB!VacuumInto
  <2>2. CASE backup # Absent
    BY <1>3, <2>2 DEF DB!VacuumInto
  <2>3. QED
    BY <2>1, <2>2
<1>4. CASE DB!VacuumDone(p)
  BY <1>4 DEF DB!VacuumDone, DB!Backup
<1>5. CASE DB!DropLegacyTables(p)
  BY <1>5 DEF DB!DropLegacyTables
<1>6. CASE DB!Busy(p)
  BY <1>6 DEF DB!Busy
<1>7. CASE DB!CreateSchema(p)
  BY <1>7 DEF DB!CreateSchema
<1>8. CASE DB!Interrupt(p)
  BY <1>8 DEF DB!Interrupt
<1>9. CASE DB!Close(p)
  BY <1>9 DEF DB!Close
<1>10. ASSUME NEW r \in Rows, DB!Write(p, r)
       PROVE  DB!TypeOK'
  BY <1>10 DEF DB!Write
<1>11. QED
  BY <1>1, <1>2, <1>3, <1>4, <1>5, <1>6, <1>7, <1>8, <1>9, <1>10
     DEF StoreStep, DB!OpenStep

LEMMA StoreTypesNext == DB!TypeOK /\ [StoreNext]_dbVars => DB!TypeOK'
<1> SUFFICES ASSUME DB!TypeOK, [StoreNext]_dbVars
             PROVE  DB!TypeOK'
  OBVIOUS
<1>1. CASE DB!PowerLoss
  BY <1>1 DEF DB!PowerLoss, DB!TypeOK, DB!Points, DB!database, DB!history
<1>2. CASE UNCHANGED dbVars
  BY <1>2 DEF dbVars, DB!TypeOK
<1>3. QED
  BY <1>1, <1>2, StoreTypesStep DEF StoreNext

\* Every variable keeps its type, whichever processes open the store, start a
\* relay, are killed or lose power.
THEOREM StartupTypeCorrect == StartupSpec => []StartupTypeOK
<1>1. StartupInit => DB!TypeOK /\ DiskInv
  BY StoreTypesInit, DiskInit DEF StartupInit
<1>2. DB!TypeOK /\ DiskInv /\ [StartupNext]_startupVars
        => DB!TypeOK' /\ DiskInv'
  BY StartupStepIsStore, StartupStepIsIdentity, StoreTypesNext, DiskInvStep
<1>3. DB!TypeOK /\ DiskInv => StartupTypeOK
  BY DEF StartupTypeOK, DiskInv
<1>4. QED
  BY <1>1, <1>2, <1>3, PTL DEF StartupSpec

-----------------------------------------------------------------------------
(* Startup: the rows of the old schema *)

\* Until there is a file with the name of the backup, the database holds the
\* old rows; whoever writes that file writes them all, and nobody writes it a
\* second time; and the tables are dropped only after it was found.
BackupInv ==
  /\ backup = Absent => old \subseteq rows
  /\ backup # Absent /\ backup.whole => old \subseteq backup.rows
  /\ \A p \in Processes :
       /\ store[p] = "copying" => backup # Absent /\ old \subseteq copying
       /\ store[p] = "copied" => backup # Absent
  /\ \A p, q \in Processes :
       store[p] = "copying" /\ store[q] = "copying" => p = q

LEMMA BackupInit == StartupInit => BackupInv
  BY DEF StartupInit, DB!Init, BackupInv

LEMMA BackupStep ==
  ASSUME DB!TypeOK, BackupInv, NEW p \in Processes, StoreStep(p)
  PROVE  BackupInv'
<1> USE DEF DB!TypeOK, BackupInv, DB!Goto, DB!database, DB!history
<1>1. CASE DB!HasLegacySecureSchema(p)
  BY <1>1 DEF DB!HasLegacySecureSchema, DB!Open
<1>2. CASE DB!BackupLegacySecureSchema(p)
  BY <1>2 DEF DB!BackupLegacySecureSchema
<1>3. CASE DB!VacuumInto(p)
  <2>1. CASE backup = Absent
    <3>1. PICK b : b = [rows |-> {}, whole |-> FALSE]
      OBVIOUS
    <3>2. b \in DB!Backup /\ ~b.whole
      BY <3>1 DEF DB!Backup
    <3>3. b # Absent
      BY <3>2, StartupConstants
    <3>4. /\ backup' = b /\ copying' = rows \cap Legacy /\ old' = old
          /\ store' = [store EXCEPT ![p] = "copying"]
      BY <1>3, <2>1, <3>1 DEF DB!VacuumInto
    <3>5. old' \subseteq copying'
      BY <2>1, <3>4
    <3>6. QED
      BY <2>1, <3>2, <3>3, <3>4, <3>5
  <2>2. CASE backup # Absent
    BY <1>3, <2>2 DEF DB!VacuumInto
  <2>3. QED
    BY <2>1, <2>2
<1>4. CASE DB!VacuumDone(p)
  <2>1. PICK b : b = [rows |-> copying, whole |-> TRUE]
    OBVIOUS
  <2>2. b \in DB!Backup /\ b.rows = copying
    BY <2>1 DEF DB!Backup
  <2>3. b # Absent /\ old \subseteq b.rows
    BY <1>4, <2>2, StartupConstants DEF DB!VacuumDone
  <2>4. /\ backup' = b /\ old' = old /\ store[p] = "copying"
        /\ store' = [store EXCEPT ![p] = "copied"]
    BY <1>4, <2>1 DEF DB!VacuumDone
  <2>5. QED
    BY <2>3, <2>4
<1>5. CASE DB!DropLegacyTables(p)
  BY <1>5 DEF DB!DropLegacyTables
<1>6. CASE DB!Busy(p)
  BY <1>6 DEF DB!Busy
<1>7. CASE DB!CreateSchema(p)
  BY <1>7 DEF DB!CreateSchema
<1>8. CASE DB!Interrupt(p)
  BY <1>8 DEF DB!Interrupt
<1>9. CASE DB!Close(p)
  BY <1>9 DEF DB!Close
<1>10. ASSUME NEW r \in Rows, DB!Write(p, r)
       PROVE  BackupInv'
  BY <1>10 DEF DB!Write
<1>11. QED
  BY <1>1, <1>2, <1>3, <1>4, <1>5, <1>6, <1>7, <1>8, <1>9, <1>10
     DEF StoreStep, DB!OpenStep

LEMMA BackupNext == DB!TypeOK /\ BackupInv /\ [StoreNext]_dbVars => BackupInv'
<1> SUFFICES ASSUME DB!TypeOK, BackupInv, [StoreNext]_dbVars
             PROVE  BackupInv'
  OBVIOUS
<1>1. CASE DB!PowerLoss
  BY <1>1 DEF DB!PowerLoss, BackupInv, DB!database, DB!history
<1>2. CASE UNCHANGED dbVars
  BY <1>2 DEF dbVars, BackupInv
<1>3. QED
  BY <1>1, <1>2, BackupStep DEF StoreNext

\* However many processes migrate at once, and whenever they are killed, the
\* rows of the old schema are in the database or in the backup; only a backup
\* that was cut short may lack them (backupLegacySecureSchema).
THEOREM LegacyIsAlwaysKept == StartupSpec => []LegacyIsKept
<1>1. BackupInv => LegacyIsKept
  BY DEF BackupInv, LegacyIsKept, DB!LegacyIsKept
<1>2. DB!TypeOK /\ BackupInv /\ [StartupNext]_startupVars
        => DB!TypeOK' /\ BackupInv'
  BY StartupStepIsStore, StoreTypesNext, BackupNext
<1>3. QED
  BY <1>1, <1>2, StoreTypesInit, BackupInit, PTL DEF StartupSpec

-----------------------------------------------------------------------------
(* Startup: the rows of the current schema *)

\* Nothing is written before the schema is current, which it then stays; and
\* a process that migrates alone has found the old schema, which nobody else
\* drops meanwhile.
SchemaInv ==
  /\ schema # "current" => written = {}
  /\ \A p \in Processes :
       /\ store[p] = "prepared" => schema # "legacy"
       /\ store[p] = "open" => schema = "current"
  /\ ~raced =>
       /\ written \subseteq rows
       /\ \A p \in Processes : DB!Migrating(p) => schema = "legacy"
       /\ \A p, q \in Processes : DB!Migrating(p) /\ DB!Migrating(q) => p = q

LEMMA SchemaInit == StartupInit => SchemaInv
  BY DEF StartupInit, DB!Init, SchemaInv, DB!Migrating

LEMMA SchemaStep ==
  ASSUME DB!TypeOK, SchemaInv, NEW p \in Processes, StoreStep(p)
  PROVE  SchemaInv'
<1> USE DEF DB!TypeOK, SchemaInv, DB!Migrating, DB!Schemas, DB!Goto,
            DB!database, DB!history
<1>1. CASE DB!HasLegacySecureSchema(p)
  <2>1. PICK point : /\ point = (IF schema = "legacy" THEN "legacy" ELSE "prepared")
                     /\ store' = [store EXCEPT ![p] = point]
    BY <1>1 DEF DB!HasLegacySecureSchema, DB!Open
  <2>2. /\ schema' = schema /\ rows' = rows /\ written' = written
        /\ raced' = (raced \/ (schema = "legacy"
                                /\ \E q \in Processes : DB!Migrating(q)))
    BY <1>1 DEF DB!HasLegacySecureSchema, DB!Open
  <2>3. ~raced' => ~raced /\ (schema = "legacy"
                               => \A q \in Processes : ~DB!Migrating(q))
    BY <2>2
  <2>4. QED
    BY <2>1, <2>2, <2>3
<1>2. CASE DB!BackupLegacySecureSchema(p)
  BY <1>2 DEF DB!BackupLegacySecureSchema
<1>3. CASE DB!VacuumInto(p)
  BY <1>3 DEF DB!VacuumInto
<1>4. CASE DB!VacuumDone(p)
  BY <1>4 DEF DB!VacuumDone
<1>5. CASE DB!DropLegacyTables(p)
  BY <1>5 DEF DB!DropLegacyTables
<1>6. CASE DB!Busy(p)
  BY <1>6 DEF DB!Busy
<1>7. CASE DB!CreateSchema(p)
  BY <1>7 DEF DB!CreateSchema
<1>8. CASE DB!Interrupt(p)
  BY <1>8 DEF DB!Interrupt
<1>9. CASE DB!Close(p)
  BY <1>9 DEF DB!Close
<1>10. ASSUME NEW r \in Rows, DB!Write(p, r)
       PROVE  SchemaInv'
  BY <1>10 DEF DB!Write
<1>11. QED
  BY <1>1, <1>2, <1>3, <1>4, <1>5, <1>6, <1>7, <1>8, <1>9, <1>10
     DEF StoreStep, DB!OpenStep

LEMMA SchemaNext == DB!TypeOK /\ SchemaInv /\ [StoreNext]_dbVars => SchemaInv'
<1> SUFFICES ASSUME DB!TypeOK, SchemaInv, [StoreNext]_dbVars
             PROVE  SchemaInv'
  OBVIOUS
<1>1. CASE DB!PowerLoss
  BY <1>1 DEF DB!PowerLoss, SchemaInv, DB!Migrating, DB!database, DB!history
<1>2. CASE UNCHANGED dbVars
  BY <1>2 DEF dbVars, SchemaInv, DB!Migrating
<1>3. QED
  BY <1>1, <1>2, SchemaStep DEF StoreNext

\* What the relay and the commands have written stays in the database, as
\* long as no two processes migrate at the same time; and the store that Open
\* has returned to them has the current schema, whoever migrates.
THEOREM CurrentRowsAlwaysSurvive == StartupSpec => []CurrentRowsSurvive
<1>1. SchemaInv => CurrentRowsSurvive
  BY DEF SchemaInv, CurrentRowsSurvive, DB!CurrentRowsSurvive
<1>2. DB!TypeOK /\ SchemaInv /\ [StartupNext]_startupVars
        => DB!TypeOK' /\ SchemaInv'
  BY StartupStepIsStore, StoreTypesNext, SchemaNext
<1>3. QED
  BY <1>1, <1>2, StoreTypesInit, SchemaInit, PTL DEF StartupSpec

-----------------------------------------------------------------------------
INSTANCE FiniteSetTheorems

-----------------------------------------------------------------------------
(* Frames: the read limit *)

\* EncodedLength counts what Base64Url without padding needs.
LEMMA EncodedIsBase64 == \A n \in Nat : EncodedLength(n) = Base64Chars(n)
  BY SMT DEF EncodedLength, Base64Chars

LEMMA Base64Grows ==
  \A m, n \in Nat : m <= n => Base64Chars(m) <= Base64Chars(n)
  BY SMT DEF Base64Chars

LEMMA SizesAre ==
  /\ MaxBusinessPlaintextBytes = 11534336
  /\ Overhead = 65536
  /\ GCMTagBytes = 16
  BY SMT DEF MaxBusinessPlaintextBytes, Overhead, GCMTagBytes

LEMMA Sizes ==
  /\ MaxBusinessPlaintextBytes \in Nat
  /\ Overhead \in Nat
  /\ GCMTagBytes \in Nat
  BY SMT, SizesAre

LEMMA Clamped ==
  ASSUME NEW c \in Int, NEW max \in Nat
  PROVE  (IF c < 0 \/ c > max THEN max ELSE c) \in 0 .. max
  BY SMT

LEMMA WithTag ==
  ASSUME NEW max \in Nat, NEW e \in 0 .. max, NEW tag \in Nat
  PROVE  e + tag \in Nat /\ e + tag <= max + tag
  BY SMT

\* The largest wire frame has room for the largest ciphertext.
LEMMA LargestFits ==
  ASSUME NEW n \in Nat, n <= 11534352
  PROVE  /\ Base64Chars(n) \in Nat
         /\ ~(Base64Chars(n) + 65536 > MaxWireFrameBytes)
  BY SMT DEF Base64Chars, MaxWireFrameBytes

\* An effective quota is a number of bytes that MaxWireFrameBytes covers.
LEMMA QuotaRange ==
  ASSUME NEW c \in Int
  PROVE  /\ EffectiveMessageBytes(c) \in 0 .. MaxBusinessPlaintextBytes
         /\ EffectiveMessageBytes(c) + GCMTagBytes \in Nat
         /\ WireFrameLimit(c) =
              Base64Chars(EffectiveMessageBytes(c) + GCMTagBytes) + Overhead
<1>1. EffectiveMessageBytes(c) \in 0 .. MaxBusinessPlaintextBytes
  BY SMT, Clamped, Sizes DEF EffectiveMessageBytes
<1>2. PICK n : n = EffectiveMessageBytes(c) + GCMTagBytes
  BY SMT
<1>   n \in Nat /\ n <= 11534352
  <2>1. n \in Nat /\ n <= MaxBusinessPlaintextBytes + GCMTagBytes
    BY SMT, <1>1, <1>2, Sizes, WithTag
  <2>2. QED
    BY SMT, <2>1, SizesAre
<1>4. Base64Chars(n) \in Nat /\ ~(Base64Chars(n) + Overhead > MaxWireFrameBytes)
  BY SMT, LargestFits, SizesAre
<1>5. EncodedLength(n) = Base64Chars(n)
  BY SMT, EncodedIsBase64
<1>6. WireFrameLimit(c) = Base64Chars(n) + Overhead
  BY SMT, <1>2, <1>4, <1>5 DEF WireFrameLimit
<1>7. QED
  BY SMT, <1>1, <1>2, <1>6

\* A message that exceeds the limit has too many other bytes or too much
\* ciphertext.
LEMMA TooLarge ==
  ASSUME NEW c \in Int, NEW f \in Frame, WireSize(f) > WireFrameLimit(c)
  PROVE  \/ f.rest > Overhead
         \/ /\ f.frameType = "session.envelope"
            /\ f.ciphertext > EffectiveMessageBytes(c) + GCMTagBytes
<1>   f.rest \in Nat /\ f.ciphertext \in Nat
  BY SMT DEF Frame
<1>2. PICK n \in Nat : n = EffectiveMessageBytes(c) + GCMTagBytes
  BY SMT, QuotaRange
<1>3. WireFrameLimit(c) = Base64Chars(n) + Overhead /\ Base64Chars(n) \in Nat
  BY SMT, <1>2, QuotaRange DEF Base64Chars
<1>4. CASE f.frameType = "session.envelope"
  <2>1. WireSize(f) = f.rest + Base64Chars(f.ciphertext)
    BY SMT, <1>4 DEF WireSize
  <2>2. Base64Chars(f.ciphertext) \in Nat
    BY SMT DEF Base64Chars
  <2>3. f.ciphertext <= n => Base64Chars(f.ciphertext) <= Base64Chars(n)
    BY SMT, Base64Grows
  <2>4. QED
    BY SMT, <1>2, <1>3, <1>4, <2>1, <2>2, <2>3, Sizes
<1>5. CASE f.frameType # "session.envelope"
  BY SMT, <1>3, <1>5, Sizes DEF WireSize
<1>6. QED
  BY SMT, <1>4, <1>5

-----------------------------------------------------------------------------
(* Frames: the field names *)

LEMMA SevenAreFinite ==
  ASSUME NEW a, NEW b, NEW c, NEW d, NEW e, NEW f, NEW g
  PROVE  IsFiniteSet({a, b, c, d, e, f, g})
<1>1. IsFiniteSet({a})
  BY FS_Singleton
<1>2. IsFiniteSet({a} \cup {b})
  BY <1>1, FS_AddElement
<1>3. IsFiniteSet(({a} \cup {b}) \cup {c})
  BY <1>2, FS_AddElement
<1>4. IsFiniteSet((({a} \cup {b}) \cup {c}) \cup {d})
  BY <1>3, FS_AddElement
<1>5. IsFiniteSet(((({a} \cup {b}) \cup {c}) \cup {d}) \cup {e})
  BY <1>4, FS_AddElement
<1>6. IsFiniteSet((((({a} \cup {b}) \cup {c}) \cup {d}) \cup {e}) \cup {f})
  BY <1>5, FS_AddElement
<1>7. IsFiniteSet(((((({a} \cup {b}) \cup {c}) \cup {d}) \cup {e}) \cup {f}) \cup {g})
  BY <1>6, FS_AddElement
<1>8. {a, b, c, d, e, f, g} = (((((({a} \cup {b}) \cup {c}) \cup {d}) \cup {e}) \cup {f}) \cup {g})
  OBVIOUS
<1>9. QED
  BY <1>7, <1>8

\* The names that the parsers add to those of the route.
HelloKeys ==
  {"bindingVersion", "keyVersion", "ephemeralPublicKey", "nonce", "createdAt",
   "signature"}

ConfirmationKeys == {"senderRole", "confirmation"}

EnvelopeKeys ==
  {"kind", "messageId", "sequence", "createdAt", "payloadEncoding", "nonce",
   "ciphertext"}

LEMMA KeysOf ==
  /\ \A type \in Hellos : Keys[type] = RouteKeys \cup HelloKeys
  /\ Keys["session.confirmation"] = RouteKeys \cup ConfirmationKeys
  /\ Keys["session.envelope"] = RouteKeys \cup EnvelopeKeys
<1>1. \A type \in Hellos : type \in FrameTypes \cup {"other"} /\ Keys[type] = RouteKeys \cup HelloKeys
  BY DEF Keys, Hellos, FrameTypes, HelloKeys
<1>2. Keys["session.confirmation"] = RouteKeys \cup ConfirmationKeys
  BY DEF Keys, Hellos, FrameTypes, ConfirmationKeys
<1>3. Keys["session.envelope"] = RouteKeys \cup EnvelopeKeys
  BY DEF Keys, Hellos, FrameTypes, EnvelopeKeys
<1>4. QED
  BY <1>1, <1>2, <1>3

LEMMA NamesFinite ==
  /\ IsFiniteSet(Names)
  /\ \A type \in FrameTypes :
       /\ Keys[type] \subseteq Names
       /\ "frameType" \in Keys[type]
       /\ IsFiniteSet(Keys[type])
<1>1. IsFiniteSet(RouteKeys) /\ IsFiniteSet(EnvelopeKeys)
  BY SevenAreFinite DEF RouteKeys, EnvelopeKeys
<1>2. IsFiniteSet(HelloKeys)
  <2>1. HelloKeys = {"bindingVersion", "keyVersion", "ephemeralPublicKey",
                     "nonce", "createdAt", "signature", "signature"}
    BY DEF HelloKeys
  <2>2. QED
    BY <2>1, SevenAreFinite
<1>3. IsFiniteSet(ConfirmationKeys) /\ IsFiniteSet({"other"})
  <2>1. IsFiniteSet({"senderRole"}) /\ IsFiniteSet({"other"})
    BY FS_Singleton
  <2>2. ConfirmationKeys = {"senderRole"} \cup {"confirmation"}
    BY DEF ConfirmationKeys
  <2>3. QED
    BY <2>1, <2>2, FS_AddElement
<1>4. \A type \in FrameTypes :
        Keys[type] \subseteq
          (((RouteKeys \cup HelloKeys) \cup ConfirmationKeys) \cup EnvelopeKeys)
  BY KeysOf DEF FrameTypes
<1>5. IsFiniteSet((((RouteKeys \cup HelloKeys) \cup ConfirmationKeys) \cup EnvelopeKeys)
                    \cup {"other"})
  <2>1. IsFiniteSet(RouteKeys \cup HelloKeys)
    BY <1>1, <1>2, FS_Union
  <2>2. IsFiniteSet((RouteKeys \cup HelloKeys) \cup ConfirmationKeys)
    BY <1>3, <2>1, FS_Union
  <2>3. IsFiniteSet(((RouteKeys \cup HelloKeys) \cup ConfirmationKeys) \cup EnvelopeKeys)
    BY <1>1, <2>2, FS_Union
  <2>4. QED
    BY <1>3, <2>3, FS_Union
<1>6. IsFiniteSet(Names)
  <2>1. Names \subseteq
          (((RouteKeys \cup HelloKeys) \cup ConfirmationKeys) \cup EnvelopeKeys)
            \cup {"other"}
    BY <1>4 DEF Names
  <2>2. QED
    BY <1>5, <2>1, FS_Subset
<1>7. ASSUME NEW type \in FrameTypes
      PROVE  /\ Keys[type] \subseteq Names
             /\ "frameType" \in Keys[type]
             /\ IsFiniteSet(Keys[type])
  <2>1. Keys[type] \subseteq Names
    BY DEF Names
  <2>2. "frameType" \in Keys[type]
    BY KeysOf DEF FrameTypes, RouteKeys
  <2>3. QED
    BY <1>6, <2>1, <2>2, FS_Subset
<1>8. QED
  BY <1>6, <1>7

\* A strict object with the required keys has each of them once, and no other.
LEMMA ExactKeys ==
  ASSUME NEW f \in Frame, NEW type \in FrameTypes
  PROVE  strictObject(f) /\ requireKeys(f, Keys[type]) <=>
           \A k \in Names : f.occurs[k] = IF k \in Keys[type] THEN 1 ELSE 0
<1>0. \A k \in Names : f.occurs[k] \in 0 .. 2
  BY DEF Frame
<1>1. PICK S : S = {k \in Names : f.occurs[k] > 0}
  OBVIOUS
<1>   IsFiniteSet(S) /\ Keys[type] \subseteq Names
  BY <1>1, NamesFinite, FS_Subset
<1>3. ASSUME strictObject(f), requireKeys(f, Keys[type]), NEW k \in Names
      PROVE  f.occurs[k] = IF k \in Keys[type] THEN 1 ELSE 0
  <2>1. Cardinality(S) = Cardinality(Keys[type]) /\ Keys[type] \subseteq S
    BY <1>1, <1>3 DEF requireKeys
  <2>2. S = Keys[type]
    BY <2>1, FS_Subset
  <2>3. k \in Keys[type] <=> f.occurs[k] > 0
    BY <1>1, <2>2
  <2>4. f.occurs[k] <= 1
    BY <1>3 DEF strictObject
  <2>5. QED
    BY SMT, <1>0, <2>3, <2>4
<1>4. ASSUME \A k \in Names : f.occurs[k] = IF k \in Keys[type] THEN 1 ELSE 0
      PROVE  strictObject(f) /\ requireKeys(f, Keys[type])
  <2>1. S = Keys[type]
    BY SMT, <1>1, <1>4
  <2>2. QED
    BY SMT, <1>1, <1>4, <2>1 DEF strictObject, requireKeys
<1>5. QED
  BY <1>3, <1>4

-----------------------------------------------------------------------------
(* Frames: the vocabulary *)

\* What the relay routes, as RoutedIsSpoken has it.
Spoken(r, f, max) ==
  /\ <<f.frameType, Word(f)>> \in Speech(r)
  /\ f.direction = (IF r = "device" THEN Up ELSE Down)
  /\ f.own /\ f.form
  /\ \A k \in Names : f.occurs[k] = IF k \in Keys[f.frameType] THEN 1 ELSE 0
  /\ f.frameType = "session.envelope" =>
       /\ f.sequence \in 1 .. MaxEncryptedSequence
       /\ f.ciphertext - GCMTagBytes \in 0 .. EffectiveMessageBytes(max)

\* Only an envelope has a kind.
Received(f) == f \in Frame /\ (f.frameType \in Hellos => f.kind = "other")

\* The parser of a frame type, once the keys are right.
LEMMA ParserKeys ==
  ASSUME NEW f \in Frame, NEW max \in Int, f.frameType \in FrameTypes
  PROVE  ParseRelayFrame(f, max) <=>
           /\ \A k \in Names : f.occurs[k] = IF k \in Keys[f.frameType] THEN 1 ELSE 0
           /\ CASE f.frameType \in Hellos -> parseHello(f)
                [] f.frameType = "session.confirmation" -> parseConfirmation(f)
                [] f.frameType = "session.envelope" -> parseEnvelope(f, max)
                [] OTHER -> FALSE
<1>   strictObject(f) /\ requireKeys(f, Keys[f.frameType]) <=>
        \A k \in Names : f.occurs[k] = IF k \in Keys[f.frameType] THEN 1 ELSE 0
  BY ExactKeys
<1>   (\A k \in Names : f.occurs[k] = IF k \in Keys[f.frameType] THEN 1 ELSE 0)
        => f.occurs["frameType"] > 0
  <2>1. "frameType" \in Keys[f.frameType] /\ "frameType" \in Names
    BY NamesFinite
  <2>2. QED
    BY SMT, <2>1
<1>3. CASE f.frameType \in Hellos
  BY <1>3 DEF ParseRelayFrame, parseHello, Hellos
<1>4. CASE f.frameType = "session.confirmation"
  BY <1>4 DEF ParseRelayFrame, parseConfirmation, Hellos
<1>5. CASE f.frameType = "session.envelope"
  BY <1>5 DEF ParseRelayFrame, parseEnvelope, Hellos
<1>6. QED
  BY <1>3, <1>4, <1>5 DEF FrameTypes

\* The checks of the parsers and of validateSenderFrame add up to one
\* vocabulary for each role.
LEMMA ChecksAddUp ==
  ASSUME NEW f, Received(f), NEW r \in Roles, NEW max \in Int
  PROVE  ParseRelayFrame(f, max) /\ validateSenderFrame(r, f) <=> Spoken(r, f, max)
<1>   /\ f \in Frame /\ f.frameType \in FrameTypes \cup {"other"}
      /\ f.direction \in {Up, Down, "other"}
      /\ f.senderRole \in {"android", "windows", "other"}
      /\ f.kind \in Kinds \cup {"other"}
      /\ f.own \in BOOLEAN /\ f.form \in BOOLEAN
  BY DEF Received, Frame
<1>1. CASE f.frameType \notin FrameTypes
  <2>1. ~ParseRelayFrame(f, max)
    BY <1>1 DEF ParseRelayFrame, FrameTypes
  <2>2. ~Spoken(r, f, max)
    BY <1>1 DEF Spoken, Speech, FrameTypes, Hellos
  <2>3. QED
    BY <2>1, <2>2
<1> DEFINE exact ==
      \A k \in Names : f.occurs[k] = IF k \in Keys[f.frameType] THEN 1 ELSE 0
<1>2. CASE f.frameType \in Hellos
  <2>   f.frameType \in FrameTypes /\ f.kind = "other"
    BY <1>2 DEF FrameTypes, Received
  <2>2. exact => requireKeys(f, Keys[f.frameType])
    BY ExactKeys
  <2>3. ParseRelayFrame(f, max) <=> exact /\ parseHello(f)
    BY <1>2, ParserKeys DEF Hellos
  <2> HIDE DEF exact
  <2>4. Spoken(r, f, max) <=>
          /\ <<f.frameType, "other">> \in Speech(r)
          /\ f.direction = (IF r = "device" THEN Up ELSE Down)
          /\ f.own /\ f.form /\ exact
    BY <1>2 DEF Spoken, Word, Hellos, exact
  <2>5. QED
    BY <1>2, <2>2, <2>3, <2>4
    DEF parseHello, parseRoute, validateSenderFrame, Speech, Hellos, Roles, Up, Down
<1>3. CASE f.frameType = "session.confirmation"
  <2>   f.frameType \in FrameTypes /\ f.frameType \notin Hellos
    BY <1>3 DEF FrameTypes, Hellos
  <2>2. exact => requireKeys(f, Keys[f.frameType])
    BY ExactKeys
  <2>3. ParseRelayFrame(f, max) <=> exact /\ parseConfirmation(f)
    BY <1>3, ParserKeys
  <2> HIDE DEF exact
  <2>4. Spoken(r, f, max) <=>
          /\ <<f.frameType, f.senderRole>> \in Speech(r)
          /\ f.direction = (IF r = "device" THEN Up ELSE Down)
          /\ f.own /\ f.form /\ exact
    BY <1>3 DEF Spoken, Word, exact
  <2>5. QED
    BY <1>3, <2>2, <2>3, <2>4
    DEF parseConfirmation, parseRoute, validateSenderFrame, Speech, Roles, Up, Down
<1>4. CASE f.frameType = "session.envelope"
  <2>   f.frameType \in FrameTypes /\ f.frameType \notin Hellos
    BY <1>4 DEF FrameTypes, Hellos
  <2>2. exact => requireKeys(f, Keys[f.frameType])
    BY ExactKeys
  <2>3. ParseRelayFrame(f, max) <=> exact /\ parseEnvelope(f, max)
    BY <1>4, ParserKeys
  <2>4. f.ciphertext \in Nat /\ EffectiveMessageBytes(max) \in Nat /\ GCMTagBytes \in Nat
    BY SMT, QuotaRange, Sizes DEF Frame
  <2>5. /\ f.ciphertext >= GCMTagBytes
        /\ f.ciphertext <= EffectiveMessageBytes(max) + GCMTagBytes
        <=> f.ciphertext - GCMTagBytes \in 0 .. EffectiveMessageBytes(max)
    BY SMT, <2>4
  <2> HIDE DEF exact
  <2> DEFINE sized == f.ciphertext - GCMTagBytes \in 0 .. EffectiveMessageBytes(max)
             numbered == f.sequence \in 1 .. MaxEncryptedSequence
  <2>6. Spoken(r, f, max) <=>
          /\ <<f.frameType, f.kind>> \in Speech(r)
          /\ f.direction = (IF r = "device" THEN Up ELSE Down)
          /\ f.own /\ f.form /\ exact /\ numbered /\ sized
    BY <1>4 DEF Spoken, Word, exact
  <2>7. parseEnvelope(f, max) <=>
          /\ requireKeys(f, Keys[f.frameType]) /\ parseRoute(f)
          /\ numbered /\ sized
          /\ f.direction = Up => f.kind = "rpc.request"
          /\ f.direction = Down => f.kind \in {"rpc.response", "event"}
    BY <2>5 DEF parseEnvelope
  <2> HIDE DEF sized, numbered
  <2>8. QED
    BY <1>4, <2>2, <2>3, <2>6, <2>7
    DEF parseRoute, validateSenderFrame, Speech, Roles, Kinds, Up, Down
<1>5. QED
  BY <1>1, <1>2, <1>3, <1>4 DEF FrameTypes

-----------------------------------------------------------------------------
(* Frames: the invariant *)

FramesInv ==
  /\ TypeOK
  /\ stage # "reading" => Received(frame)
  /\ stage = "parsed" => ParseRelayFrame(frame, configured)
  /\ verdict = "message_too_large" => WireSize(frame) > WireFrameLimit(configured)
  /\ verdict = "invalid_frame" => ~ParseRelayFrame(frame, configured)
  /\ verdict = "route" =>
       ParseRelayFrame(frame, configured) /\ validateSenderFrame(role, frame)
  /\ verdict = "identity_or_direction_mismatch" => ~validateSenderFrame(role, frame)

\* The shapes of messages that are tried are shapes of messages.
LEMMA ShapeTypes ==
  ASSUME NEW type, NEW shape \in Shapes(type)
  PROVE  /\ shape.occurs \in [Names -> 0 .. 2]
         /\ shape.form \in BOOLEAN /\ shape.own \in BOOLEAN
<1> DEFINE once == [k \in Names |-> IF k \in Keys[type] THEN 1 ELSE 0]
           exact == [occurs |-> once, form |-> TRUE, own |-> TRUE]
<1>   once \in [Names -> 0 .. 2]
  BY SMT
<1> HIDE DEF once
<1>2. CASE shape = exact
  BY <1>2
<1>3. CASE shape = [exact EXCEPT !.form = FALSE] \/ shape = [exact EXCEPT !.own = FALSE]
  BY <1>3
<1>4. ASSUME NEW k, NEW n \in 0 .. 2, shape = [exact EXCEPT !.occurs[k] = n]
      PROVE  /\ shape.occurs \in [Names -> 0 .. 2]
             /\ shape.form \in BOOLEAN /\ shape.own \in BOOLEAN
  <2>1. shape.occurs = [once EXCEPT ![k] = n] /\ shape.form = TRUE /\ shape.own = TRUE
    BY <1>4
  <2>2. [once EXCEPT ![k] = n] \in [Names -> 0 .. 2]
    OBVIOUS
  <2>3. QED
    BY <2>1, <2>2
<1>5. \/ shape = exact
      \/ shape = [exact EXCEPT !.form = FALSE]
      \/ shape = [exact EXCEPT !.own = FALSE]
      \/ \E k \in {"frameType", "nonce", "senderRole", "other"}, n \in 0 .. 2 :
           shape = [exact EXCEPT !.occurs[k] = n]
  BY SMT DEF Shapes, once
<1>6. QED
  BY <1>2, <1>3, <1>4, <1>5

LEMMA LengthTypes ==
  ASSUME NEW c \in Int
  PROVE  Lengths(c) \subseteq Nat
<1>1. EffectiveMessageBytes(c) + GCMTagBytes \in Nat
  BY QuotaRange
<1>2. {GCMTagBytes - 1, GCMTagBytes} \subseteq Nat
  BY SMT DEF GCMTagBytes
<1>3. QED
  BY SMT, <1>1, <1>2 DEF Lengths

LEMMA ReadIsReceived ==
  ASSUME configured \in Int, ReadAny
  PROVE  \E f : Received(f) /\ Read(f)
<1>1. PICK type \in FrameTypes \cup {"other"}, d \in {Up, Down, "other"},
           rest \in Rests :
      \E shape \in Shapes(type),
         r \in (IF type = "session.confirmation"
                THEN {"android", "windows", "other"} ELSE {"other"}),
         e \in (IF type = "session.envelope"
                THEN (Kinds \cup {"other"}) \X Lengths(configured)
                     \X {0, MaxEncryptedSequence, MaxEncryptedSequence + 1}
                ELSE {<<"other", 0, 0>>}) :
        Read([occurs |-> shape.occurs, frameType |-> type, direction |-> d,
              senderRole |-> r, kind |-> e[1], sequence |-> e[3],
              ciphertext |-> e[2], rest |-> rest,
              form |-> shape.form, own |-> shape.own])
  BY DEF ReadAny
<1>2. PICK shape \in Shapes(type),
           r \in (IF type = "session.confirmation"
                  THEN {"android", "windows", "other"} ELSE {"other"}),
           e \in (IF type = "session.envelope"
                  THEN (Kinds \cup {"other"}) \X Lengths(configured)
                       \X {0, MaxEncryptedSequence, MaxEncryptedSequence + 1}
                  ELSE {<<"other", 0, 0>>}) :
        Read([occurs |-> shape.occurs, frameType |-> type, direction |-> d,
              senderRole |-> r, kind |-> e[1], sequence |-> e[3],
              ciphertext |-> e[2], rest |-> rest,
              form |-> shape.form, own |-> shape.own])
  BY <1>1
<1> DEFINE f == [occurs |-> shape.occurs, frameType |-> type, direction |-> d,
                 senderRole |-> r, kind |-> e[1], sequence |-> e[3],
                 ciphertext |-> e[2], rest |-> rest,
                 form |-> shape.form, own |-> shape.own]
<1>3. r \in {"android", "windows", "other"}
  OBVIOUS
<1>4. /\ e[1] \in Kinds \cup {"other"} /\ e[2] \in Nat /\ e[3] \in Nat
      /\ type # "session.envelope" => e[1] = "other"
  <2>1. CASE type = "session.envelope"
    <3>1. e \in (Kinds \cup {"other"}) \X Lengths(configured)
                  \X {0, MaxEncryptedSequence, MaxEncryptedSequence + 1}
      BY <2>1
    <3>2. /\ e[1] \in Kinds \cup {"other"} /\ e[2] \in Lengths(configured)
          /\ e[3] \in {0, MaxEncryptedSequence, MaxEncryptedSequence + 1}
      BY <3>1
    <3>3. QED
      BY SMT, <2>1, <3>2, LengthTypes, FramesConstants
  <2>2. CASE type # "session.envelope"
    BY SMT, <2>2
  <2>3. QED
    BY <2>1, <2>2
<1>5. f \in Frame
  <2>1. shape.occurs \in [Names -> 0 .. 2] /\ shape.form \in BOOLEAN /\ shape.own \in BOOLEAN
    BY ShapeTypes
  <2>2. rest \in Nat
    BY FramesConstants
  <2>3. QED
    BY <1>3, <1>4, <2>1, <2>2 DEF Frame
<1>6. Received(f)
  BY <1>4, <1>5 DEF Received, Hellos
<1>7. QED
  BY <1>2, <1>6

LEMMA FramesInit == Init => FramesInv
  BY DEF Init, FramesInv, TypeOK, Stages, Verdicts

LEMMA FramesStep == FramesInv /\ [Next]_vars => FramesInv'
<1> SUFFICES ASSUME FramesInv, [Next]_vars
             PROVE  FramesInv'
  OBVIOUS
<1>   TypeOK /\ configured \in Int
  BY FramesConstants DEF FramesInv, TypeOK
<1>1. ASSUME NEW f, Received(f), Read(f)
      PROVE  FramesInv'
  BY <1>1 DEF Read, Decide, FramesInv, TypeOK, Stages, Verdicts, Received
<1>2. CASE Parse
  BY <1>2 DEF Parse, Decide, FramesInv, TypeOK, Stages, Verdicts
<1>3. CASE Validate
  BY <1>3 DEF Validate, Decide, FramesInv, TypeOK, Stages, Verdicts
<1>4. CASE Again
  <2>1. role' \in Roles
    BY <1>4 DEF Again, TypeOK
  <2>2. QED
    BY <1>4, <2>1 DEF Again, FramesInv, TypeOK, Stages, Verdicts
<1>5. CASE UNCHANGED vars
  BY <1>5 DEF vars, FramesInv, TypeOK
<1>6. QED
  BY <1>1, <1>2, <1>3, <1>4, <1>5, ReadIsReceived DEF Next

-----------------------------------------------------------------------------
(* Frames: the theorems *)

\* Every connection that is closed or served has one verdict.
THEOREM FramesTypeCorrect == Spec => []TypeOK
<1>1. FramesInv => TypeOK
  BY DEF FramesInv
<1>2. QED
  BY <1>1, FramesInit, FramesStep, PTL DEF Spec

\* For every quota, of whatever size and sign, the read limit that
\* WireFrameLimit computes leaves room for the largest ciphertext that
\* parseEnvelope accepts, and 64 KiB beside it.
THEOREM EveryLimitAdmitsFrames == Spec => []LimitAdmitsFrames
<1>1. FramesInv => LimitAdmitsFrames
  <2> SUFFICES ASSUME FramesInv, verdict = "message_too_large"
               PROVE  \/ frame.rest > Overhead
                      \/ /\ frame.frameType = "session.envelope"
                         /\ frame.ciphertext > EffectiveMessageBytes(configured) + GCMTagBytes
    BY DEF LimitAdmitsFrames
  <2>1. configured \in Int /\ frame \in Frame
    BY FramesConstants DEF FramesInv, TypeOK, Received
  <2>2. WireSize(frame) > WireFrameLimit(configured)
    BY DEF FramesInv
  <2>3. QED
    BY <2>1, <2>2, TooLarge
<1>2. QED
  BY <1>1, FramesInit, FramesStep, PTL DEF Spec

\* For every quota, ParseRelayFrame and validateSenderFrame together pass
\* exactly the vocabulary of the sender's role.
THEOREM EveryRoutedIsSpoken == Spec => []RoutedIsSpoken
<1>1. FramesInv => RoutedIsSpoken
  <2> SUFFICES ASSUME FramesInv, stage = "decided", verdict # "message_too_large"
               PROVE  verdict = "route" <=> Spoken(role, frame, configured)
    BY DEF RoutedIsSpoken, Spoken
  <2>1. /\ configured \in Int /\ Received(frame) /\ role \in Roles
        /\ verdict \in {"route", "invalid_frame", "identity_or_direction_mismatch"}
    BY FramesConstants DEF FramesInv, TypeOK, Verdicts
  <2>2. verdict = "route" <=>
          ParseRelayFrame(frame, configured) /\ validateSenderFrame(role, frame)
    BY <2>1 DEF FramesInv
  <2>3. QED
    BY <2>1, <2>2, ChecksAddUp
<1>2. QED
  BY <1>1, FramesInit, FramesStep, PTL DEF Spec

-----------------------------------------------------------------------------
(* Limiter: the map of the challenge limit *)

LEMMA TrackedIsFinite ==
  ASSUME NEW map
  PROVE  IsFiniteSet(Tracked(map)) /\ Cardinality(Tracked(map)) \in Nat
<1>1. Tracked(map) \subseteq Sources
  BY DEF Tracked
<1>2. IsFiniteSet(Sources)
  BY LimiterConstants
<1>3. IsFiniteSet(Tracked(map))
  BY <1>1, <1>2, FS_Subset
<1>4. QED
  BY <1>3, FS_CardinalityType

\* The loop over the map only deletes.
LEMMA SweepShrinks ==
  ASSUME NEW now
  PROVE  Cardinality(Tracked(Swept(now))) <= Cardinality(Tracked(attempts))
<1>1. Tracked(Swept(now)) \subseteq Tracked(attempts)
  BY DEF Tracked, Swept
<1>2. QED
  BY <1>1, TrackedIsFinite, FS_Subset

\* A request adds its source to a map at most, and only if there is room.
LEMMA RequestAdds ==
  ASSUME NEW map, DOMAIN map = Sources, NEW a \in Sources, NEW attempt,
         map[a] # Null \/ Room(map),
         Cardinality(Tracked(map)) <= MaxSources
  PROVE  Cardinality(Tracked([map EXCEPT ![a] = attempt])) <= MaxSources
<1>0. PICK new : new = [map EXCEPT ![a] = attempt]
  OBVIOUS
<1>1. MaxSources \in Nat
  BY LimiterConstants
<1>   IsFiniteSet(Tracked(map)) /\ Cardinality(Tracked(map)) \in Nat
      /\ IsFiniteSet(Tracked(new)) /\ Cardinality(Tracked(new)) \in Nat
  BY TrackedIsFinite
<1>3. CASE map[a] # Null
  <2>1. Tracked(new) \subseteq Tracked(map)
    BY <1>0, <1>3 DEF Tracked
  <2>2. Cardinality(Tracked(new)) <= Cardinality(Tracked(map))
    BY <2>1, FS_Subset
  <2>3. QED
    BY SMT, <1>0, <1>1, <2>2
<1>4. CASE map[a] = Null
  <2>1. Tracked(new) \subseteq Tracked(map) \cup {a} /\ a \notin Tracked(map)
    BY <1>0, <1>4 DEF Tracked
  <2>2. /\ IsFiniteSet(Tracked(map) \cup {a})
        /\ Cardinality(Tracked(map) \cup {a}) = Cardinality(Tracked(map)) + 1
    BY <2>1, FS_AddElement
  <2>3. Cardinality(Tracked(new)) <= Cardinality(Tracked(map)) + 1
    BY ZenonT(40), <2>1, <2>2, FS_Subset
  <2>4. Cardinality(Tracked(map)) < MaxSources
    BY <1>4 DEF Room
  <2>5. QED
    BY SMT, <1>0, <1>1, <2>3, <2>4
<1>5. QED
  BY <1>3, <1>4

LEMMA TableStep == TableBounded /\ [LimiterNext]_limiterVars => TableBounded'
<1> SUFFICES ASSUME TableBounded, [LimiterNext]_limiterVars
             PROVE  TableBounded'
  OBVIOUS
<1>1. ASSUME NEW a \in Sources, NEW now \in Nows, allowChallenge(a, now)
      PROVE  TableBounded'
  <2>1. PICK map : map = Swept(now)
    OBVIOUS
  <2>2. DOMAIN map = Sources
    BY <2>1 DEF Swept
  <2>3. Cardinality(Tracked(map)) <= MaxSources
    <3>1. Cardinality(Tracked(map)) <= Cardinality(Tracked(attempts))
      BY <2>1, SweepShrinks
    <3>2. /\ Cardinality(Tracked(map)) \in Nat
          /\ Cardinality(Tracked(attempts)) \in Nat
      BY TrackedIsFinite
    <3>3. QED
      BY SMT, <3>1, <3>2, LimiterConstants DEF TableBounded
  <2>4. \/ attempts' = map
        \/ /\ map[a] # Null \/ Room(map)
           /\ \E attempt : attempts' = [map EXCEPT ![a] = attempt]
    BY <1>1, <2>1 DEF allowChallenge
  <2>5. CASE attempts' = map
    BY <2>3, <2>5 DEF TableBounded
  <2>6. ASSUME NEW attempt, map[a] # Null \/ Room(map),
               attempts' = [map EXCEPT ![a] = attempt]
        PROVE  TableBounded'
    BY <2>2, <2>3, <2>6, RequestAdds DEF TableBounded
  <2>7. QED
    BY <2>4, <2>5, <2>6
<1>2. CASE Tick \/ UNCHANGED limiterVars
  BY <1>2 DEF Tick, limiterVars, TableBounded
<1>3. QED
  BY <1>1, <1>2 DEF LimiterNext

\* allowChallenge never tracks more than maxChallengeSources addresses, for
\* every number of sources, every limit and every order in which requests
\* with stale times take the lock.
THEOREM TheTableIsBounded == LimiterSpec => []TableBounded
<1>1. LimiterInit => TableBounded
  <2> SUFFICES ASSUME LimiterInit
               PROVE  TableBounded
    OBVIOUS
  <2>1. Tracked(attempts) = {}
    BY DEF LimiterInit, Tracked
  <2>2. QED
    BY SMT, <2>1, FS_EmptySet, LimiterConstants DEF TableBounded
<1>2. QED
  BY <1>1, TableStep, PTL DEF LimiterSpec

-----------------------------------------------------------------------------
(* Limiter: how many requests of one source get through *)

\* Two windows have 2 * Limit places.
LEMMA PlacesBound ==
  ASSUME NEW S \in SUBSET Passage, Limit \in Nat,
         NEW v \in Nat, \A x \in S : x.window = v \/ x.window = v + 1,
         \A x \in S : 1 <= x.nth /\ x.nth <= Limit,
         \A x, y \in S : x.window = y.window /\ x.nth = y.nth => x = y
  PROVE  Cardinality(S) <= 2 * Limit
  <1> DEFINE place(x) == IF x.window = v THEN x.nth ELSE Limit + x.nth
             f == [x \in S |-> place(x)]
  <1>1. \A x \in S : place(x) \in 1 .. 2 * Limit
    BY SMT DEF Passage
  <1>2. \A x, y \in S : place(x) = place(y) => x = y
    BY SMT DEF Passage
  <1> HIDE DEF place
  <1>3. f \in Injection(S, 1 .. 2 * Limit)
    BY <1>1, <1>2 DEF Injection, IsInjective
  <1>4. /\ IsFiniteSet(1 .. 2 * Limit)
        /\ Cardinality(1 .. 2 * Limit) = 2 * Limit
    <2>1. 2 * Limit \in Int /\ 1 \in Int /\ 2 * Limit >= 0
      BY SMT
    <2> QED BY SMT, <2>1, FS_Interval
  <1> HIDE DEF f
  <1>5. Cardinality(S) <= Cardinality(1 .. 2 * Limit)
    BY SMT, <1>3, <1>4, FS_Injection
  <1> QED BY <1>4, <1>5

LEMMA BurstHolds == BurstInv => BurstBound
  <1> SUFFICES ASSUME BurstInv, NEW a \in Sources, NEW from \in 0 .. MaxTime
               PROVE  Cardinality(AllowedIn(a, from, from + Window - MaxLag - 1))
                        <= (IF Limit > 0 THEN 2 * Limit ELSE 0)
    BY DEF BurstBound
  <1>1. PICK S : S = AllowedIn(a, from, from + Window - MaxLag - 1)
    OBVIOUS
  <1>   /\ S \in SUBSET Passage /\ S \subseteq allowed[a]
        /\ \A x \in S : from <= x.at /\ x.at <= from + Window - MaxLag - 1
    BY <1>1 DEF AllowedIn, BurstInv, LimiterTypeOK
  <1>   /\ \A x \in S : 1 <= x.nth /\ x.nth <= Limit
        /\ \A x, y \in S : PairOK(x, y)
    BY DEF BurstInv, SourceOK, PassageOK
  <1>4. CASE Limit > 0
    <2>1. \A x, y \in S : ~(x.window + 2 <= y.window)
      BY SMT, LimiterConstants DEF PairOK, Apart, Passage
    <2>2. PICK v \in Nat : \A x \in S : x.window = v \/ x.window = v + 1
      BY <2>1, TwoWindows
    <2>3. \A x, y \in S : x.window = y.window /\ x.nth = y.nth => x = y
      BY DEF PairOK
    <2>4. Limit \in Nat
      BY SMT, <1>4, LimiterConstants
    <2>5. Cardinality(S) <= 2 * Limit
      BY <2>2, <2>3, <2>4, PlacesBound
    <2> QED BY <1>1, <1>4, <2>5
  <1>5. CASE ~(Limit > 0)
    <2>1. S = {}
      BY SMT, <1>5, LimiterConstants DEF Passage
    <2>2. Cardinality(S) = 0
      BY <2>1, FS_EmptySet
    <2> QED BY SMT, <1>1, <1>5, <2>2
  <1> QED BY <1>4, <1>5

\* allowChallenge lets a source through at most twice the limit within a
\* minute less the wait for the lock, for every limit, window and wait, and
\* whatever the other sources do to the map.
THEOREM EveryBurstIsBounded == LimiterSpec => []BurstBound
  BY BurstStart, BurstStep, BurstHolds, PTL DEF LimiterSpec
=============================================================================
