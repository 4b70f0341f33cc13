------------------------------- MODULE Control -------------------------------
(***************************************************************************)
(* What the engine does about congestion: identify_bottleneck on a path of *)
(* domains, apply_local_shaping on one of them, and the token bucket that  *)
(* a sender takes from a domain to shape its traffic (shaping.hpp).        *)
(*                                                                         *)
(* The rates and the backlog of a domain are whatever publications, fences *)
(* and flows make of them; how they do is the subject of Engine.  Rates    *)
(* are bytes per unit of time, and integers.                               *)
(***************************************************************************)
EXTENDS Capacity, SequencesExt

CONSTANTS
    Domains,
    Profiles,
    Rates,
    Backlogs,
    Amounts,        \* what the sender tries to send at once
    Paths,          \* paths asked for: sequences of ids, also of domains that are gone
    MaxGeneration,  \* bound: generations of backpressure
    MaxTime         \* bound: the sender's clock

ASSUME ControlAssumption ==
    /\ \A p \in Profiles : p \in Profile /\ ProfileValid(p)
    /\ Rates \subseteq Nat /\ Backlogs \subseteq Nat /\ Amounts \subseteq Nat
    /\ Paths \subseteq Seq(Nat)
    /\ MaxTime \in Nat /\ MaxGeneration \in Nat

VARIABLES
    profile,        \* CapacityProfile of each domain
    offered, serviced,
    backlog,        \* queued bytes
    shaping,        \* rate of the domain's token bucket, which is its burst as well
    generation,     \* backpressure_generation
    now,            \* the sender's clock
    bucket,         \* the sender's token bucket
    taken,          \* history: when the sender took it
    released        \* history: the bytes it has let through since

domainVars == <<profile, offered, serviced, backlog, shaping, generation>>
senderVars == <<bucket, taken, released>>
controlVars == <<domainVars, now, senderVars>>

\* TokenBucket(rate, burst): full, and last refilled at time 0.
TokenBucket(rate, burst) == [rate |-> rate, capacity |-> burst, tokens |-> burst, last |-> 0]

ControlInit ==
    /\ profile \in [Domains -> Profiles]
    /\ offered = [d \in Domains |-> 0] /\ serviced = [d \in Domains |-> 0]
    /\ backlog = [d \in Domains |-> 0]
    /\ shaping = [d \in Domains |-> 0]
    /\ generation = [d \in Domains |-> 0]
    /\ now = 0
    /\ bucket = TokenBucket(0, 0) /\ taken = 0 /\ released = 0

-----------------------------------------------------------------------------
(* Domains.                                                                *)

Publish(d, o, s, q) ==
    /\ offered' = [offered EXCEPT ![d] = o]
    /\ serviced' = [serviced EXCEPT ![d] = s]
    /\ backlog' = [backlog EXCEPT ![d] = q]
    /\ UNCHANGED <<profile, shaping, generation, now, senderVars>>

Larger(x, y) == IF x >= y THEN x ELSE y

\* Mutant of Allowed: what is left may be negative.
AllowedUnclamped(d) ==
    LET eff == Effective(profile[d])
    IN  (IF eff = NoBound THEN serviced[d] ELSE eff) - Larger(0, offered[d] - serviced[d])

Allowed(d) == Larger(0, AllowedUnclamped(d))

\* apply_local_shaping of a valid action that a caller has evaluated at some time: the
\* generation is the action's, whatever the domain's is.  An intent that restricts
\* nothing changes nothing.
ApplyLocalShaping(d, g) ==
    /\ shaping' = [shaping EXCEPT ![d] = Allowed(d)]
    /\ generation' = [generation EXCEPT ![d] = g]
    /\ UNCHANGED <<profile, offered, serviced, backlog, now, senderVars>>

-----------------------------------------------------------------------------
(* The sender.                                                             *)

\* domain() gives read access only: the sender takes a copy.
TakeBucket(d) ==
    /\ bucket' = TokenBucket(shaping[d], shaping[d])
    /\ taken' = now /\ released' = 0
    /\ UNCHANGED <<domainVars, now>>

Smaller(x, y) == IF x <= y THEN x ELSE y

\* Mutant of Refilled: the time of the refill is not kept.
RefilledAgain(b, t) ==
    IF t > b.last
    THEN [b EXCEPT !.tokens = Smaller(b.capacity, b.tokens + (t - b.last) * b.rate)]
    ELSE b

Refilled(b, t) ==
    IF t > b.last
    THEN [b EXCEPT !.tokens = Smaller(b.capacity, b.tokens + (t - b.last) * b.rate), !.last = t]
    ELSE b

\* refill, then try_consume.
Send(n) ==
    LET b == Refilled(bucket, now)
    IN  /\ bucket' = IF b.tokens >= n THEN [b EXCEPT !.tokens = @ - n] ELSE b
        /\ released' = IF b.tokens >= n THEN released + n ELSE released
        /\ UNCHANGED <<domainVars, now, taken>>

Tick ==
    /\ now < MaxTime
    /\ now' = now + 1
    /\ UNCHANGED <<domainVars, senderVars>>

ControlNext ==
    \/ \E d \in Domains :
          \/ \E o, s \in Rates, q \in Backlogs : Publish(d, o, s, q)
          \/ \E g \in 1..MaxGeneration : ApplyLocalShaping(d, g)
          \/ TakeBucket(d)
    \/ \E n \in Amounts : Send(n)
    \/ Tick

ControlSpec == ControlInit /\ [][ControlNext]_controlVars

-----------------------------------------------------------------------------
(* identify_bottleneck.                                                    *)

Pressure(d) == offered[d] - serviced[d] + backlog[d]

NoneYet == [domain |-> 0, deficit |-> -1]

\* Mutant of Worse: a negative best is not replaced unless by a positive pressure.
WorseIfPositive(best, d) ==
    IF d \in Domains /\ Pressure(d) > Larger(0, best.deficit)
    THEN [domain |-> d, deficit |-> Pressure(d)] ELSE best

\* Domains that do not exist are passed over; a negative best is always replaced.
Worse(best, d) ==
    IF d \in Domains /\ (Pressure(d) > best.deficit \/ best.deficit < 0)
    THEN [domain |-> d, deficit |-> Pressure(d)] ELSE best

IdentifyBottleneck(path) ==
    LET best == FoldLeft(Worse, NoneYet, path)
    IN  IF best.deficit < 0 THEN [best EXCEPT !.deficit = 0] ELSE best

-----------------------------------------------------------------------------
(* Properties.                                                             *)

\* TokenBucket "never creates bandwidth; it only bounds how quickly bytes are released":
\* a sender that refills before it consumes never releases more than a burst and what
\* the rate allows for the time since it took the bucket, however it spreads its sends.
NeverCreatesBandwidth == released <= bucket.capacity + (now - taken) * bucket.rate

\* "Bounded local software shaping only: reduce the admitted envelope": whatever the
\* rates were when it was applied, shaping allows no more than the effective capacity.
EnvelopeFits ==
    \A d \in Domains :
        /\ shaping[d] >= 0
        /\ Effective(profile[d]) # NoBound => shaping[d] <= Effective(profile[d])

\* The bottleneck of a path is a domain of the path under the highest pressure, when any
\* of its domains is not below its serviced rate; otherwise no deficit is reported.
BottleneckIsWorst ==
    \A path \in Paths :
        LET found   == IdentifyBottleneck(path)
            pressed == {d \in Domains \cap Range(path) : Pressure(d) >= 0}
        IN  IF pressed = {} THEN found.deficit = 0
            ELSE /\ found.domain \in pressed
                 /\ \A d \in pressed : Pressure(d) <= found.deficit
                 /\ found.deficit = Pressure(found.domain)
=============================================================================
