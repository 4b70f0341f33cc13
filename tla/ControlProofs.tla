---------------------------- MODULE ControlProofs ----------------------------
(***************************************************************************)
(* Proofs about shaping and bottlenecks.  What a sender has released and   *)
(* what its bucket still holds are, together, no more than a burst and     *)
(* what the rate gave since it took the bucket, up to the last refill;     *)
(* before the first send nothing has been released, and the bucket holds   *)
(* at most a burst.  The best that identify_bottleneck has seen is right   *)
(* for the part of the path that it has walked.                            *)
(***************************************************************************)
EXTENDS Control, TLAPS

Bucket == [rate : Nat, capacity : Nat, tokens : Nat, last : Nat]

Accounted ==
    \/ released = 0
    \/ /\ taken <= bucket.last
       /\ released + bucket.tokens <= bucket.capacity + (bucket.last - taken) * bucket.rate

ControlInv ==
    /\ profile \in [Domains -> Profiles]
    /\ offered \in [Domains -> Nat] /\ serviced \in [Domains -> Nat]
    /\ backlog \in [Domains -> Nat]
    /\ shaping \in [Domains -> Nat]
    /\ EnvelopeFits
    /\ now \in Nat /\ taken \in Nat /\ released \in Nat
    /\ bucket \in Bucket
    /\ bucket.tokens <= bucket.capacity
    /\ bucket.last <= now /\ taken <= now
    /\ Accounted

\* Refilling later gives what refilling in two steps gives.
LEMMA Splits ==
    ASSUME NEW r \in Nat, NEW a \in Nat, NEW b \in Nat, NEW c \in Nat, a <= b, b <= c
    PROVE  /\ (c - a) * r = (b - a) * r + (c - b) * r
           /\ (c - a) * r \in Nat /\ (b - a) * r \in Nat /\ (c - b) * r \in Nat
           /\ (b - a) * r <= (c - a) * r /\ (c - b) * r <= (c - a) * r
  <1> DEFINE x == b - a
             y == c - b
  <1>1. x \in Nat /\ y \in Nat /\ c - a = x + y
    OBVIOUS
  <1> HIDE DEF x, y
  <1>2. (x + y) * r = x * r + y * r /\ x * r \in Nat /\ y * r \in Nat
    BY <1>1, SMT
  <1>3. (c - a) * r = x * r + y * r
    BY <1>1, <1>2, Zenon
  <1> QED
    BY <1>2, <1>3 DEF x, y

\* The effective capacity of a valid profile is a rate.
LEMMA EffectiveIsRate ==
    ASSUME NEW p \in Profiles, Effective(p) # NoBound
    PROVE  Effective(p) \in Nat
  <1>1. p \in Profile
    BY ControlAssumption, Zenon
  <1>2. EffectiveBeforeReservation(p) # NoBound
    BY Zenon DEF Effective
  <1>3. Bounds(p) # {} /\ Bounds(p) \subseteq Nat
    BY <1>2, Zenon DEF EffectiveBeforeReservation, Bounds
  <1>4. \E x \in Bounds(p) : \A y \in Bounds(p) : x <= y
    <2>1. Bounds(p) = {p["theoretical"], p["configured"], p["measured_service"]} \cap Nat
      BY Zenon DEF Bounds, Layers
    <2> QED
      BY <1>3, <2>1, SMT
  <1>5. EffectiveBeforeReservation(p) \in Nat
    BY <1>3, <1>4, Zenon DEF EffectiveBeforeReservation, Least
  <1> QED
    BY <1>2, <1>5, RateAssumption DEF Effective

\* Nothing is released or shaped at first.
LEMMA InvInit == ControlInit => ControlInv
  BY ControlAssumption, EffectiveIsRate
     DEF ControlInit, ControlInv, TokenBucket, Bucket, Accounted, EnvelopeFits

\* What apply_local_shaping allows.
LEMMA AllowedFits ==
    ASSUME ControlInv, NEW d \in Domains
    PROVE  /\ Allowed(d) \in Nat
           /\ Effective(profile[d]) # NoBound => Allowed(d) <= Effective(profile[d])
  <1>1. profile[d] \in Profiles /\ offered[d] \in Nat /\ serviced[d] \in Nat
    BY Zenon DEF ControlInv
  <1>2. Effective(profile[d]) # NoBound => Effective(profile[d]) \in Nat
    BY <1>1, EffectiveIsRate, Zenon
  <1> QED
    BY <1>1, <1>2 DEF Allowed, AllowedUnclamped, Larger

\* What a refill changes.
LEMMA RefillGives ==
    ASSUME NEW b \in Bucket, NEW t \in Nat, b.last <= t, b.tokens <= b.capacity,
           (t - b.last) * b.rate \in Nat
    PROVE  LET c == Refilled(b, t)
           IN  /\ c \in Bucket /\ c.tokens <= c.capacity
               /\ c.rate = b.rate /\ c.capacity = b.capacity /\ c.last = t
               /\ c.tokens <= b.tokens + (t - b.last) * b.rate
  <1> DEFINE gain == (t - b.last) * b.rate
             k == Smaller(b.capacity, b.tokens + gain)
  <1>1. gain \in Nat /\ b.tokens \in Nat /\ b.capacity \in Nat /\ b.rate \in Nat /\ b.last \in Nat
    BY Zenon DEF Bucket
  <1>2. Refilled(b, t) = IF t > b.last THEN [b EXCEPT !.tokens = k, !.last = t] ELSE b
    BY Zenon DEF Refilled
  <1> HIDE DEF gain
  <1>3. k \in Nat /\ k <= b.capacity /\ k <= b.tokens + gain
    BY <1>1 DEF Smaller
  <1> HIDE DEF k
  <1>4. CASE t > b.last
    <2>1. Refilled(b, t) = [b EXCEPT !.tokens = k, !.last = t]
      BY <1>2, <1>4, Zenon
    <2>2. /\ Refilled(b, t) \in Bucket
          /\ Refilled(b, t).tokens = k /\ Refilled(b, t).rate = b.rate
          /\ Refilled(b, t).capacity = b.capacity /\ Refilled(b, t).last = t
      BY <1>3, <2>1, ZenonT(60) DEF Bucket
    <2> QED
      BY <1>3, <2>2, Zenon DEF gain
  <1>5. CASE ~(t > b.last)
    <2>1. Refilled(b, t) = b /\ b.last = t
      BY <1>1, <1>2, <1>5
    <2>2. b.tokens <= b.tokens + gain
      BY <1>1
    <2> QED
      BY <2>1, <2>2, Zenon DEF gain
  <1> QED
    BY <1>4, <1>5, Zenon

\* A refill keeps the account, up to the time of the refill.
LEMMA RefillKeeps ==
    ASSUME ControlInv
    PROVE  LET b == Refilled(bucket, now)
           IN  /\ b \in Bucket /\ b.tokens <= b.capacity
               /\ b.rate = bucket.rate /\ b.capacity = bucket.capacity
               /\ b.last = now
               /\ released + b.tokens <= b.capacity + (now - taken) * b.rate
  <1> DEFINE b == Refilled(bucket, now)
             r == bucket.rate
  <1>1. /\ bucket \in Bucket /\ bucket.tokens <= bucket.capacity /\ bucket.last <= now
        /\ taken <= now /\ now \in Nat /\ taken \in Nat /\ released \in Nat
        /\ r \in Nat /\ bucket.last \in Nat /\ bucket.tokens \in Nat /\ bucket.capacity \in Nat
    BY Zenon DEF ControlInv, Bucket
  <1>2. (now - bucket.last) * r \in Nat /\ (now - taken) * r \in Nat
    BY <1>1, Splits
  <1>3. /\ b \in Bucket /\ b.tokens <= b.capacity
        /\ b.rate = r /\ b.capacity = bucket.capacity /\ b.last = now
        /\ b.tokens <= bucket.tokens + (now - bucket.last) * r
    BY <1>1, <1>2, RefillGives, Zenon
  <1>4. released + b.tokens <= b.capacity + (now - taken) * r
    <2>1. CASE released = 0
      <3> HIDE DEF b, r
      <3> QED
        BY SMTT(20), <1>1, <1>2, <1>3, <2>1 DEF Bucket
    <2>2. CASE /\ taken <= bucket.last
               /\ released + bucket.tokens <= bucket.capacity + (bucket.last - taken) * r
      <3>1. /\ (now - taken) * r = (bucket.last - taken) * r + (now - bucket.last) * r
            /\ (bucket.last - taken) * r \in Nat
        BY <1>1, <2>2, Splits
      <3> DEFINE all == (now - taken) * r
                 before == (bucket.last - taken) * r
                 since == (now - bucket.last) * r
      <3>2. all = before + since /\ before \in Nat /\ since \in Nat
        BY <1>2, <3>1, Zenon
      <3>3. /\ released + bucket.tokens <= bucket.capacity + before
            /\ b.tokens <= bucket.tokens + since
            /\ b.tokens \in Nat /\ b.capacity = bucket.capacity
        BY <1>3, <2>2, Zenon DEF Bucket
      <3> HIDE DEF b, r, all, before, since
      <3>4. released + b.tokens <= b.capacity + all
        BY <1>1, <3>2, <3>3
      <3> QED
        BY <3>4, Zenon DEF all
    <2> QED
      BY <2>1, <2>2, Zenon DEF ControlInv, Accounted
  <1> QED
    BY <1>3, <1>4, Zenon

\* What consuming takes from a bucket.
LEMMA ConsumeTakes ==
    ASSUME NEW b \in Bucket, NEW n \in Nat, b.tokens >= n
    PROVE  LET c == [b EXCEPT !.tokens = @ - n]
           IN  /\ c \in Bucket
               /\ c.rate = b.rate /\ c.capacity = b.capacity /\ c.last = b.last
               /\ c.tokens = b.tokens - n
  BY DEF Bucket

\* Every step keeps the account and the envelope.
LEMMA InvStep == ControlInv /\ [ControlNext]_controlVars => ControlInv'
  <1> SUFFICES ASSUME ControlInv, [ControlNext]_controlVars
               PROVE  ControlInv'
    OBVIOUS
  <1>1. ASSUME NEW d \in Domains, NEW o \in Rates, NEW s \in Rates, NEW q \in Backlogs,
               Publish(d, o, s, q)
        PROVE  ControlInv'
    BY <1>1, ControlAssumption, Zenon
       DEF Publish, ControlInv, Accounted, EnvelopeFits, senderVars
  <1>2. ASSUME NEW d \in Domains, NEW g \in 1..MaxGeneration, ApplyLocalShaping(d, g)
        PROVE  ControlInv'
    <2>1. /\ Allowed(d) \in Nat
          /\ Effective(profile[d]) # NoBound => Allowed(d) <= Effective(profile[d])
      BY AllowedFits, Zenon
    <2>2. shaping' \in [Domains -> Nat] /\ EnvelopeFits'
      BY <1>2, <2>1 DEF ApplyLocalShaping, ControlInv, EnvelopeFits
    <2> QED
      BY <1>2, <2>2, Zenon DEF ApplyLocalShaping, ControlInv, Accounted, senderVars
  <1>3. ASSUME NEW d \in Domains, TakeBucket(d)
        PROVE  ControlInv'
    <2>1. bucket' \in Bucket /\ bucket'.tokens <= bucket'.capacity /\ bucket'.last = 0
      BY <1>3 DEF TakeBucket, TokenBucket, ControlInv, Bucket
    <2> QED
      BY <1>3, <2>1 DEF TakeBucket, ControlInv, Accounted, EnvelopeFits, domainVars
  <1>4. ASSUME NEW n \in Amounts, Send(n)
        PROVE  ControlInv'
    <2> DEFINE b == Refilled(bucket, now)
    <2>1. /\ b \in Bucket /\ b.tokens <= b.capacity /\ b.last = now
          /\ released + b.tokens <= b.capacity + (now - taken) * b.rate
      BY RefillKeeps, Zenon
    <2>2. /\ bucket' = IF b.tokens >= n THEN [b EXCEPT !.tokens = @ - n] ELSE b
          /\ released' = IF b.tokens >= n THEN released + n ELSE released
          /\ UNCHANGED <<domainVars, now, taken>>
      BY <1>4, Zenon DEF Send
    <2> HIDE DEF b
    <2>3. n \in Nat /\ released \in Nat /\ now \in Nat /\ taken \in Nat /\ taken <= now
      BY ControlAssumption, Zenon DEF ControlInv
    <2>4. /\ bucket' \in Bucket /\ released' \in Nat
          /\ bucket'.rate = b.rate /\ bucket'.capacity = b.capacity /\ bucket'.last = now
          /\ bucket'.tokens <= bucket'.capacity
          /\ released' + bucket'.tokens = released + b.tokens
      <3>1. CASE b.tokens >= n
        <4> DEFINE c == [b EXCEPT !.tokens = @ - n]
        <4>1. /\ c \in Bucket
              /\ c.rate = b.rate /\ c.capacity = b.capacity /\ c.last = b.last
              /\ c.tokens = b.tokens - n
          BY <2>1, <2>3, <3>1, ConsumeTakes, Zenon
        <4>2. bucket' = c /\ released' = released + n
          BY <2>2, <3>1, Zenon
        <4> HIDE DEF c
        <4> QED
          BY SMTT(20), <2>1, <2>3, <3>1, <4>1, <4>2 DEF Bucket
      <3>2. CASE ~(b.tokens >= n)
        <4>1. bucket' = b /\ released' = released
          BY <2>2, <3>2, Zenon
        <4> QED
          BY <2>1, <2>3, <4>1, Zenon
      <3> QED
        BY <3>1, <3>2, Zenon
    <2>5. UNCHANGED <<domainVars, now, taken>>
      BY <2>2, Zenon
    <2>6. Accounted'
      BY <2>1, <2>3, <2>4, <2>5, Zenon DEF Accounted
    <2> QED
      BY <2>3, <2>4, <2>5, <2>6 DEF ControlInv, EnvelopeFits, domainVars
  <1>5. CASE Tick
    <2>1. Accounted' <=> Accounted
      BY <1>5, Zenon DEF Tick, Accounted, senderVars
    <2>2. EnvelopeFits' <=> EnvelopeFits
      BY <1>5, Zenon DEF Tick, EnvelopeFits, domainVars
    <2>3. bucket.last \in Nat /\ now \in Nat /\ taken \in Nat
      BY Zenon DEF ControlInv, Bucket
    <2>4. now' \in Nat /\ bucket.last <= now' /\ taken <= now'
      BY <1>5, <2>3 DEF Tick, ControlInv
    <2> QED
      BY <1>5, <2>1, <2>2, <2>4, Zenon DEF Tick, ControlInv, domainVars, senderVars
  <1>6. CASE UNCHANGED controlVars
    BY <1>6, Zenon DEF controlVars, ControlInv, Accounted, EnvelopeFits, domainVars, senderVars
  <1> QED
    BY <1>1, <1>2, <1>3, <1>4, <1>5, <1>6, Zenon DEF ControlNext

\* The account and the envelope hold throughout.
LEMMA InvHolds == ControlSpec => []ControlInv
  BY InvInit, InvStep, PTL DEF ControlSpec

\* TokenBucket "never creates bandwidth": for every rate, burst and clock, a sender that
\* refills before it consumes stays within a burst and the rate.
THEOREM BandwidthBounded == ControlSpec => []NeverCreatesBandwidth
  <1>1. ControlInv => NeverCreatesBandwidth
    <2> SUFFICES ASSUME ControlInv
                 PROVE  NeverCreatesBandwidth
      OBVIOUS
    <2>1. LET b == Refilled(bucket, now)
          IN  /\ b \in Bucket /\ b.rate = bucket.rate /\ b.capacity = bucket.capacity
              /\ released + b.tokens <= b.capacity + (now - taken) * b.rate
      BY RefillKeeps, Zenon
    <2>2. \E t \in Nat : released + t <= bucket.capacity + (now - taken) * bucket.rate
      BY <2>1, Zenon DEF Bucket
    <2>3. /\ (now - taken) * bucket.rate \in Nat
          /\ bucket.capacity \in Nat /\ released \in Nat
      BY Splits DEF ControlInv, Bucket
    <2> QED
      BY <2>2, <2>3 DEF NeverCreatesBandwidth
  <1> QED
    BY <1>1, InvHolds, PTL

\* Local shaping "reduces the admitted envelope": for every profile and every sequence of
\* rates and applications it allows no more than the effective capacity.
THEOREM ShapingFits == ControlSpec => []EnvelopeFits
  <1>1. ControlInv => EnvelopeFits
    BY Zenon DEF ControlInv
  <1> QED
    BY <1>1, InvHolds, PTL

-----------------------------------------------------------------------------
(* The bottleneck of a path.                                               *)

WF == INSTANCE WellFoundedInduction

\* Every set of naturals that is not empty has a least element.
LEMMA LeastNatural ==
    ASSUME NEW S, S \subseteq Nat, S # {}
    PROVE  \E m \in S : \A x \in S : m <= x
  <1>1. PICK m \in S : \A x \in S : <<x, m>> \notin WF!OpToRel(<, Nat)
    BY WF!NatLessThanWellFounded, WF!WFMin, Zenon
  <1>2. \A x \in S : ~(x < m)
    BY <1>1, Zenon DEF WF!OpToRel
  <1> QED
    BY <1>2

\* What the walk has found in a set of positions of the path.
Found(path, g, s) == IF s = {} THEN NoneYet ELSE Worse(g[s \ {Max(s)}], path[Max(s)])

\* g is the table that FoldLeft looks the whole path up in.
WalkTable(path, g, S) == g = [s \in SUBSET S |-> Found(path, g, s)]

\* The last of the positions.
LEMMA LastPosition ==
    ASSUME NEW k \in Nat, NEW s \in SUBSET (1..k), k \in s
    PROVE  Max(s) = k
  <1>1. \A x \in s : x \in Int /\ x <= k
    OBVIOUS
  <1>2. \E x \in s : \A y \in s : x >= y
    BY <1>1
  <1>3. Max(s) \in s /\ \A y \in s : Max(s) >= y
    BY <1>2, Zenon DEF Max
  <1> DEFINE m == Max(s)
  <1>4. m \in s /\ m >= k
    BY <1>3, Zenon
  <1> HIDE DEF m
  <1>5. m = k
    BY <1>1, <1>4
  <1> QED
    BY <1>5, Zenon DEF m

\* A walk of one more position extends the table of the walk before it.
LEMMA WalkLonger ==
    ASSUME NEW path, NEW k \in Nat, NEW g, WalkTable(path, g, 1..k)
    PROVE  \E h : WalkTable(path, h, 1..(k + 1))
  <1> DEFINE n == k + 1
             h == [s \in SUBSET (1..n) |->
                     IF n \in s THEN Worse(g[s \ {n}], path[n]) ELSE g[s]]
  <1>1. \A s \in SUBSET (1..k) : g[s] = Found(path, g, s)
    BY Zenon DEF WalkTable
  <1>2. ASSUME NEW s \in SUBSET (1..k) PROVE h[s] = g[s]
    OBVIOUS
  <1>3. ASSUME NEW s \in SUBSET (1..n) PROVE h[s] = Found(path, h, s)
    <2>1. CASE n \in s
      <3>1. Max(s) = n
        BY <2>1, LastPosition
      <3>2. s \ {n} \in SUBSET (1..k)
        OBVIOUS
      <3>3. h[s \ {n}] = g[s \ {n}]
        BY <1>2, <3>2, Zenon
      <3>4. h[s] = Worse(g[s \ {n}], path[n])
        BY <2>1, Zenon
      <3> HIDE DEF h, n
      <3> QED
        BY <2>1, <3>1, <3>3, <3>4, Zenon DEF Found
    <2>2. CASE n \notin s
      <3>1. s \in SUBSET (1..k)
        BY <2>2
      <3>2. h[s] = g[s] /\ g[s] = Found(path, g, s)
        BY <1>1, <1>2, <3>1, Zenon
      <3>3. s # {} => s \ {Max(s)} \in SUBSET (1..k)
        BY <3>1, Zenon
      <3>4. s # {} => h[s \ {Max(s)}] = g[s \ {Max(s)}]
        BY <1>2, <3>3, Zenon
      <3> HIDE DEF h, n
      <3> QED
        BY <3>2, <3>4, Zenon DEF Found
    <2> QED
      BY <2>1, <2>2, Zenon
  <1>4. h = [s \in SUBSET (1..n) |-> h[s]]
    OBVIOUS
  <1> HIDE DEF h
  <1>5. h = [s \in SUBSET (1..n) |-> Found(path, h, s)]
    BY <1>3, <1>4, Zenon
  <1> QED
    BY <1>5, Zenon DEF WalkTable, n

\* The walk along a path of any length has a table.
LEMMA WalkExists ==
    ASSUME NEW path, NEW n \in Nat
    PROVE  \E g : WalkTable(path, g, 1..n)
  <1> DEFINE Short == {k \in Nat : ~\E g : WalkTable(path, g, 1..k)}
  <1> SUFFICES ASSUME Short # {} PROVE FALSE
    OBVIOUS
  <1>1. PICK k \in Short : \A x \in Short : k <= x
    BY LeastNatural, Zenon
  <1>2. k # 0
    <2> DEFINE g == [s \in SUBSET {} |-> NoneYet]
    <2>1. g = [s \in SUBSET {} |-> Found(path, g, s)]
      BY Zenon DEF Found
    <2>2. 1..0 = {}
      OBVIOUS
    <2> HIDE DEF g
    <2> QED
      BY <2>1, <2>2, Zenon DEF WalkTable
  <1>3. k - 1 \in Nat /\ k - 1 \notin Short
    BY <1>1, <1>2
  <1>4. PICK g : WalkTable(path, g, 1..(k - 1))
    BY <1>3, Zenon
  <1>5. \E h : WalkTable(path, h, 1..((k - 1) + 1))
    BY <1>3, <1>4, WalkLonger, Zenon
  <1> QED
    BY <1>5

\* b is right for a part of the path: its domain is under the highest pressure, unless
\* every domain is below its serviced rate.
BestOf(part, b) ==
    LET pressed == {d \in Domains \cap part : Pressure(d) >= 0}
    IN  /\ b.deficit \in Int
        /\ pressed = {} => b.deficit < 0
        /\ pressed # {} => /\ b.domain \in pressed
                           /\ \A d \in pressed : Pressure(d) <= b.deficit
                           /\ b.deficit = Pressure(b.domain)

\* One more domain of the path.
LEMMA WorseRight ==
    ASSUME ControlInv, NEW part, NEW b, BestOf(part, b), NEW d
    PROVE  BestOf(part \cup {d}, Worse(b, d))
  <1> DEFINE pressed == {e \in Domains \cap part : Pressure(e) >= 0}
             more == {e \in Domains \cap (part \cup {d}) : Pressure(e) >= 0}
             c == Worse(b, d)
  <1>1. \A e \in Domains : Pressure(e) \in Int
    BY DEF ControlInv, Pressure
  <1>2. /\ b.deficit \in Int
        /\ pressed = {} => b.deficit < 0
        /\ pressed # {} => /\ b.domain \in pressed
                           /\ \A e \in pressed : Pressure(e) <= b.deficit
                           /\ b.deficit = Pressure(b.domain)
    BY Zenon DEF BestOf
  <1>3. b.deficit >= 0 <=> pressed # {}
    BY <1>1, <1>2
  <1> SUFFICES /\ c.deficit \in Int
               /\ more = {} => c.deficit < 0
               /\ more # {} => /\ c.domain \in more
                               /\ \A e \in more : Pressure(e) <= c.deficit
                               /\ c.deficit = Pressure(c.domain)
    BY Zenon DEF BestOf
  <1>4. CASE d \notin Domains
    <2>1. more = pressed /\ c = b
      BY <1>4, Zenon DEF Worse
    <2> QED
      BY <1>2, <2>1
  <1>5. CASE d \in Domains /\ (Pressure(d) > b.deficit \/ b.deficit < 0)
    <2>1. c.domain = d /\ c.deficit = Pressure(d)
      BY <1>5, Zenon DEF Worse
    <2>2. \A e \in more : e \in pressed \/ e = d
      OBVIOUS
    <2>3. Pressure(d) >= 0 => d \in more
      BY <1>5, Zenon
    <2> HIDE DEF c, more
    <2>4. CASE Pressure(d) >= 0
      <3>1. ASSUME NEW e \in pressed PROVE Pressure(e) <= Pressure(d)
        <4>1. Pressure(e) <= b.deficit /\ b.deficit >= 0
          BY <1>2, <1>3, Zenon
        <4> QED
          BY SMTT(20), <1>1, <1>2, <1>5, <4>1
      <3> QED
        BY SMTT(20), <1>1, <1>5, <2>1, <2>2, <2>3, <2>4, <3>1
    <2>5. CASE ~(Pressure(d) >= 0)
      <3>1. b.deficit < 0
        BY SMTT(20), <1>1, <1>2, <1>5, <2>5
      <3>2. pressed = {}
        BY SMTT(20), <1>2, <1>3, <3>1
      <3>3. more = {}
        BY <2>5, <3>2, Zenon DEF more
      <3> QED
        BY SMTT(20), <1>1, <1>5, <2>1, <2>5, <3>3
    <2> QED
      BY <2>4, <2>5, Zenon
  <1>6. CASE d \in Domains /\ ~(Pressure(d) > b.deficit \/ b.deficit < 0)
    <2>1. c = b
      BY <1>6, Zenon DEF Worse
    <2>2. pressed # {} /\ Pressure(d) <= b.deficit
      BY SMTT(20), <1>1, <1>2, <1>3, <1>6
    <2>3. pressed \subseteq more /\ \A e \in more : e \in pressed \/ e = d
      OBVIOUS
    <2> HIDE DEF pressed, more, c
    <2> QED
      BY <1>2, <2>1, <2>2, <2>3, Zenon
  <1> QED
    BY SMTT(20), <1>4, <1>5, <1>6

\* The walk is right for each part of the path that it has covered.
LEMMA WalkRight ==
    ASSUME ControlInv, NEW path \in Seq(Nat), NEW g, WalkTable(path, g, 1..Len(path))
    PROVE  BestOf(Range(path), g[1..Len(path)])
  <1> DEFINE n == Len(path)
             part(k) == {path[j] : j \in 1..k}
             Wrong == {k \in Nat : k <= n /\ ~BestOf(part(k), g[1..k])}
  <1>0. n \in Nat /\ DOMAIN path = 1..n
    OBVIOUS
  <1> HIDE DEF n
  <1>1. \A s \in SUBSET (1..n) : g[s] = Found(path, g, s)
    BY Zenon DEF WalkTable, n
  <1>2. Wrong = {}
    <2> SUFFICES ASSUME Wrong # {} PROVE FALSE
      BY Zenon
    <2>1. PICK k \in Wrong : \A x \in Wrong : k <= x
      BY LeastNatural, Zenon
    <2>2. k \in Nat /\ k <= n /\ ~BestOf(part(k), g[1..k])
      OBVIOUS
    <2>3. k # 0
      <3>1. 1..0 = {} /\ part(0) = {} /\ {} \in SUBSET (1..n)
        OBVIOUS
      <3>2. g[{}] = NoneYet
        BY <1>1, <3>1, Zenon DEF Found
      <3>3. BestOf({}, NoneYet)
        BY DEF BestOf, NoneYet
      <3> QED
        BY <2>2, <3>1, <3>2, <3>3, Zenon
    <2>4. k - 1 \in Nat /\ k - 1 <= n /\ k - 1 \notin Wrong
      <3> HIDE DEF Wrong, part
      <3> QED
        BY SMTT(20), <1>0, <2>1, <2>2, <2>3
    <2>5. BestOf(part(k - 1), g[1..(k - 1)])
      BY <2>4, Zenon
    <2>6. g[1..k] = Worse(g[1..(k - 1)], path[k])
      <3>1. k \in 1..k /\ 1..k \in SUBSET (1..k) /\ 1..k \in SUBSET (1..n)
        BY SMTT(20), <1>0, <2>2, <2>3
      <3>2. Max(1..k) = k
        BY <2>2, <3>1, LastPosition, Zenon
      <3>3. (1..k) \ {k} = 1..(k - 1)
        BY <2>2
      <3>4. g[1..k] = Found(path, g, 1..k)
        BY <1>1, <3>1, Zenon
      <3> QED
        BY <3>1, <3>2, <3>3, <3>4, Zenon DEF Found
    <2>7. part(k) = part(k - 1) \cup {path[k]}
      BY SMTT(20), <2>2, <2>3
    <2>8. BestOf(part(k), g[1..k])
      <3> HIDE DEF part
      <3> QED
        BY SMTT(20), <2>5, <2>6, <2>7, WorseRight
    <2> QED
      BY <2>2, <2>8, Zenon
  <1>3. BestOf(part(n), g[1..n])
    <2>1. n <= n
      BY <1>0
    <2> HIDE DEF part
    <2> QED
      BY <1>0, <1>2, <2>1, Zenon
  <1>4. part(n) = Range(path)
    BY <1>0, Zenon DEF Range
  <1> HIDE DEF part
  <1> QED
    BY <1>3, <1>4 DEF n

\* identify_bottleneck: for paths of any length, with any domains removed, repeated or
\* below their serviced rates, the bottleneck is a domain under the highest pressure.
THEOREM BottleneckRight == ControlSpec => []BottleneckIsWorst
  <1>1. ASSUME ControlInv, NEW path \in Paths
        PROVE  LET found   == IdentifyBottleneck(path)
                   pressed == {d \in Domains \cap Range(path) : Pressure(d) >= 0}
               IN  IF pressed = {} THEN found.deficit = 0
                   ELSE /\ found.domain \in pressed
                        /\ \A d \in pressed : Pressure(d) <= found.deficit
                        /\ found.deficit = Pressure(found.domain)
    <2> DEFINE best == FoldLeft(Worse, NoneYet, path)
               g == CHOOSE h : WalkTable(path, h, 1..Len(path))
               pressed == {d \in Domains \cap Range(path) : Pressure(d) >= 0}
    <2>1. path \in Seq(Nat) /\ DOMAIN path = 1..Len(path) /\ Len(path) \in Nat
      BY ControlAssumption
    <2>2. FoldLeft(Worse, NoneYet, path) = (CHOOSE h : WalkTable(path, h, DOMAIN path))[DOMAIN path]
      BY Zenon DEF FoldLeft, MapThenFoldSet, WalkTable, Found
    <2>3. WalkTable(path, g, 1..Len(path))
      <3>1. \E h : WalkTable(path, h, 1..Len(path))
        BY <2>1, WalkExists, Zenon
      <3> QED
        BY <3>1, Zenon
    <2>4. best = g[1..Len(path)]
      BY <2>1, <2>2, Zenon
    <2> HIDE DEF g, best
    <2>5. BestOf(Range(path), best)
      BY <1>1, <2>1, <2>3, <2>4, WalkRight, Zenon
    <2>6. \A d \in pressed : Pressure(d) >= 0
      OBVIOUS
    <2>7. IdentifyBottleneck(path) = IF best.deficit < 0 THEN [best EXCEPT !.deficit = 0] ELSE best
      BY Zenon DEF IdentifyBottleneck, best
    <2> QED
      BY SMTT(20), <2>5, <2>6, <2>7 DEF BestOf
  <1>2. ControlInv => BottleneckIsWorst
    BY <1>1, Zenon DEF BottleneckIsWorst
  <1> QED
    BY <1>2, InvHolds, PTL
=============================================================================
