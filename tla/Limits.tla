------------------------------- MODULE Limits -------------------------------
(***************************************************************************)
(* The rate limits in front of the service, as functions of the requests   *)
(* and the seconds so far.  "ipLimit": the bucket of each address, looked  *)
(* up under a mutex and asked for a token after it, with idle buckets swept*)
(* out of a map that grew too large.  "nsLimit": the namespace's bucket,   *)
(* then the one they all share.  A bucket holds two seconds' worth of      *)
(* requests.                                                               *)
(***************************************************************************)
EXTENDS Cases, SequencesExt, FiniteSets

CONSTANTS
  IPRate,                       \* requests per second and address
  SweepThreshold, SweepEvery,   \* when the map of buckets is swept
  NamespaceRates,               \* requests per second of each namespace, 0 for no limit
  GlobalRate,
  Addresses

ASSUME LimitsConstants ==
  /\ IPRate \in Nat \ {0} /\ SweepThreshold \in Nat /\ SweepEvery \in Nat \ {0} /\ GlobalRate \in Nat \ {0}
  /\ IsFiniteSet(DOMAIN NamespaceRates) /\ NamespaceRates \in [DOMAIN NamespaceRates -> Nat]

\* Requests of the addresses and namespaces there are, and seconds.
ASSUME LimitsInputs ==
  /\ "ipLimit" \in DOMAIN Alphabet =>
       Alphabet["ipLimit"] \subseteq [op : {"request", "lookup", "allow"}, ip : Addresses] \cup {[op |-> "second"]}
  /\ "nsLimit" \in DOMAIN Alphabet =>
       Alphabet["nsLimit"] \subseteq [op : {"request"}, ns : DOMAIN NamespaceRates] \cup {[op |-> "second"]}

\* A token bucket of golang.org/x/time/rate, with whole seconds.
Burst(perSecond) == 2 * perSecond
Refill(tokens, perSecond) == IF tokens + perSecond > Burst(perSecond) THEN Burst(perSecond) ELSE tokens + perSecond

-----------------------------------------------------------------------------
(* Per address *)

\* The limiters ever made, the one the map has for each address (0 for none),
\* and for each address the limiters that requests hold; and what was let through,
\* with how much of it by a limiter no longer in the map.
NewIPBucketStore ==
  [limiters |-> <<>>, buckets |-> [a \in Addresses |-> 0], held |-> [a \in Addresses |-> <<>>],
   allowed |-> [a \in Addresses |-> 0], orphaned |-> [a \in Addresses |-> 0], seconds |-> 0]

\* Mutant: the sweep empties the map.
AllIdle(s, l) == TRUE

\* A bucket that is full again was not used for a while.
Idle(s, l) == s.limiters[l] >= Burst(IPRate)

\* The address's limiter; a new one may first sweep the idle ones out.
BucketFor(s, ip) ==
  LET mapped == {a \in Addresses : s.buckets[a] # 0}
      inserts == Len(s.limiters) + 1
      swept == IF inserts % SweepEvery = 0 /\ Cardinality(mapped) > SweepThreshold
               THEN {a \in mapped : Idle(s, s.buckets[a])} ELSE {}
  IN IF ip \in mapped THEN s
     ELSE [s EXCEPT !.limiters = [l \in 1..inserts |-> IF l = inserts THEN Burst(IPRate) ELSE @[l]],
                    !.buckets = [a \in Addresses |-> IF a = ip THEN inserts ELSE IF a \in swept THEN 0 ELSE @[a]]]

LookUp(s, ip) ==
  LET t == BucketFor(s, ip) IN [t EXCEPT !.held[ip] = Append(@, t.buckets[ip])]

\* Allow on the limiter that was looked up first, whether or not it is still mapped.
Allow(s, ip) ==
  IF s.held[ip] = <<>> THEN s
  ELSE LET l == Head(s.held[ip])
           pass == s.limiters[l] > 0
           orphan == pass /\ s.buckets[ip] # l
       IN [s EXCEPT !.held[ip] = Tail(@),
                    !.limiters[l] = IF pass THEN @ - 1 ELSE @,
                    !.allowed[ip] = IF pass THEN @ + 1 ELSE @,
                    !.orphaned[ip] = IF orphan THEN @ + 1 ELSE @]

\* A request of one address, at once or with others between its two steps; or a second.
StoreAfter(calls) ==
  FoldLeft(LAMBDA s, c :
             CASE c.op = "request" -> Allow(LookUp(s, c.ip), c.ip)
               [] c.op = "lookup" -> LookUp(s, c.ip)
               [] c.op = "allow" -> Allow(s, c.ip)
               [] OTHER -> [s EXCEPT !.limiters = [l \in DOMAIN @ |-> Refill(@[l], IPRate)], !.seconds = @ + 1],
           NewIPBucketStore, calls)

-----------------------------------------------------------------------------
(* Per namespace, and for all *)

Limited(ns) == NamespaceRates[ns] > 0

NewLimiters ==
  [namespaces |-> [n \in DOMAIN NamespaceRates |-> Burst(NamespaceRates[n])], all |-> Burst(GlobalRate), crowded |-> FALSE]

\* Mutant: the shared bucket is asked first.
SharedFirst(s, ns) ==
  IF s.all = 0 THEN [s EXCEPT !.crowded = TRUE]
  ELSE [s EXCEPT !.all = @ - 1, !.namespaces[ns] = IF @ > 0 THEN @ - 1 ELSE @]

\* The namespace's own bucket, and only then the shared one.
RateLimitNamespaceAndGlobal(s, ns) ==
  IF Limited(ns) /\ s.namespaces[ns] = 0 THEN s
  ELSE LET t == [s EXCEPT !.namespaces[ns] = IF Limited(ns) THEN @ - 1 ELSE @]
       IN IF t.all = 0 THEN [t EXCEPT !.crowded = TRUE] ELSE [t EXCEPT !.all = @ - 1]

LimitersAfter(calls) ==
  FoldLeft(LAMBDA s, c :
             IF c.op = "request" THEN RateLimitNamespaceAndGlobal(s, c.ns)
             ELSE [s EXCEPT !.namespaces = [n \in DOMAIN @ |-> Refill(@[n], NamespaceRates[n])],
                            !.all = Refill(@, GlobalRate)],
           NewLimiters, calls)

-----------------------------------------------------------------------------
(* Properties *)

\* Sweeping gives no address more than its rate: a bucket that is made again
\* starts full, and so must have been the one it replaces.  Only requests that
\* looked their bucket up before the sweep come on top.
SweepGrantsNothing ==
  algorithm = "ipLimit" =>
    LET s == StoreAfter(input)
    IN \A ip \in Addresses : s.allowed[ip] <= Burst(IPRate) + IPRate * s.seconds + s.orphaned[ip]

\* Every namespace has a limit, and the limits add up to no more than the global one.
SumOf(f) == FoldLeft(LAMBDA sum, n : sum + f[n], 0, SetToSeq(DOMAIN f))
RatesFit == (\A n \in DOMAIN NamespaceRates : Limited(n)) /\ SumOf(NamespaceRates) <= GlobalRate

\* A namespace that floods the service does so at its own cost: while the
\* namespaces' rates fit the global one, no request that its own namespace has
\* room for is refused for the others' sake.
FloodsStayHome == algorithm = "nsLimit" /\ RatesFit => ~LimitersAfter(input).crowded

\* Neither sweeping idle buckets nor sharing a global one makes an address or a
\* namespace pay for another, or gain by it (ipBucketStore,
\* RateLimitNamespaceAndGlobal).
LimitsFair == SweepGrantsNothing /\ FloodsStayHome
=============================================================================
