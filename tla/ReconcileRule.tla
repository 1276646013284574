----------------------------- MODULE ReconcileRule -----------------------------
(***************************************************************************)
(* How the first prober turns the scores of the hosts into the verdict map *)
(* of a service (prober/src/nftables_reconciler.rs, reconcile): a percent  *)
(* of the draws for each host, shared among its pods.  Scores are in       *)
(* percent and may be negative; the ranges are u32 and wrap, as in the     *)
(* release build.                                                          *)
(***************************************************************************)
EXTENDS Integers, Sequences, FiniteSets, Functions

CONSTANTS
  Host, Pod,
  HostOf,   \* the host of each pod
  NoScore,  \* a host missing from ewma_cpu_by_host or ewma_latency_by_host
  U32       \* 2^32; smaller in the runs

ASSUME WidthAssumption == U32 \in Nat /\ U32 > 100

PodsOn(pods, h) == {p \in pods : HostOf[p] = h}
HostsOf(pods) == {HostOf[p] : p \in pods}

\* One host with fewer than three pods is left to kube-proxy.
TooSmall(pods) == Cardinality(HostsOf(pods)) = 1 /\ Cardinality(pods) < 3

\* The hosts with both scores, among those that any service has pods on.
Scored(hosts, cpu, latency) == {h \in hosts : cpu[h] # NoScore /\ latency[h] # NoScore}

\* hostname_scores_lookup before it is divided by its sum.
HostScores(hosts, cpu, latency) ==
  [h \in Scored(hosts, cpu, latency) |-> cpu[h] + latency[h]]

Total(score) == SumFunction(score)

\* Mutant of PortionEach: the host's portion is given to each of its pods.
PortionEach_NotShared(s, total, n, lost) ==
  IF total # 0 /\ s * total > 0 THEN (100 * s) \div total ELSE 0

\* (score / total * 100 / pods).floor() as u32: the cast takes what is
\* negative to 0 and what is too large to the greatest u32; dividing by 0
\* leaves an infinity or no number.  Where the quotient is a whole number the
\* float may fall just short of it (`lost').
PortionEach(s, total, n, lost) ==
  IF total = 0 THEN IF s > 0 THEN U32 - 1 ELSE 0
  ELSE IF s * total <= 0 THEN 0
  ELSE LET num == IF total > 0 THEN 100 * s ELSE -100 * s
           den == IF total > 0 THEN total * n ELSE -total * n
           quotient == (num \div den) - (IF lost /\ num % den = 0 THEN 1 ELSE 0)
       IN  IF quotient < U32 THEN quotient ELSE U32 - 1

\* What each pod of each host gets; lost are the hosts whose float falls short.
Portions(pods, score, lost) ==
  LET total == Total(score)
  IN  [h \in HostsOf(pods) \intersect DOMAIN score |->
         PortionEach(score[h], total, Cardinality(PodsOn(pods, h)), h \in lost)]

\* start_range when the loop comes to the i-th host of the HashMap's order.
StartRange(order, each, pods) ==
  LET start[i \in 1..(Len(order) + 1)] ==
        IF i = 1 THEN 0
        ELSE (start[i - 1] + each[order[i - 1]] * Cardinality(PodsOn(pods, order[i - 1]))) % U32
  IN  start

\* Mutant of Modulus: the draws are from 100, as if nothing was rounded away.
Modulus_Hundred(order, each, pods) == 100
\* modulo_by: what was given out in all.
Modulus(order, each, pods) == StartRange(order, each, pods)[Len(order) + 1]

\* A host's pods in the order of their HashSet; they get equal shares, so one
\* order stands for all.
PlaceOf(p, pods) ==
  LET enumeration == CHOOSE f \in [pods -> 0..(Cardinality(pods) - 1)] : IsInjective(f)
  IN  enumeration[p]

\* The verdict map: the range of draws, first to last, that goes to each pod.
VerdictMap(order, each, pods) ==
  LET start == StartRange(order, each, pods)
      from(p) == LET i == CHOOSE i \in 1..Len(order) : order[i] = HostOf[p]
                 IN  start[i] + PlaceOf(p, PodsOn(pods, HostOf[p])) * each[HostOf[p]]
  IN  [p \in {q \in pods : HostOf[q] \in DOMAIN each} |->
         <<from(p) % U32, (from(p) + each[HostOf[p]] - 1) % U32>>]

\* nft refuses a range that ends before it begins, ranges that overlap, and
\* numgen modulo 0.
NftAccepts(map, modulus) ==
  /\ modulus > 0
  /\ \A p \in DOMAIN map : map[p][1] <= map[p][2]
  /\ \A p, q \in DOMAIN map : p # q => map[p][2] < map[q][1] \/ map[q][2] < map[p][1]

Orders(hosts) == {f \in [1..Cardinality(hosts) -> hosts] : IsInjective(f)}
=============================================================================
