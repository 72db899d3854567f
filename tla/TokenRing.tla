------------------------------ MODULE TokenRing ------------------------------
(***************************************************************************)
(* The token ring of the cluster metadata: the tokens of the hosts, the    *)
(* ranges between them, and the replicas of a keyspace by its replication  *)
(* strategy (metadata/index.js, schema-parser.js, token.js).  Tokens are   *)
(* numbers, 0 the smallest; the tokenizer itself is not in the repository. *)
(***************************************************************************)
EXTENDS Naturals, Sequences, FiniteSets, SequencesExt

CONSTANTS
    MaxToken,     \* bound: tokens are 0..MaxToken
    Layouts,      \* topologies: functions from hosts to [dc, rack, tokens]
    Strategies,   \* of the keyspace: [kind, rf, dcs], dcs a function from names to factors
    RingSteps     \* bound: operations of a behaviour

ASSUME RingAssumption ==
    /\ MaxToken \in Nat \ {0} /\ RingSteps \in Nat
    /\ \A l \in Layouts : \A h \in DOMAIN l : l[h].tokens \subseteq 0..MaxToken

VARIABLES
    layout,       \* the hosts given to buildTokens
    ring,         \* this.ring, empty before the first buildTokens
    strategy,     \* of the keyspace as it was last read
    replicas,     \* keyspace.replicas, empty until it is asked for
    placedOn,     \* the layout it was computed for
    answer,       \* what the last operation returned
    ringSteps

ringVars == <<layout, ring, strategy, replicas, placedOn, answer, ringSteps>>

Tokens == 0..MaxToken
MinToken == 0
NoRack == "none"

-----------------------------------------------------------------------------
\* Ranges of tokens (token.js): after start, up to and with end.
TokenRange(start, end) == [start |-> start, end |-> end]

isEmpty(r) == r.start = r.end /\ r.start # MinToken

isWrappedAround(r) == r.start > r.end /\ r.end # MinToken

\* Faulty: a range up to the smallest token is compared like the others.
contains_NoMinToken(r, token) ==
    /\ ~isEmpty(r)
    /\ IF isWrappedAround(r) THEN token > r.start \/ token <= r.end
       ELSE token > r.start /\ token <= r.end

contains(r, token) ==
    /\ ~isEmpty(r)
    /\ CASE r.end = MinToken -> r.start = MinToken \/ token = MinToken \/ token > r.start
         [] r.end # MinToken /\ isWrappedAround(r) -> token > r.start \/ token <= r.end
         [] OTHER -> token > r.start /\ token <= r.end

unwrap(r) ==
    IF isWrappedAround(r) THEN <<TokenRange(r.start, MinToken), TokenRange(MinToken, r.end)>>
    ELSE <<r>>

\* The tokenizer's points between start and end, in order around the ring.
SplitPoints(r, n) ==
    LET size == MaxToken + 1
        length == IF r.start = r.end THEN size ELSE (r.end + size - r.start) % size
    IN  [k \in 1..(n - 1) |-> (r.start + ((k * length) \div n)) % size]

splitEvenly(r, n) ==
    LET points == SplitPoints(r, n)
        ends == Append(points, r.end)
    IN  [k \in DOMAIN ends |-> TokenRange(IF k = 1 THEN r.start ELSE ends[k - 1], ends[k])]

-----------------------------------------------------------------------------
\* The ring (Metadata.buildTokens).
Owner(l, token) == CHOOSE h \in DOMAIN l : token \in l[h].tokens

\* The numbers of a set from the smallest on: the i-th has i - 1 smaller ones.
Ascending(S) == [i \in 1..Cardinality(S) |-> CHOOSE t \in S : Cardinality({u \in S : u < t}) = i - 1]

SortedTokens(l) == Ascending(UNION {l[h].tokens : h \in DOMAIN l})

Datacenter(l, dc) == {h \in DOMAIN l : l[h].dc = dc /\ l[h].tokens # {}}
RacksOf(l, dc) == {l[h].rack : h \in Datacenter(l, dc)}

TokenRanges(tokens) ==
    IF Len(tokens) = 1 THEN {TokenRange(MinToken, MinToken)}
    ELSE {TokenRange(tokens[i], tokens[(i % Len(tokens)) + 1]) : i \in DOMAIN tokens}

\* utils.binarySearch and what getReplicas makes of a miss.
ClosestIndex(tokens, token) ==
    LET after == {i \in DOMAIN tokens : tokens[i] >= token}
    IN  IF after = {} THEN 1 ELSE CHOOSE i \in after : \A j \in after : i <= j

-----------------------------------------------------------------------------
\* Replicas of one token of the ring: its hosts clockwise from it.
Clockwise(l, tokens, i) ==
    [j \in DOMAIN tokens |-> Owner(l, tokens[((i + j - 2) % Len(tokens)) + 1])]

\* Faulty: a host with several tokens counts several times.
SimpleStrategy_Duplicates(l, tokens, i, rf) == SubSeq(Clockwise(l, tokens, i), 1, rf)

SimpleStrategy(l, tokens, i, rf) ==
    FoldLeft(LAMBDA placed, h :
                IF Len(placed) < rf /\ h \notin ToSet(placed) THEN Append(placed, h) ELSE placed,
             << >>, Clockwise(l, tokens, i))

Least(a, b) == IF a <= b THEN a ELSE b

\* The replicas that a datacenter gets.
DcRf(l, dcs, dc) ==
    IF dc \in DOMAIN dcs THEN Least(dcs[dc], Cardinality(Datacenter(l, dc))) ELSE 0

\* The loop variables of one token; the skipped hosts are those of all datacenters.
NoneAdded == [hosts |-> << >>, byDc |-> << >>, racks |-> << >>, skipped |-> << >>, done |-> FALSE]

At(f, k, default) == IF k \in DOMAIN f THEN f[k] ELSE default
Put(f, k, v) == [x \in DOMAIN f \union {k} |-> IF x = k THEN v ELSE f[x]]

isDoneForToken(l, dcs, byDc) ==
    \A dc \in DOMAIN dcs :
        Datacenter(l, dc) # {} /\ DcRf(l, dcs, dc) > 0 => At(byDc, dc, 0) >= DcRf(l, dcs, dc)

\* h gets a replica, and after the last rack of its datacenter the skipped hosts do.
PlaceHost(l, dcs, w, h) ==
    LET dc == l[h].dc
        count == At(w.byDc, dc, 0) + 1
        racks == At(w.racks, dc, {}) \union (IF l[h].rack = NoRack THEN {} ELSE {l[h].rack})
        complete == /\ l[h].rack # NoRack /\ l[h].rack \notin At(w.racks, dc, {})
                    /\ Cardinality(racks) = Cardinality(RacksOf(l, dc))
        more == IF ~complete THEN << >>
                ELSE SubSeq(w.skipped, 1, Least(DcRf(l, dcs, dc) - count, Len(w.skipped)))
        byDc == Put(w.byDc, dc, count + Len(more))
    IN  [w EXCEPT !.hosts = Append(@, h) \o more, !.byDc = byDc, !.racks = Put(@, dc, racks),
                  !.done = isDoneForToken(l, dcs, byDc)]

\* One turn of the loop around the ring.
ConsiderHost(l, dcs, w, h) ==
    LET dc == l[h].dc
        rf == DcRf(l, dcs, dc)
        count == At(w.byDc, dc, 0)
    IN  CASE w.done \/ h \in ToSet(w.hosts) \/ count >= rf -> w
          [] ~(w.done \/ h \in ToSet(w.hosts) \/ count >= rf)
                /\ l[h].rack # NoRack /\ l[h].rack \in At(w.racks, dc, {})
                /\ Cardinality(At(w.racks, dc, {})) < Cardinality(RacksOf(l, dc)) ->
                    IF Len(w.skipped) < rf - count THEN [w EXCEPT !.skipped = Append(@, h)] ELSE w
          [] OTHER -> PlaceHost(l, dcs, w, h)

NetworkStrategy(l, tokens, i, dcs) ==
    FoldLeft(LAMBDA w, h : ConsiderHost(l, dcs, w, h), NoneAdded, Clockwise(l, tokens, i)).hosts

\* getTokenToReplicaMapper
tokenToReplica(l, tokens, s) ==
    [t \in ToSet(tokens) |->
        LET i == CHOOSE n \in DOMAIN tokens : tokens[n] = t
        IN  CASE s.kind = "simple" /\ s.rf > 1 -> SimpleStrategy(l, tokens, i, Least(s.rf, Len(tokens)))
              [] s.kind = "network" -> NetworkStrategy(l, tokens, i, s.dcs)
              [] OTHER -> <<Owner(l, t)>>]

-----------------------------------------------------------------------------
Nothing == [of |-> "nothing"]

RingInit ==
    /\ layout = << >> /\ ring = << >> /\ strategy \in Strategies
    /\ replicas = << >> /\ placedOn = << >> /\ answer = Nothing /\ ringSteps = 0

\* The replicas a keyspace keeps are not dropped here.
BuildTokens(l) ==
    /\ layout' = l
    /\ ring' = SortedTokens(l)
    /\ answer' = Nothing
    /\ UNCHANGED <<strategy, replicas, placedOn>>

\* The keyspace is read again, as an object without replicas.
RereadKeyspace(s) ==
    /\ strategy' = s
    /\ replicas' = << >> /\ placedOn' = << >>
    /\ answer' = Nothing
    /\ UNCHANGED <<layout, ring>>

\* _getKeyspaceReplicas: computed once per keyspace object.
getKeyspaceReplicas == IF replicas = << >> THEN tokenToReplica(layout, ring, strategy) ELSE replicas

KeepReplicas ==
    /\ replicas' = getKeyspaceReplicas
    /\ placedOn' = IF replicas = << >> THEN layout ELSE placedOn

\* Without a keyspace it is the host that owns the token.
GetPrimaryReplica(token) ==
    /\ ring # << >>
    /\ answer' = [of |-> "primary", token |-> token,
                  hosts |-> <<Owner(layout, ring[ClosestIndex(ring, token)])>>]
    /\ UNCHANGED <<layout, ring, strategy, replicas, placedOn>>

\* An unknown token among the replicas kept gives undefined.
GetReplicas(token) ==
    LET closest == ring[ClosestIndex(ring, token)]
    IN  /\ ring # << >>
        /\ KeepReplicas
        /\ answer' = [of |-> "token", token |-> token,
                      hosts |-> At(getKeyspaceReplicas, closest, << >>)]
        /\ UNCHANGED <<layout, ring, strategy>>

\* A ring of one token belongs to every host that asks; a range with an end that the
\* replicas kept do not know throws.
GetTokenRangesForHost(h) ==
    LET all == TokenRanges(ring)
    IN  /\ ring # << >>
        /\ IF Len(ring) = 1
           THEN /\ answer' = [of |-> "host", host |-> h, ranges |-> all]
                /\ UNCHANGED <<replicas, placedOn>>
           ELSE /\ KeepReplicas
                /\ answer' = IF ToSet(ring) \subseteq DOMAIN getKeyspaceReplicas
                             THEN [of |-> "host", host |-> h, ranges |->
                                    {r \in all : h \in ToSet(getKeyspaceReplicas[r.end])}]
                             ELSE Nothing
        /\ UNCHANGED <<layout, ring, strategy>>

RingNext ==
    /\ ringSteps < RingSteps
    /\ ringSteps' = ringSteps + 1
    /\ \/ \E l \in Layouts : BuildTokens(l)
       \/ \E s \in Strategies : RereadKeyspace(s)
       \/ \E t \in Tokens : GetPrimaryReplica(t) \/ GetReplicas(t)
       \/ \E h \in DOMAIN layout : GetTokenRangesForHost(h)

RingSpec == RingInit /\ [][RingNext]_ringVars

-----------------------------------------------------------------------------
RangesOf(token) == {r \in TokenRanges(ring) : contains(r, token)}

\* The pieces share out the tokens of the range.
ShareOut(pieces, r) ==
    \A t \in Tokens : Cardinality({k \in DOMAIN pieces : contains(pieces[k], t)})
                            = IF contains(r, t) THEN 1 ELSE 0

\* Every token is in exactly one range of the ring, owned by the host that answers for
\* the token; the pieces into which a range is unwrapped, or split when it has enough
\* tokens, share out its tokens, and no unwrapped piece wraps around.
RangesPartition ==
    /\ ring # << >> =>
        /\ \A t \in Tokens : Cardinality(RangesOf(t)) = 1
        /\ \A r \in TokenRanges(ring) :
              /\ \A k \in DOMAIN unwrap(r) : ~isWrappedAround(unwrap(r)[k])
              /\ ShareOut(unwrap(r), r)
              /\ Cardinality({t \in Tokens : contains(r, t)}) > 1 => ShareOut(splitEvenly(r, 2), r)
    /\ answer.of = "primary" /\ Len(ring) > 1 =>
            \A r \in RangesOf(answer.token) : answer.hosts = <<Owner(layout, r.end)>>

\* A datacenter of which hosts are skipped until every rack has a replica.
Skips(l, dcs, dc) ==
    /\ DcRf(l, dcs, dc) > 1 /\ Cardinality(RacksOf(l, dc)) > 1
    /\ Cardinality(Datacenter(l, dc)) > Cardinality(RacksOf(l, dc))

\* The skipped hosts are in one list for all datacenters, once for each of their tokens:
\* the list may hold hosts of another datacenter, or the same host twice.
SkippedMixed(l, dcs) ==
    \E dc \in DOMAIN dcs :
        /\ Skips(l, dcs, dc)
        /\ \/ \E other \in DOMAIN dcs \ {dc} : DcRf(l, dcs, other) > 1
           \/ \E h \in Datacenter(l, dc) : Cardinality(l[h].tokens) > 1

\* What the strategies promise of the hosts of a token.
WellPlaced(hosts, token) ==
    LET l == layout
        live == {h \in DOMAIN l : l[h].tokens # {}}
        first == Clockwise(l, ring, ClosestIndex(ring, token))
        of(dc) == {h \in ToSet(hosts) : l[h].dc = dc}
    IN  /\ Cardinality(ToSet(hosts)) = Len(hosts)
        /\ CASE strategy.kind = "network" ->
                    \A dc \in {l[h].dc : h \in live} :
                        LET n == DcRf(l, strategy.dcs, dc)
                        IN  /\ Cardinality(of(dc)) = n
                            /\ Cardinality({l[h].rack : h \in of(dc)})
                                    = Least(n, Cardinality(RacksOf(l, dc)))
             [] strategy.kind = "simple" ->
                    /\ Len(hosts) = Least(strategy.rf, Cardinality(live))
                    /\ hosts[1] = first[1]
                    /\ \E n \in DOMAIN first :      \* they are the next hosts of the ring
                            ToSet(hosts) = ToSet(SubSeq(first, 1, n))
             [] OTHER -> hosts = <<first[1]>>

\* The replicas returned for a token are those that the strategy of the keyspace places:
\* as many hosts as it asks for in each datacenter, spread over its racks, each once;
\* and the ranges of a host are the tokens of which it is a replica. Two cases are
\* excepted: answers from replicas computed before the hosts last changed; and network
\* strategies where tokenNetworkStrategy mixes up the hosts it skips, because a
\* datacenter that skips hosts is not the only one to get several replicas or its hosts
\* have several tokens. There a datacenter takes the hosts of another, or a host is a
\* replica twice, although the tests of the metadata, which are disabled, expect of each
\* datacenter its own hosts.
ReplicasPlaced ==
    layout = placedOn =>
        /\ answer.of = "token" =>
            \/ strategy.kind = "network" /\ SkippedMixed(layout, strategy.dcs)
            \/ WellPlaced(answer.hosts, answer.token)
        /\ answer.of = "host" =>
            \A t \in Tokens :
                (\E r \in answer.ranges : contains(r, t))
                    <=> answer.host \in ToSet(replicas[ring[ClosestIndex(ring, t)]])
=============================================================================
