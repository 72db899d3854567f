---------------------------- MODULE LoadBalancing ----------------------------
(***************************************************************************)
(* lib/policies/load-balancing.js: the query plans of RoundRobinPolicy,    *)
(* DCAwareRoundRobinPolicy and DefaultLoadBalancingPolicy, and of the      *)
(* wrappers TokenAwarePolicy and AllowListPolicy around the first two.     *)
(* Plans are read one host at a time while hosts come, go, fail and        *)
(* recover and while other plans of the same policy are made: the index    *)
(* and the list of local hosts are shared by all of them.                  *)
(* A host is a Host object: one that comes back after a removal is a new   *)
(* one.  Host health and the replicas are what the cluster metadata says.  *)
(***************************************************************************)
EXTENDS Integers, Sequences, SequencesExt, FiniteSets

CONSTANTS
    Hosts,         \* the hosts there may be
    HostDc,        \* the datacenter of each
    NoHost,
    Clusters,      \* [policy, hosts, health, replicas, preferred, changes]: a policy and the
                   \* cluster it is given, the replicas that getReplicas() may return, the
                   \* preferred hosts and a bound on the changes of the cluster
    MaxIndex,      \* utils.maxInt and 0x7fffffff: where the index starts again
    MaxPlans       \* bound on the plans that are made

\* Lists of hosts and of replicas name each host once; only the policies that have a child are wrappers.
ASSUME BalancingAssumption ==
    /\ NoHost \notin Hosts /\ MaxIndex \in Nat /\ MaxPlans \in Nat
    /\ \A c \in Clusters :
          /\ c.hosts \in Seq(Hosts) /\ IsInjective(c.hosts)
          /\ \A list \in c.replicas : list \in Seq(Hosts) /\ IsInjective(list)
          /\ c.health \in [Hosts -> {"idle", "busy", "stuck", "fresh", "down"}]
          /\ c.policy.base \in {"RoundRobin", "DCAware", "Default"}
          /\ c.policy.wrappers \in Seq({"TokenAware", "AllowList"})
          /\ c.policy.base = "Default" => c.policy.wrappers = << >>

VARIABLES
    cluster,       \* the one of Clusters at hand
    lbPolicy,      \* [base, wrappers from the outermost on, localDc, optionDc, allowList, filter]
    lbState,       \* "created", "ready" or "failed"
    known,         \* the values of the HostMap, in order
    health,        \* "idle", "busy", "stuck" (unhealthy), "fresh" (newly up) or "down"
    lbIndex,       \* index, _index
    localCache,    \* localHostsArray, _filteredHosts: null as << >> with no list made
    cached,        \* whether there is such a list
    plans,         \* the iterators
    changes        \* history: changes of the cluster so far

lbVars == <<cluster, lbPolicy, lbState, known, health, lbIndex, localCache, cached, plans, changes>>

Plans == 1 .. MaxPlans
NotMade == [state |-> "none"]

LbInit ==
    /\ cluster \in Clusters
    /\ lbPolicy = cluster.policy
    /\ lbState = "created"
    /\ known = cluster.hosts
    /\ health = cluster.health
    /\ lbIndex = 0
    /\ localCache = << >> /\ cached = FALSE
    /\ plans = [p \in Plans |-> NotMade]
    /\ changes = 0

-----------------------------------------------------------------------------
IsUp(h) == health[h] # "down"
Unhealthy(h) == health[h] = "stuck"
InFlight(h) == IF health[h] \in {"busy", "stuck"} THEN 10 ELSE 0

\* The datacenter in use: the one of the constructor, else the one of the client options.
LocalDc == IF lbPolicy.localDc # "" THEN lbPolicy.localDc ELSE lbPolicy.optionDc
IsLocal(h) == HostDc[h] = LocalDc
DataCenters == {HostDc[h] : h \in ToSet(known)}

\* init() with setLocalDc(): a datacenter must be configured and be one of the cluster.
InitPolicy ==
    /\ lbState = "created"
    /\ lbState' = IF lbPolicy.base = "RoundRobin" \/ LocalDc \in DataCenters THEN "ready" ELSE "failed"
    /\ UNCHANGED <<cluster, lbPolicy, known, health, lbIndex, localCache, cached, plans, changes>>

\* getDistance() of the wrapped policy, from the i-th wrapper inwards.
Near(h, i) ==
    /\ lbPolicy.base \in {"DCAware", "Default"} => IsLocal(h)
    /\ lbPolicy.base = "Default" => h \in lbPolicy.filter
    /\ \A j \in i .. Len(lbPolicy.wrappers) : lbPolicy.wrappers[j] = "AllowList" => h \in lbPolicy.allowList

\* The items of s that are in keep, in their order.
Only(s, keep) ==
    LET kept[i \in 0 .. Len(s)] ==
            IF i = 0 THEN << >> ELSE IF s[i] \in keep THEN Append(kept[i - 1], s[i]) ELSE kept[i - 1]
    IN  kept[Len(s)]

\* s from its k-th item (the first is 0) round to the one before it.
Rotated(s, k) == [i \in 1 .. Len(s) |-> s[((k + i - 1) % Len(s)) + 1]]

\* The index of the next plan, with the protection against overflow.
NextIndex == IF lbIndex + 1 >= MaxIndex THEN 0 ELSE lbIndex + 1

\* _resolveLocalHosts(), _getFilteredLocalHosts(): the list is made once and kept until
\* the hosts change.
Chosen(h) == IsLocal(h) /\ (lbPolicy.base = "Default" => h \in lbPolicy.filter)
LocalHosts == IF cached THEN localCache ELSE Only(known, {h \in Hosts : Chosen(h)})

\* TokenAwareIterator: the replicas that are near first, from a random one on, then the
\* plan of the child without them.
TokenAwarePlan(child, replicas, start, i) ==
    LET near == Only(replicas, {h \in Hosts : Near(h, i + 1)})
    IN  Rotated(near, start) \o Only(child, Hosts \ ToSet(near))

AllowListPlan(child) == Only(child, lbPolicy.allowList)

\* The plan of the base policy, with the wrappers around it from the innermost on.
WrappedPlan(base, replicas, start) ==
    LET n == Len(lbPolicy.wrappers)
        plan[k \in 0 .. n] ==
            IF k = 0 THEN base
            ELSE IF lbPolicy.wrappers[n - k + 1] = "AllowList" THEN AllowListPlan(plan[k - 1])
            ELSE IF replicas = << >> THEN plan[k - 1]
            ELSE TokenAwarePlan(plan[k - 1], replicas, start, n - k + 1)
    IN  plan[n]

-----------------------------------------------------------------------------
\* History: the hosts a plan that is being read should reach, and may reach.
Eligible == {h \in ToSet(known) : Near(h, 1) /\ (lbPolicy.base = "Default" => IsUp(h))}
NewPlan(todo, stage, skip, preferred, leading, trailing) ==
    [state |-> "open", stage |-> stage, todo |-> todo, skip |-> skip, preferred |-> preferred, yielded |-> << >>,
     steady |-> Eligible, seen |-> Eligible, leading |-> leading, trailing |-> trailing]

\* newQueryPlan() before init(): the callback has the error.
PlanRefused(p) ==
    /\ lbState = "created" /\ lbPolicy.base # "Default" /\ plans[p] = NotMade
    /\ plans' = [plans EXCEPT ![p] = [state |-> "error"]]
    /\ UNCHANGED <<cluster, lbPolicy, lbState, known, health, lbIndex, localCache, cached, changes>>

\* History: the hosts that token awareness puts first.
Leading(replicas) ==
    IF "TokenAware" \in ToSet(lbPolicy.wrappers) THEN {h \in ToSet(replicas) : Near(h, 1)} ELSE {}

\* newQueryPlan() of RoundRobinPolicy, which uses the index and then moves it.
RoundRobinNewPlan(p, replicas, start) ==
    /\ lbState = "ready" /\ lbPolicy.base = "RoundRobin" /\ plans[p] = NotMade
    /\ plans' = [plans EXCEPT ![p] =
           NewPlan(WrappedPlan(Rotated(known, lbIndex), replicas, start), "whole", {}, NoHost,
                   Leading(replicas), {})]
    /\ lbIndex' = NextIndex
    /\ UNCHANGED <<cluster, lbPolicy, lbState, known, health, localCache, cached, changes>>

\* newQueryPlan() of DCAwareRoundRobinPolicy, which moves the index first.
DCAwareNewPlan(p, replicas, start) ==
    /\ lbState = "ready" /\ lbPolicy.base = "DCAware" /\ plans[p] = NotMade
    /\ lbIndex' = NextIndex
    /\ localCache' = LocalHosts /\ cached' = TRUE
    /\ plans' = [plans EXCEPT ![p] =
           NewPlan(WrappedPlan(Rotated(LocalHosts, lbIndex'), replicas, start), "whole", {}, NoHost,
                   Leading(replicas), {})]
    /\ UNCHANGED <<cluster, lbPolicy, lbState, known, health, changes>>

-----------------------------------------------------------------------------
Swapped(s, i, j) == [k \in DOMAIN s |-> IF k = i THEN s[j] ELSE IF k = j THEN s[i] ELSE s[k]]

\* Faulty: the loop stops before the first replica.
SendUnhealthyToTheBack_NotTheFirst(s, unhealthy) ==
    LET n == Len(s)
        after[k \in 0 .. n] ==
            IF k = 0 THEN [seq |-> s, counter |-> 0]
            ELSE LET prev == after[k - 1]
                     i == n - k + 1
                 IN  IF i = 1 \/ prev.counter >= unhealthy \/ ~Unhealthy(prev.seq[i]) THEN prev
                     ELSE [seq |-> Swapped(prev.seq, n - prev.counter, i), counter |-> prev.counter + 1]
    IN  after[n].seq

\* _sendUnhealthyToTheBack(): from the back on, each unhealthy replica is swapped with the
\* last one that is not yet known to be unhealthy.
SendUnhealthyToTheBack(s, unhealthy) ==
    LET n == Len(s)
        after[k \in 0 .. n] ==
            IF k = 0 THEN [seq |-> s, counter |-> 0]
            ELSE LET prev == after[k - 1]
                     i == n - k + 1
                 IN  IF prev.counter >= unhealthy \/ ~Unhealthy(prev.seq[i]) THEN prev
                     ELSE [seq |-> Swapped(prev.seq, n - prev.counter, i), counter |-> prev.counter + 1]
    IN  after[n].seq

\* Power of two random choices.
LessBusyFirst(s) == IF InFlight(s[2]) < InFlight(s[1]) THEN Swapped(s, 1, 2) ELSE s

\* The order of the shuffled local replicas s; newest is the one that came up last, if any
\* did lately, and dice whether it is sent to the back.
OrderedReplicas(s, newest, dice) ==
    LET n == Len(s)
        unhealthy == Cardinality({i \in 1 .. n : Unhealthy(s[i])})
        moved == IF newest = NoHost
                 THEN IF unhealthy > 0 /\ unhealthy < (n \div 2) + 1 THEN SendUnhealthyToTheBack(s, unhealthy) ELSE s
                 ELSE IF dice /\ newest = s[1] THEN Swapped(s, 1, n)
                 ELSE IF dice /\ newest = s[2] THEN Swapped(s, 2, n)
                 ELSE s
    IN  IF n < 3 THEN s ELSE LessBusyFirst(moved)

\* The replicas that _getReplicasAndLocalHosts() keeps, and those that are newly up.
UsableReplicas(replicas) == {h \in ToSet(replicas) : h \in lbPolicy.filter /\ IsLocal(h) /\ IsUp(h)}
NewlyUp(hs) == {h \in hs : health[h] = "fresh"}

\* History: the unhealthy replicas that the code sends to the back. It leaves them where
\* the shuffle put them when there are fewer than three replicas, when the healthy ones are
\* no majority, and whenever one of the replicas is newly up: then it looks at that one only.
Trailing(usable) ==
    LET stuck == {h \in usable : Unhealthy(h)}
    IN  IF Cardinality(usable) >= 3 /\ NewlyUp(usable) = {} /\ 2 * Cardinality(stuck) < Cardinality(usable)
        THEN stuck ELSE {}

\* newQueryPlan() of DefaultLoadBalancingPolicy: the replicas are ordered now, the other
\* local hosts are only looked for once the replicas are used up.  The preferred host, if
\* there is one, comes first.
DefaultNewPlan(p, replicas, preferred) ==
    /\ lbState = "ready" /\ lbPolicy.base = "Default" /\ plans[p] = NotMade
    /\ LET usable == UsableReplicas(replicas)
       IN  \E s \in SetToSeqs(usable), dice \in BOOLEAN,
              newest \in IF NewlyUp(usable) = {} THEN {NoHost} ELSE NewlyUp(usable) :
              LET front == Only(OrderedReplicas(s, newest, dice), Hosts \ {preferred})
              IN  plans' = [plans EXCEPT ![p] =
                      NewPlan(IF preferred = NoHost THEN front ELSE <<preferred>> \o front, "front",
                              usable \union {preferred}, preferred, usable, Trailing(usable))]
    /\ UNCHANGED <<cluster, lbPolicy, lbState, known, health, lbIndex, localCache, cached, changes>>

-----------------------------------------------------------------------------
Yielded(p, h, todo, stage) ==
    [plans EXCEPT ![p] = [@ EXCEPT !.yielded = Append(plans[p].yielded, h), !.todo = todo, !.stage = stage]]
Ended(p) == [plans EXCEPT ![p] = [@ EXCEPT !.state = "done", !.todo = << >>]]

\* next() while the plan was settled when it was made.
NextPlanned(p) ==
    /\ plans[p].state = "open" /\ plans[p].stage \in {"whole", "front"}
    /\ plans[p].todo # << >>
    /\ plans' = Yielded(p, Head(plans[p].todo), Tail(plans[p].todo), plans[p].stage)
    /\ UNCHANGED <<cluster, lbPolicy, lbState, known, health, lbIndex, localCache, cached, changes>>

NextDone(p) ==
    /\ plans[p].state = "open" /\ plans[p].stage = "whole" /\ plans[p].todo = << >>
    /\ plans' = Ended(p)
    /\ UNCHANGED <<cluster, lbPolicy, lbState, known, health, lbIndex, localCache, cached, changes>>

\* The first of the hosts s that is up and was not yielded as a replica, or the end.
NextOf(p, s) ==
    LET fit == {i \in 1 .. Len(s) : s[i] \notin plans[p].skip /\ IsUp(s[i])}
    IN  IF fit = {} THEN Ended(p)
        ELSE LET i == CHOOSE i \in fit : \A j \in fit : i <= j
             IN  Yielded(p, s[i], SubSeq(s, i + 1, Len(s)), "local")

\* next() once the replicas are used up: _getLocalHosts() starts, with the index and the
\* list of this moment.
NextLocalFirst(p) ==
    /\ plans[p].state = "open" /\ plans[p].stage = "front" /\ plans[p].todo = << >>
    /\ localCache' = LocalHosts /\ cached' = TRUE
    /\ lbIndex' = NextIndex
    /\ plans' = NextOf(p, Rotated(LocalHosts, lbIndex))
    /\ UNCHANGED <<cluster, lbPolicy, lbState, known, health, changes>>

NextLocal(p) ==
    /\ plans[p].state = "open" /\ plans[p].stage = "local"
    /\ plans' = NextOf(p, plans[p].todo)
    /\ UNCHANGED <<cluster, lbPolicy, lbState, known, health, lbIndex, localCache, cached, changes>>

-----------------------------------------------------------------------------
\* History: what a change of the cluster means for the plans that are being read.
Observed ==
    plans' = [p \in Plans |->
        IF plans[p].state # "open" THEN plans[p]
        ELSE [plans[p] EXCEPT !.steady = @ \intersect Eligible', !.seen = @ \union Eligible']]

\* Faulty: a new host leaves the list of local hosts as it is.
AddHost_StaleCache(h) ==
    /\ changes < cluster.changes /\ h \notin ToSet(known)
    /\ \A p \in Plans : plans[p].state = "open" => h \notin plans[p].seen
    /\ known' = Append(known, h)
    /\ changes' = changes + 1
    /\ UNCHANGED <<cluster, lbPolicy, lbState, health, lbIndex, localCache, cached>>
    /\ Observed

\* HostMap emits "add" or "remove", the policy forgets its list.
AddHost(h) ==
    /\ changes < cluster.changes /\ h \notin ToSet(known)
    /\ \A p \in Plans : plans[p].state = "open" => h \notin plans[p].seen
    /\ known' = Append(known, h)
    /\ localCache' = << >> /\ cached' = FALSE
    /\ changes' = changes + 1
    /\ UNCHANGED <<cluster, lbPolicy, lbState, health, lbIndex>>
    /\ Observed

RemoveHost(h) ==
    /\ changes < cluster.changes /\ h \in ToSet(known)
    /\ known' = Only(known, Hosts \ {h})
    /\ localCache' = << >> /\ cached' = FALSE
    /\ changes' = changes + 1
    /\ UNCHANGED <<cluster, lbPolicy, lbState, health, lbIndex>>
    /\ Observed

HealthChanges(h, to) ==
    /\ changes < cluster.changes /\ h \in ToSet(known) /\ health[h] # to
    /\ health' = [health EXCEPT ![h] = to]
    /\ changes' = changes + 1
    /\ UNCHANGED <<cluster, lbPolicy, lbState, known, lbIndex, localCache, cached>>
    /\ Observed

-----------------------------------------------------------------------------
PlanMade(p) ==
    \/ PlanRefused(p)
    \/ \E replicas \in cluster.replicas :
           /\ ToSet(replicas) \subseteq ToSet(known)
           /\ \/ \E start \in 0 .. Len(replicas) :
                     /\ "TokenAware" \notin ToSet(lbPolicy.wrappers) => start = 0
                     /\ RoundRobinNewPlan(p, replicas, start) \/ DCAwareNewPlan(p, replicas, start)
              \/ \E preferred \in {NoHost} \union (cluster.preferred \intersect ToSet(known)) :
                     DefaultNewPlan(p, replicas, preferred)
PlanRead(p) == NextPlanned(p) \/ NextDone(p) \/ NextLocalFirst(p) \/ NextLocal(p)

LbNext ==
    \/ InitPolicy
    \/ \E p \in Plans :
           \/ (p > 1 => plans[p - 1] # NotMade) /\ PlanMade(p)
           \/ PlanRead(p)
    \/ \E h \in Hosts : AddHost(h) \/ RemoveHost(h) \/ \E to \in {"idle", "down"} : HealthChanges(h, to)

LbSpec == LbInit /\ [][LbNext]_lbVars

-----------------------------------------------------------------------------
Read(p) == ToSet(plans[p].yielded)
Started(p) == plans[p].state \in {"open", "done"}

\* A query plan yields no host twice and none but the preferred one that was not allowed,
\* local and, for the default policy, up; one that is read to its end has yielded every host
\* that was all of that from its start on.  The cached list of local hosts, the shared index
\* and the hosts that come and go meanwhile make no difference.
PlansComplete ==
    \A p \in Plans : Started(p) =>
        /\ Cardinality(Read(p)) = Len(plans[p].yielded)
        /\ Read(p) \subseteq plans[p].seen \union {plans[p].preferred}
        /\ plans[p].state = "done" => plans[p].steady \subseteq Read(p)

\* The replicas of the data come before all other hosts, and of three replicas or more,
\* none of them newly up, those that do not answer come behind the others when these are a
\* majority. The comment of the class promises this reordering of every plan; with a
\* replica that is newly up the code does not do it, and a replica that does not answer may
\* come first: such plans are excepted (see Trailing).
ReplicasLead ==
    \A p \in Plans : Started(p) =>
        \A i, j \in 1 .. Len(plans[p].yielded) :
            LET a == plans[p].yielded[i]
                b == plans[p].yielded[j]
            IN  i < j /\ a # plans[p].preferred =>
                    /\ b \in plans[p].leading => a \in plans[p].leading
                    /\ b \in plans[p].leading \ plans[p].trailing => a \notin plans[p].trailing
=============================================================================
