----------------------------- MODULE MCPolicies -----------------------------
(***************************************************************************)
(* The options of a client and the policies they configure: timestamps,    *)
(* load balancing, address resolution, retries and speculative executions, *)
(* reconnection.  A policy keeps its own state and calls no other one, so  *)
(* every behaviour is of one of them.                                      *)
(***************************************************************************)
EXTENDS TimestampGenerator, LoadBalancing, AddressResolution, RequestPolicies, ClientOptions, TLC

VARIABLE policy    \* which one a behaviour is of

policyVars == <<vars, lbVars, addressVars, requestVars, reconnectionVars, optionVars, policy>>

\* The policies a behaviour is not of stay where one of their behaviours starts.
IdleBalancing == LbInit /\ cluster = CHOOSE c \in Clusters : TRUE
IdleRequest == RequestInit /\ retryPolicy = "default"
IdleReconnection == ReconnectionInit /\ startWithNoDelay
IdleOptions ==
    OptionInit /\ userOptions = (CHOOSE o \in UserOptions : TRUE) /\ profiles = (CHOOSE l \in ProfileLists : TRUE)

PoliciesInit ==
    /\ Init /\ AddressInit
    /\ \/ policy \in {"timestamps", "addresses"} /\ IdleBalancing /\ IdleRequest /\ IdleReconnection /\ IdleOptions
       \/ policy = "balancing" /\ LbInit /\ IdleRequest /\ IdleReconnection /\ IdleOptions
       \/ policy = "request" /\ IdleBalancing /\ RequestInit /\ IdleReconnection /\ IdleOptions
       \/ policy = "reconnection" /\ IdleBalancing /\ IdleRequest /\ ReconnectionInit /\ IdleOptions
       \/ policy = "options" /\ IdleBalancing /\ IdleRequest /\ IdleReconnection /\ OptionInit

PoliciesNext ==
    /\ UNCHANGED policy
    /\ \/ /\ policy = "timestamps" /\ Next
          /\ UNCHANGED <<lbVars, addressVars, requestVars, reconnectionVars, optionVars>>
       \/ /\ policy = "balancing" /\ LbNext
          /\ UNCHANGED <<vars, addressVars, requestVars, reconnectionVars, optionVars>>
       \/ /\ policy = "addresses" /\ AddressNext
          /\ UNCHANGED <<vars, lbVars, requestVars, reconnectionVars, optionVars>>
       \/ /\ policy = "request" /\ RequestNext
          /\ UNCHANGED <<vars, lbVars, addressVars, reconnectionVars, optionVars>>
       \/ /\ policy = "reconnection" /\ ReconnectionNext
          /\ UNCHANGED <<vars, lbVars, addressVars, requestVars, optionVars>>
       \/ /\ policy = "options" /\ OptionNext
          /\ UNCHANGED <<vars, lbVars, addressVars, requestVars, reconnectionVars>>

\* DNS answers in the end.
DnsStep == policy = "addresses" /\ DnsAnswers /\ UNCHANGED <<vars, lbVars, requestVars, reconnectionVars, optionVars, policy>>

PoliciesSpec == PoliciesInit /\ [][PoliciesNext]_policyVars /\ WF_policyVars(DnsStep)

-----------------------------------------------------------------------------
(* Timestamps: a clock of a few milliseconds, three microseconds to the    *)
(* millisecond, a Number range that ends inside the clock's range.         *)
(* Balancing: six hosts in two datacenters, two plans, two changes of the  *)
(* cluster, an index that wraps.  Options: one or two settings that are    *)
(* not the usual ones.                                                     *)

MCClock == 0 .. 5

SixHosts == {"a", "b", "c", "d", "r", "x"}
MCHostDc == [h \in SixHosts |-> IF h = "r" THEN "dc2" ELSE "dc1"]
Policy(base, wrappers, dc, allowed) ==
    [base |-> base, wrappers |-> wrappers, localDc |-> dc, optionDc |-> "dc1", allowList |-> allowed, filter |-> allowed]
Condition(stuck, busy, fresh, down) ==
    [h \in SixHosts |-> CASE h \in stuck -> "stuck" [] h \in busy -> "busy" [] h \in fresh -> "fresh"
                          [] h \in down -> "down" [] OTHER -> "idle"]
Cluster(configured, hosts, condition, replicas, preferred, bound) ==
    [changes |-> bound, policy |-> configured, hosts |-> hosts, health |-> condition, replicas |-> replicas, preferred |-> preferred]
Fine == Condition({}, {}, {}, {})
Three == <<"a", "r", "b", "c">>
Four == <<"a", "b", "c", "d">>
MCClusters ==
    {Cluster(Policy("RoundRobin", << >>, "", {}), Three, Fine, {<< >>}, {}, 2),
     Cluster(Policy("RoundRobin", <<"TokenAware">>, "", {}), Three, Fine, {<<"r", "b">>}, {}, 2),
     Cluster(Policy("DCAware", << >>, "dc1", {}), << >>, Fine, {<< >>}, {}, 2),
     Cluster(Policy("DCAware", << >>, "dc3", {}), Three, Fine, {<< >>}, {}, 1),
     Cluster(Policy("DCAware", <<"TokenAware", "AllowList">>, "", SixHosts \ {"a"}), Three, Fine,
             {<< >>, <<"c", "a", "r">>}, {}, 1),
     Cluster(Policy("DCAware", <<"AllowList", "TokenAware">>, "dc1", SixHosts \ {"a"}), Three, Fine,
             {<<"c", "a", "b">>}, {}, 1),
     Cluster(Policy("Default", << >>, "", SixHosts), Three, Condition({}, {"b"}, {}, {"c"}),
             {<< >>, <<"b", "r", "a">>}, {"r"}, 1),
     Cluster(Policy("Default", << >>, "dc1", SixHosts \ {"a"}), Three, Fine, {<<"a", "b">>}, {"b"}, 2),
     Cluster(Policy("Default", << >>, "", SixHosts), Four, Condition({"a"}, {"b"}, {}, {}), {Four}, {}, 1),
     Cluster(Policy("Default", << >>, "", SixHosts), Three, Condition({"a"}, {}, {"b", "c"}, {}), {<<"a", "b", "c">>}, {}, 1)}

MCAnswers == {<<"ip1">>, <<"ip2", "ip3">>}

\* Usable options, with one of the settings or one of the request options of the client changed.
Usable == "contactPoints" :> "good"
MCUserOptions ==
    {Usable, << >>} \union
    {setting :> value @@ Usable : setting \in DOMAIN DefaultSettings, value \in {Undefined, "null", "good", "bad"}} \union
    {"authProvider" :> "other" @@ Usable, "authProvider" :> "other" @@ "credentials" :> "good" @@ Usable,
     "authProvider" :> "good" @@ "credentials" :> "good" @@ Usable} \union
    {option :> value @@ Usable :
        option \in {"consistency", "fetchSize", "isIdempotent", "captureStackTrace"}, value \in {Undefined, "null", "client0", "client1"}}
Profile(name, lbp, value) ==
    [NewProfile(name) EXCEPT !.loadBalancing = lbp, !.retry = lbp, !.consistency = value, !.readTimeout = value]
MCProfileLists ==
    {<< >>, <<Profile("olap", Undefined, "profile0")>>, <<Profile("olap", "null", Undefined)>>,
     <<Profile("default", "profile1", "profile1"), Profile("olap", Undefined, Undefined)>>,
     <<Profile("olap", "profile1", "profile0"), Profile("default", Undefined, "profile1"),
       Profile("default", Undefined, "profile0")>>}
MCQueryOptionSets ==
    {<< >>, "consistency" :> "query0" @@ "fetchSize" :> "query1",
     "readTimeout" :> "query0" @@ "isIdempotent" :> "query0" @@ "traceQuery" :> "query1",
     "retry" :> "null", "autoPage" :> "null"} \union
    {"timestamp" :> value : value \in {"null", "query0", "query1", "long0"}}
=============================================================================
