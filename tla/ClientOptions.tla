---------------------------- MODULE ClientOptions ----------------------------
(***************************************************************************)
(* From the options of the user to the options of a request:               *)
(* lib/client-options.js merges them with the defaults and validates them, *)
(* lib/execution-profile.js completes the profiles, lib/execution-         *)
(* options.js looks an option up in the query options, the profile and the *)
(* client, and lib/query-options.js hands the result to the Rust driver,   *)
(* once for all the requests that share it.                                *)
(***************************************************************************)
EXTENDS Integers, Sequences

CONSTANTS
    Undefined,       \* undefined, of JavaScript
    UserOptions,     \* functions from some of the settings to what a user gives them
    ProfileLists,    \* sequences of execution profiles
    QueryOptionSets, \* functions from some of the request options to their values
    Requests

\* A setting is of the right kind, of a wrong one, null or undefined.  An option of a request
\* is undefined, null or a value that tells where it was set; the falsy ones (0, false) end
\* in 0.  "long0" is the zero that is a Long, an object and hence not falsy.
Falsy == {Undefined, "null", "query0", "profile0", "client0"}

VARIABLES
    userOptions,     \* the argument of the constructor
    settings,        \* client.options
    clientState,     \* "none", "refused" or "made"
    credentials,     \* the credentials handed to the Rust driver: "none", "user" or "provider"
    profiles,        \* _profiles, as completed by the ProfileManager
    defaultProfile,  \* _defaultProfile: its place in profiles
    requests         \* the ExecutionOptions of each request

optionVars == <<userOptions, settings, clientState, credentials, profiles, defaultProfile, requests>>

-----------------------------------------------------------------------------
\* defaultOptions(), and the id that the client makes: what the settings are when the user says nothing.
DefaultSettings ==
    [setting \in {"contactPoints", "queryOptions", "metrics", "loadBalancing", "reconnection", "retry",
                  "addressResolution", "timestampGeneration", "protocolOptions", "socketOptions", "readTimeout",
                  "coalescingThreshold", "encoding", "monitorReporting", "requestTracker", "authProvider", "cloud",
                  "credentials", "profiles", "maxVersion", "encodingMap", "encodingSet", "application", "id"} |->
        CASE setting \in {"requestTracker", "authProvider"} -> "null"
          [] setting \in {"contactPoints", "cloud", "credentials", "profiles", "maxVersion", "encodingMap",
                          "encodingSet", "application"} -> Undefined
          [] OTHER -> "good"]

\* The settings that are plain objects: whatever the user gives is merged into the defaults,
\* so that null, undefined or a number leave them as they are.
PlainObjects == {"queryOptions", "protocolOptions", "socketOptions", "encoding", "monitorReporting"}

\* deepExtend(): an own property of the user's object replaces the default, undefined included.
DeepExtend(user) ==
    [setting \in DOMAIN DefaultSettings |->
        IF setting \in DOMAIN user /\ setting \notin PlainObjects THEN user[setting] ELSE DefaultSettings[setting]]

ValidPolicies(s) ==
    /\ \A p \in {"loadBalancing", "reconnection", "retry", "addressResolution"} : s[p] = "good"
    /\ s["timestampGeneration"] \in {"null", "good"}

ValidProtocol(s) == s["protocolOptions"] = "good" /\ (s["maxVersion"] \notin Falsy => s["maxVersion"] = "good")
ValidSocket(s) == \A o \in {"socketOptions", "readTimeout", "coalescingThreshold"} : s[o] = "good"
ValidAuthentication(s) ==
    IF s["authProvider"] \in Falsy THEN s["credentials"] \in Falsy \union {"good"}
    ELSE s["authProvider"] \in {"good", "other"}
ValidEncoding(s) == \A o \in {"encodingMap", "encodingSet"} : s[o] \in Falsy \union {"good"}
ValidApplication(s) == \A o \in {"application", "id"} : s[o] \in {Undefined, "null", "good"}
ValidReporting(s) == s["monitorReporting"] = "good"

\* extend(): the checks the merged options have to pass.
Accepted(s) ==
    /\ s["cloud"] \in Falsy
    /\ s["contactPoints"] = "good"
    /\ s["queryOptions"] = "good"
    /\ s["requestTracker"] \in {"null", "good"}
    /\ s["metrics"] = "good"
    /\ ValidPolicies(s) /\ ValidProtocol(s) /\ ValidSocket(s) /\ ValidAuthentication(s) /\ ValidEncoding(s)
    /\ s["profiles"] \in Falsy \union {"good"}
    /\ ValidApplication(s) /\ ValidReporting(s)

\* setRustOptions(): credentials come before a provider, and of the providers only the plain
\* text one ("good") and the one the validation adds are supported.
Unsupported(s) == s["credentials"] \in Falsy /\ s["authProvider"] = "other"
RustCredentials(s) ==
    IF s["credentials"] \notin Falsy THEN "user" ELSE IF s["authProvider"] = "good" THEN "provider" ELSE "none"

-----------------------------------------------------------------------------
\* A profile: its name and the options it sets, each of them undefined unless it was given.
OptionValues == {Undefined, "null", "profile0", "profile1"}
Profiles ==
    [name : {"default", "olap"}, loadBalancing : OptionValues, retry : OptionValues, consistency : OptionValues,
     readTimeout : OptionValues, serialConsistency : OptionValues]

ASSUME OptionAssumption ==
    /\ Undefined \notin {"null", "client0", "client1", "profile1", "good"}
    /\ ProfileLists \subseteq Seq(Profiles)

NewProfile(name) ==
    [name |-> name, loadBalancing |-> Undefined, retry |-> Undefined, consistency |-> Undefined,
     readTimeout |-> Undefined, serialConsistency |-> Undefined]

\* _setDefault(): the first profile of that name, or one more.
WithDefault(list) ==
    IF \E i \in 1 .. Len(list) : list[i].name = "default" THEN list ELSE Append(list, NewProfile("default"))
FirstDefault(list) == CHOOSE i \in 1 .. Len(list) :
    list[i].name = "default" /\ \A j \in 1 .. i - 1 : list[j].name # "default"

OrElse(value, fallback) == IF value \in Falsy THEN fallback ELSE value

\* Faulty: only the default profile is completed.
Completed_DefaultOnly(list) ==
    LET d == FirstDefault(list)
    IN  [list EXCEPT ![d].loadBalancing = OrElse(@, "client1"), ![d].retry = OrElse(@, "client1")]

\* ProfileManager(): the default profile takes the policies of the client, the others its
\* load balancing policy.
Completed(list) ==
    LET d == FirstDefault(list)
        lbp == OrElse(list[d].loadBalancing, "client1")
    IN  [i \in 1 .. Len(list) |->
            [list[i] EXCEPT !.loadBalancing = OrElse(@, lbp),
                            !.retry = IF i = d THEN OrElse(@, "client1") ELSE @]]

\* getProfile(): the last one of the name; 0 when there is none.
GetProfile(name) ==
    LET named == {i \in 1 .. Len(profiles) : profiles[i].name = name}
    IN  IF named = {} THEN 0 ELSE CHOOSE i \in named : \A j \in named : j <= i

OptionInit ==
    /\ userOptions \in UserOptions
    /\ settings = DefaultSettings
    /\ clientState = "none"
    /\ credentials = "none"
    /\ profiles \in ProfileLists
    /\ defaultProfile = 0
    /\ requests = [r \in Requests |-> << >>]

\* new Client(): extend(), setRustOptions() and the ProfileManager.
NewClient ==
    /\ clientState = "none"
    /\ LET s == DeepExtend(userOptions)
       IN  /\ settings' = s
           /\ IF Accepted(s) /\ ~Unsupported(s)
              THEN /\ clientState' = "made"
                   /\ credentials' = RustCredentials(s)
                   /\ profiles' = Completed(WithDefault(profiles))
                   /\ defaultProfile' = FirstDefault(WithDefault(profiles))
              ELSE /\ clientState' = "refused"
                   /\ UNCHANGED <<credentials, profiles, defaultProfile>>
    /\ UNCHANGED <<userOptions, requests>>

-----------------------------------------------------------------------------
\* ifUndefined(), and in turn ifUndefined3().
IfUndefined(value, fallback) == IF value # Undefined THEN value ELSE fallback

InQuery(query, option) == IF option \in DOMAIN query THEN query[option] ELSE Undefined

\* The options that a profile may set, those that only the client may set, those of the query
\* alone; read timeout and retry policy come from other settings of the client than the rest.
ProfileOptions == {"consistency", "readTimeout", "retry", "serialConsistency"}
ClientDefaults == {"captureStackTrace", "fetchSize", "autoPage", "isIdempotent"}
QueryOnly == {"routingIndexes", "routingNames", "timestamp"}
InClient(option) ==
    IF option \in {"readTimeout", "retry"} THEN "client1"
    ELSE IF option \in DOMAIN userOptions THEN userOptions[option]
    ELSE IF option = "captureStackTrace" THEN "client0"
    ELSE IF option = "fetchSize" THEN "client1" ELSE Undefined

\* The getters of DefaultExecutionOptions.
GetOption(query, profile, option) ==
    IF option \in ProfileOptions
    THEN IfUndefined(InQuery(query, option), IfUndefined(profile[option], InClient(option)))
    ELSE IF option \in ClientDefaults THEN IfUndefined(InQuery(query, option), InClient(option))
    ELSE InQuery(query, option)

\* A timestamp becomes a BigInt, unless it is falsy: the Number 0 and null stay what they are.
IntoBigInt(timestamp) == [value |-> timestamp, isBigInt |-> timestamp \notin Falsy]

\* queryOptionsIntoWrapper(): the options read through the getters, and the ones read as
\* fields that an ExecutionOptions does not have.
Sent == (ProfileOptions \ {"retry"}) \union ClientDefaults \union QueryOnly
NotSent == {"counter", "keyspace", "logged", "prepare", "traceQuery"}
QueryOptionsIntoWrapper(query, profile) ==
    [option \in Sent \union NotSent |->
        IF option = "timestamp" THEN IntoBigInt(GetOption(query, profile, option))
        ELSE IF option \in Sent THEN GetOption(query, profile, option) ELSE Undefined]

\* QueryOptionsObj: each field is undefined or of its type, which null is of none; the type
\* of the timestamp is BigInt.
BridgeRefuses(wrapper) ==
    \/ \E option \in Sent \ {"timestamp"} : wrapper[option] = "null"
    \/ ~wrapper["timestamp"].isBigInt /\ wrapper["timestamp"].value # Undefined

\* createOptions() and the constructor of DefaultExecutionOptions; the wrapper is made once.
CreateOptions(r, query, name) ==
    /\ clientState = "made" /\ requests[r] = << >>
    /\ LET i == GetProfile(name)
       IN  requests' = [requests EXCEPT ![r] =
               IF i = 0 THEN <<[state |-> "unknown profile"]>>
               ELSE LET wrapper == QueryOptionsIntoWrapper(query, profiles[i])
                    IN  <<[state |-> IF BridgeRefuses(wrapper) THEN "refused" ELSE "made",
                           query |-> query, profile |-> profiles[i],
                           loadBalancing |-> profiles[i].loadBalancing,
                           retry |-> GetOption(query, profiles[i], "retry"), wrapper |-> wrapper]>>]
    /\ UNCHANGED <<userOptions, settings, clientState, credentials, profiles, defaultProfile>>

OptionNext ==
    \/ NewClient
    \/ \E r \in Requests, query \in QueryOptionSets, name \in {"default", "olap", "other"} : CreateOptions(r, query, name)

OptionSpec == OptionInit /\ [][OptionNext]_optionVars

-----------------------------------------------------------------------------
\* The levels an option may be set at, the most specific one first.
Levels(request, option) ==
    <<InQuery(request.query, option),
      IF option \in ProfileOptions THEN request.profile[option] ELSE Undefined,
      IF option \in ProfileOptions \union ClientDefaults THEN InClient(option) ELSE Undefined>>

\* The most specific of the levels that is set.
MostSpecific(levels) ==
    LET set == {i \in 1 .. 3 : levels[i] # Undefined}
    IN  IF set = {} THEN Undefined ELSE levels[CHOOSE i \in set : \A j \in set : i <= j]

\* An option that neither the query nor the profile sets: the comment of ExecutionProfile
\* says that the default profile is asked next, the code asks the client at once.
Disputed(request, option) ==
    /\ option \in ProfileOptions
    /\ InQuery(request.query, option) = Undefined /\ request.profile[option] = Undefined
    /\ profiles[defaultProfile][option] \notin {Undefined, InClient(option)}

\* The options of a request that is handed to the Rust driver serve it: its load balancing
\* policy is one, its retry policy is one unless the query or the profile sets it to null,
\* and each option is the most specific one that was set, 0 and false included, the
\* timestamp as a BigInt.  What the default profile sets and the profile of the request does
\* not is excepted (Disputed).
Serves(request) ==
    /\ request.loadBalancing \notin Falsy
    /\ \/ request.retry \notin {Undefined, "null"}
       \/ "null" \in {InQuery(request.query, "retry"), request.profile["retry"]}
    /\ \A option \in Sent \ {"timestamp"} :
           Disputed(request, option) \/ request.wrapper[option] = MostSpecific(Levels(request, option))
    /\ LET timestamp == InQuery(request.query, "timestamp")
       IN  request.wrapper["timestamp"] = [value |-> timestamp, isBigInt |-> timestamp # Undefined]

\* Why the bridge may refuse the options of a request: an option that is null somewhere, or a
\* timestamp that is the Number 0, which queryOptionsIntoWrapper() does not make a BigInt.
MayBeRefused(request) ==
    \/ \E option \in Sent : "null" \in {Levels(request, option)[i] : i \in 1 .. 3}
    \/ InQuery(request.query, "timestamp") \in Falsy \ {Undefined}

\* A client that was accepted has its policies, also when options were given as undefined or
\* null, and serves its requests, but for the options that the bridge refuses, and only those
\* that have a null or a timestamp 0.
OptionsServe ==
    \A r \in Requests : requests[r] # << >> =>
        LET request == requests[r][1]
        IN  /\ \A policy \in {"loadBalancing", "retry"} : settings[policy] = "good"
            /\ request.state = "made" => Serves(request)
            /\ request.state = "refused" => MayBeRefused(request)
=============================================================================
