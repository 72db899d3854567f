--------------------------- MODULE MetadataProofs ---------------------------
(***************************************************************************)
(* For every number of callers, refreshes and versions of the schema: the  *)
(* calls for an object share one load of it, and what they are answered    *)
(* was read no earlier than the beginning of a refresh that completed      *)
(* before the call.  And for every number of queries and every maximum: the *)
(* cache of prepared statements agrees with itself and keeps to its        *)
(* maximum.  And the invariants of the event debouncer, for any number of  *)
(* events and keyspaces; and for any hosts and tokens, that the ranges of  *)
(* the ring share out the tokens.                                          *)
(***************************************************************************)
EXTENDS EventDebouncer, SchemaCache, PreparedQueries, TokenRing, FiniteSetTheorems, SequenceTheorems, TLAPS

Kinds == {"table", "view", "udt", "functions"}
Places == Loading \union {"idle", "waiting", "done"}
Answers == [is : {"nothing", "found", "none", "error", "no keyspace"}, version : Nat]
Calls == [at : Places, of : Nat, read : Nat, rows : Nat, virtual : {"no", "yes", "unknown"},
          since : Nat, answer : Answers]
Entries == [loading : BOOLEAN, loaded : Nat]

\* No refresh began after now.
RefreshesBegun ==
    /\ DOMAIN refresh = Refreshes
    /\ \A r \in Refreshes :
          /\ DOMAIN refresh[r] = {"at", "scope", "pending", "found", "from"}
          /\ refresh[r].from \in Nat /\ refresh[r].from <= Version

\* The variables hold values of their kinds; a refresh is only looked at for where it began.
SchemaTyped ==
    /\ objectKind \in Kinds /\ syncEnabled \in BOOLEAN /\ isVirtual \in BOOLEAN
    /\ history \in Seq({"object", "empty", "none"}) /\ Version >= 1
    /\ entries \in Seq(Entries)
    /\ keyspace \in Nat /\ keyspace <= Len(entries)
    /\ call \in [Callers -> Calls]
    /\ RefreshesBegun
    /\ refreshedFrom \in Nat /\ refreshedFrom <= Version

\* An entry that is being loaded has one loader, another has none; who waits, waits for such
\* an entry. Calls only know objects that exist, and without a cache none.
LoadersInStep ==
    /\ \A k \in DOMAIN entries :
          IF entries[k].loading THEN \E c \in Callers : LoadersOf(k) = {c} ELSE LoadersOf(k) = {}
    /\ \A c \in Callers : call[c].of <= Len(entries)
    /\ \A c \in Callers :
          call[c].at = "waiting" => call[c].of # 0 /\ entries[call[c].of].loading

\* The versions that a load has read, in the order in which it read them.
ReadsInStep ==
    \A c \in Callers :
        /\ call[c].since <= Version /\ call[c].rows <= Version
        /\ call[c].read # Unread => call[c].rows # Unread /\ call[c].rows <= call[c].read
        /\ call[c].at = "parse" => call[c].rows # Unread
        /\ call[c].at # "done" => call[c].answer.is = "nothing"

\* What is loaded, or going to be, is no older than the last refresh of the object it is
\* loaded into, and no older than the calls that it is going to answer.
LoadsFresh ==
    /\ keyspace # 0 /\ entries[keyspace].loaded # Unread => entries[keyspace].loaded >= refreshedFrom
    /\ \A c \in Callers :
          call[c].at \in Loading /\ call[c].rows # Unread =>
              /\ call[c].rows >= call[c].since
              /\ keyspace # 0 /\ call[c].of = keyspace => call[c].rows >= refreshedFrom
              /\ \A d \in Callers :
                    call[d].at = "waiting" /\ call[d].of = call[c].of => call[c].rows >= call[d].since

SchemaInv == SchemaTyped /\ LoadersInStep /\ ReadsInStep /\ LoadsFresh /\ FreshAfterRefresh

-----------------------------------------------------------------------------
\* An entry is replaced in its place.
LEMMA ReplacedEntry ==
    ASSUME NEW e \in Seq(Entries), NEW k \in DOMAIN e, NEW v \in Entries, NEW f, f = [e EXCEPT ![k] = v]
    PROVE  /\ f \in Seq(Entries) /\ Len(f) = Len(e) /\ DOMAIN f = DOMAIN e
           /\ f[k] = v /\ \A j \in DOMAIN e : j # k => f[j] = e[j]
  OBVIOUS

\* A client that has just been made satisfies the invariant.
LEMMA SchemaStarts ==
    ASSUME SchemaInit
    PROVE  SchemaInv
<1>1. Version = 1
  BY DEF SchemaInit, Version
<1>2. NewCall \in Calls /\ NewEntry \in Entries
  BY DEF NewCall, NewEntry, Calls, Entries, Places, Loading, Querying, Answers, NoAnswer, Unread
<1>3. SchemaTyped
  BY <1>1, <1>2, SchemaAssumption DEF SchemaInit, SchemaTyped, RefreshesBegun, Kinds, NewRefresh, Unread
<1>4. \A c \in Callers : call[c] = NewCall
  BY DEF SchemaInit
<1>5. \A k : LoadersOf(k) = {}
  BY <1>4 DEF LoadersOf, NewCall, Loading, Querying
<1>6. entries = <<NewEntry>> /\ Len(entries) = 1 /\ entries[1] = NewEntry /\ DOMAIN entries = {1}
  BY DEF SchemaInit
<1>7. LoadersInStep
  BY <1>4, <1>5, <1>6 DEF LoadersInStep, NewCall, NewEntry
<1>8. ReadsInStep /\ FreshAfterRefresh
  BY <1>1, <1>4 DEF ReadsInStep, FreshAfterRefresh, NewCall, NoAnswer, Unread
<1>9. LoadsFresh
  BY <1>4, <1>6 DEF SchemaInit, LoadsFresh, NewCall, NewEntry, Unread, Loading, Querying
<1> QED
  BY <1>3, <1>7, <1>8, <1>9 DEF SchemaInv

\* A change of the schema only makes the version greater.
LEMMA AlterKeeps ==
    ASSUME SchemaInv, AlterSchema
    PROVE  SchemaInv'
<1>1. PICK s \in {"object", "empty", "none"} : history' = Append(history, s)
  BY DEF AlterSchema
<1>2. history' \in Seq({"object", "empty", "none"}) /\ Version' = Version + 1 /\ Version \in Nat
  BY <1>1 DEF SchemaInv, SchemaTyped, Version
<1>3. UNCHANGED <<objectKind, syncEnabled, isVirtual, keyspace, entries, call, refresh, refreshedFrom>>
  BY DEF AlterSchema
<1>4. SchemaTyped'
  BY <1>2, <1>3 DEF SchemaInv, SchemaTyped, RefreshesBegun
<1>5. LoadersInStep' /\ LoadsFresh' /\ FreshAfterRefresh'
  BY <1>3 DEF SchemaInv, LoadersInStep, LoadersOf, LoadsFresh, FreshAfterRefresh
<1>6. \A c \in Callers : call[c].since \in Nat /\ call[c].rows \in Nat
  BY DEF SchemaInv, SchemaTyped, Calls
<1>7. ReadsInStep'
  BY <1>2, <1>3, <1>6 DEF SchemaInv, ReadsInStep
<1> QED
  BY <1>4, <1>5, <1>7 DEF SchemaInv

\* A call for an object of a keyspace that is not there is answered without a version.
LEMMA MissingKeeps ==
    ASSUME SchemaInv, NEW c \in Callers, AnswerMissing(c)
    PROVE  SchemaInv'
<1>1. /\ call[c].at = "idle" /\ call[c] \in Calls
      /\ call' = [call EXCEPT ![c] = [call[c] EXCEPT !.at = "done",
                                !.answer = [is |-> "no keyspace", version |-> Unread]]]
  BY DEF AnswerMissing, SchemaInv, SchemaTyped
<1>2. UNCHANGED <<objectKind, syncEnabled, isVirtual, history, keyspace, entries, refresh, refreshedFrom, Version>>
  BY DEF AnswerMissing, Version
<1>3. SchemaTyped'
  BY <1>1, <1>2 DEF SchemaInv, SchemaTyped, RefreshesBegun, Calls, Places, Answers, Unread
<1>4. \A d \in Callers : /\ call'[d].of = call[d].of /\ call'[d].rows = call[d].rows
                         /\ call'[d].read = call[d].read /\ call'[d].since = call[d].since
                         /\ d # c => call'[d] = call[d]
  BY <1>1 DEF SchemaInv, SchemaTyped, Calls
<1>5. call'[c].at = "done" /\ call'[c].answer.is = "no keyspace"
  BY <1>1 DEF SchemaInv, SchemaTyped, Calls
<1>6. \A k : LoadersOf(k)' = LoadersOf(k)
  BY <1>1, <1>4, <1>5 DEF LoadersOf, Loading, Querying
<1>7. LoadersInStep'
  BY <1>2, <1>4, <1>5, <1>6 DEF SchemaInv, LoadersInStep
<1>8. ReadsInStep' /\ FreshAfterRefresh'
  BY <1>2, <1>4, <1>5 DEF SchemaInv, ReadsInStep, FreshAfterRefresh
<1>9. LoadsFresh'
  BY <1>2, <1>4, <1>5 DEF SchemaInv, LoadsFresh, Loading, Querying
<1> QED
  BY <1>3, <1>7, <1>8, <1>9 DEF SchemaInv

\* A call begins: it is answered at once, waits for the loader of its object or becomes it.
LEMMA GetKeeps ==
    ASSUME SchemaInv, NEW c \in Callers, Get(c)
    PROVE  SchemaInv'
<1> DEFINE of == IF syncEnabled THEN keyspace ELSE 0
           started == [NewCall EXCEPT !.of = of, !.virtual = VirtualOf,
                                      !.since = IF syncEnabled THEN refreshedFrom ELSE Version]
<1>1. /\ call[c].at = "idle" /\ (syncEnabled => keyspace # 0)
      /\ UNCHANGED <<objectKind, syncEnabled, isVirtual, history, keyspace, refresh, refreshedFrom, Version>>
  BY DEF Get, Version
<1>2. /\ Version \in Nat /\ refreshedFrom \in Nat /\ refreshedFrom <= Version
      /\ keyspace \in Nat /\ keyspace <= Len(entries) /\ Len(entries) \in Nat
      /\ DOMAIN entries = 1 .. Len(entries)
      /\ \A k \in DOMAIN entries : entries[k] \in Entries
  BY DEF SchemaInv, SchemaTyped, Version
<1>3. /\ of \in Nat /\ of <= Len(entries) /\ (of # 0 => of \in DOMAIN entries /\ of = keyspace /\ syncEnabled)
  BY <1>2
<1>4. /\ started \in Calls /\ started.of = of /\ started.at = "idle"
      /\ started.rows = Unread /\ started.read = Unread /\ started.answer = NoAnswer
      /\ started.since <= Version
      /\ of # 0 => started.since = refreshedFrom
  <2> DEFINE since == IF syncEnabled THEN refreshedFrom ELSE Version
  <2>1. VirtualOf \in {"no", "yes", "unknown"}
    BY DEF VirtualOf
  <2>2. since \in Nat /\ since <= Version /\ (of # 0 => since = refreshedFrom)
    BY <1>2, <1>3
  <2>3. started = [NewCall EXCEPT !.of = of, !.virtual = VirtualOf, !.since = since]
    OBVIOUS
  <2> HIDE DEF started, since, of
  <2> QED
    BY <1>3, <2>1, <2>2, <2>3 DEF NewCall, Calls, Places, NoAnswer, Answers, Unread
<1> HIDE DEF started, of
<1>5. CASE of # 0 /\ entries[of].loaded # Unread
  <2> DEFINE answered == Ended(started, [is |-> "found", version |-> entries[of].loaded])
  <2>1. call' = [call EXCEPT ![c] = answered] /\ UNCHANGED entries
    BY <1>5 DEF Get, started, of
  <2>2. /\ answered \in Calls /\ answered.at = "done" /\ answered.of = 0 /\ answered.rows = Unread
        /\ answered.read = Unread /\ answered.since = started.since
        /\ answered.answer.is = "found" /\ answered.answer.version = entries[of].loaded
    BY <1>2, <1>3, <1>4, <1>5 DEF Ended, NewCall, Calls, Places, Answers, Unread, Entries, NoAnswer
  <2> HIDE DEF answered
  <2>3. call'[c] = answered /\ \A d \in Callers : d # c => call'[d] = call[d]
    BY <2>1 DEF SchemaInv, SchemaTyped, RefreshesBegun
  <2>4. SchemaTyped'
    BY <1>1, <2>1, <2>2 DEF SchemaInv, SchemaTyped, RefreshesBegun
  <2>5. \A k : LoadersOf(k)' = LoadersOf(k)
    BY <1>1, <2>2, <2>3 DEF LoadersOf, Loading, Querying
  <2>6. LoadersInStep'
    BY <1>2, <2>1, <2>2, <2>3, <2>5 DEF SchemaInv, LoadersInStep
  <2>7. ReadsInStep'
    BY <1>1, <1>2, <1>4, <2>2, <2>3 DEF SchemaInv, ReadsInStep, Unread
  <2>8. LoadsFresh'
    BY <1>1, <2>1, <2>2, <2>3 DEF SchemaInv, LoadsFresh, Loading, Querying
  <2>9. entries[of].loaded >= refreshedFrom
    BY <1>3, <1>5 DEF SchemaInv, LoadsFresh
  <2>10. FreshAfterRefresh'
    BY <1>3, <1>4, <1>5, <2>2, <2>3, <2>9 DEF SchemaInv, FreshAfterRefresh
  <2> QED
    BY <2>4, <2>6, <2>7, <2>8, <2>10 DEF SchemaInv
<1>6. CASE of # 0 /\ entries[of].loaded = Unread /\ entries[of].loading
  <2> DEFINE waiter == [started EXCEPT !.at = "waiting"]
  <2>1. call' = [call EXCEPT ![c] = waiter] /\ UNCHANGED entries
    BY <1>6 DEF Get, started, of
  <2>2. /\ waiter \in Calls /\ waiter.at = "waiting" /\ waiter.of = of /\ waiter.rows = Unread
        /\ waiter.read = Unread /\ waiter.since = started.since /\ waiter.answer = NoAnswer
    BY <1>4 DEF Calls, Places
  <2> HIDE DEF waiter
  <2>3. call'[c] = waiter /\ \A d \in Callers : d # c => call'[d] = call[d]
    BY <2>1 DEF SchemaInv, SchemaTyped, RefreshesBegun
  <2>4. SchemaTyped'
    BY <1>1, <2>1, <2>2 DEF SchemaInv, SchemaTyped, RefreshesBegun
  <2>5. \A k : LoadersOf(k)' = LoadersOf(k)
    BY <1>1, <2>2, <2>3 DEF LoadersOf, Loading, Querying
  <2>6. LoadersInStep'
    BY <1>3, <1>6, <2>1, <2>2, <2>3, <2>5 DEF SchemaInv, LoadersInStep
  <2>7. ReadsInStep'
    BY <1>1, <1>2, <1>4, <2>2, <2>3 DEF SchemaInv, ReadsInStep, Unread, NoAnswer
  <2>8. LoadsFresh'
    <3>1. \A d \in Callers : call'[d].at \in Loading => d # c /\ call'[d] = call[d]
      BY <2>2, <2>3 DEF Loading, Querying
    <3>2. \A d \in Callers : call[d].at \in Loading /\ call[d].rows # Unread /\ call[d].of = of =>
              call[d].rows >= started.since
      BY <1>3, <1>4, <1>6 DEF SchemaInv, LoadsFresh
    <3> QED
      BY <1>1, <2>1, <2>2, <2>3, <3>1, <3>2 DEF SchemaInv, LoadsFresh
  <2>9. FreshAfterRefresh'
    BY <2>2, <2>3 DEF SchemaInv, FreshAfterRefresh, NoAnswer
  <2> QED
    BY <2>4, <2>6, <2>7, <2>8, <2>9 DEF SchemaInv
<1>7. CASE of = 0 \/ (entries[of].loaded = Unread /\ ~entries[of].loading)
  <2> DEFINE loader == [started EXCEPT !.at = "row"]
  <2>1. /\ call' = [call EXCEPT ![c] = loader]
        /\ entries' = IF of = 0 THEN entries ELSE [entries EXCEPT ![of].loading = TRUE]
    BY <1>7 DEF Get, started, of
  <2>2. /\ loader \in Calls /\ loader.at = "row" /\ loader.of = of /\ loader.rows = Unread
        /\ loader.read = Unread /\ loader.since = started.since /\ loader.answer = NoAnswer
    BY <1>4 DEF Calls, Places, Loading, Querying
  <2> HIDE DEF loader
  <2>3. call'[c] = loader /\ \A d \in Callers : d # c => call'[d] = call[d]
    BY <2>1 DEF SchemaInv, SchemaTyped, RefreshesBegun
  <2>4. /\ entries' \in Seq(Entries) /\ Len(entries') = Len(entries) /\ DOMAIN entries' = DOMAIN entries
        /\ \A k \in DOMAIN entries : /\ entries'[k].loaded = entries[k].loaded
                                     /\ entries'[k].loading = IF k = of THEN TRUE ELSE entries[k].loading
    <3>1. CASE of = 0
      <4>1. entries' = entries /\ \A k \in DOMAIN entries : k # of
        BY <1>2, <2>1, <3>1
      <4> QED
        BY <4>1 DEF SchemaInv, SchemaTyped, RefreshesBegun
    <3>2. CASE of # 0
      <4> DEFINE marked == [entries[of] EXCEPT !.loading = TRUE]
      <4>1. marked \in Entries /\ marked.loaded = entries[of].loaded /\ marked.loading = TRUE
        BY <1>2, <1>3, <3>2 DEF Entries
      <4>2. entries' = [entries EXCEPT ![of] = marked]
        BY <2>1, <3>2
      <4> HIDE DEF marked
      <4>3. entries \in Seq(Entries) /\ of \in DOMAIN entries
        BY <1>3, <3>2 DEF SchemaInv, SchemaTyped, RefreshesBegun
      <4>4. /\ entries' \in Seq(Entries) /\ Len(entries') = Len(entries) /\ DOMAIN entries' = DOMAIN entries
            /\ entries'[of] = marked /\ \A j \in DOMAIN entries : j # of => entries'[j] = entries[j]
        BY <4>1, <4>2, <4>3, ReplacedEntry
      <4> QED
        BY <4>1, <4>4
    <3> QED
      BY <3>1, <3>2
  <2>5. SchemaTyped'
    BY <1>1, <2>1, <2>2, <2>4 DEF SchemaInv, SchemaTyped, RefreshesBegun
  <2>6. \A k : LoadersOf(k)' = IF k = of THEN LoadersOf(k) \union {c} ELSE LoadersOf(k)
    BY <1>1, <2>2, <2>3 DEF LoadersOf, Loading, Querying
  <2>7. LoadersInStep'
    <3>1. ASSUME NEW k \in DOMAIN entries'
          PROVE  IF entries'[k].loading THEN \E d \in Callers : LoadersOf(k)' = {d} ELSE LoadersOf(k)' = {}
      <4>1. CASE k = of
        <5>1. k # 0 /\ LoadersOf(k) = {}
          BY <1>2, <1>7, <2>4, <3>1, <4>1 DEF SchemaInv, LoadersInStep
        <5> QED
          BY <2>4, <2>6, <3>1, <4>1, <5>1
      <4>2. CASE k # of
        BY <2>4, <2>6, <3>1, <4>2 DEF SchemaInv, LoadersInStep
      <4> QED
        BY <4>1, <4>2
    <3>2. \A d \in Callers : call'[d].of <= Len(entries')
      BY <1>3, <2>2, <2>3, <2>4 DEF SchemaInv, LoadersInStep
    <3>3. ASSUME NEW d \in Callers, call'[d].at = "waiting"
          PROVE  call'[d].of # 0 /\ entries'[call'[d].of].loading
      <4>1. call'[d] = call[d] /\ call[d].of # 0 /\ entries[call[d].of].loading
        BY <2>2, <2>3, <3>3 DEF SchemaInv, LoadersInStep
      <4>2. call[d].of \in DOMAIN entries
        BY <1>2, <4>1 DEF SchemaInv, LoadersInStep, SchemaTyped, Calls
      <4> QED
        BY <2>4, <4>1, <4>2
    <3> QED
      BY <3>1, <3>2, <3>3 DEF LoadersInStep
  <2>8. ReadsInStep'
    BY <1>1, <1>2, <1>4, <2>2, <2>3 DEF SchemaInv, ReadsInStep, Unread, NoAnswer
  <2>9. LoadsFresh'
    <3>1. keyspace # 0 => keyspace \in DOMAIN entries
      BY <1>2
    <3> QED
      BY <1>1, <2>2, <2>3, <2>4, <3>1 DEF SchemaInv, LoadsFresh
  <2>10. FreshAfterRefresh'
    BY <2>2, <2>3 DEF SchemaInv, FreshAfterRefresh, NoAnswer
  <2> QED
    BY <2>5, <2>7, <2>8, <2>9, <2>10 DEF SchemaInv
<1>8. of # 0 => entries[of].loading \in BOOLEAN
  BY <1>2, <1>3 DEF Entries
<1> QED
  BY <1>5, <1>6, <1>7, <1>8

\* The server reads the rows of a query.
LEMMA ReadKeeps ==
    ASSUME SchemaInv, NEW c \in Callers, ServerReads(c)
    PROVE  SchemaInv'
<1> DEFINE reading == [call[c] EXCEPT !.read = Version, !.rows = IF @ = Unread THEN Version ELSE @]
<1>1. /\ call[c].at \in Querying /\ call[c].read = Unread
      /\ call' = [call EXCEPT ![c] = reading] /\ call[c] \in Calls
  BY DEF ServerReads, SchemaInv, SchemaTyped, Calls
<1>2. UNCHANGED <<objectKind, syncEnabled, isVirtual, history, keyspace, entries, refresh, refreshedFrom, Version>>
  BY DEF ServerReads, Version
<1>3. Version \in Nat /\ refreshedFrom <= Version /\ refreshedFrom \in Nat
  BY DEF SchemaInv, SchemaTyped, Version
<1>4. /\ reading \in Calls /\ reading.at = call[c].at /\ reading.of = call[c].of
      /\ reading.since = call[c].since /\ reading.answer = call[c].answer
      /\ reading.read = Version /\ reading.rows = IF call[c].rows = Unread THEN Version ELSE call[c].rows
  BY <1>1, <1>3 DEF Calls
<1> HIDE DEF reading
<1>5. call'[c] = reading /\ \A d \in Callers : d # c => call'[d] = call[d]
  BY <1>1 DEF SchemaInv, SchemaTyped, RefreshesBegun
<1>6. SchemaTyped'
  BY <1>1, <1>2, <1>4 DEF SchemaInv, SchemaTyped, RefreshesBegun
<1>7. \A k : LoadersOf(k)' = LoadersOf(k)
  BY <1>4, <1>5 DEF LoadersOf
<1>8. LoadersInStep'
  BY <1>2, <1>4, <1>5, <1>7 DEF SchemaInv, LoadersInStep
<1>9. 1 <= Version
  BY DEF SchemaInv, SchemaTyped, Version
<1>10. ReadsInStep'
  BY <1>1, <1>2, <1>3, <1>4, <1>5, <1>9 DEF SchemaInv, ReadsInStep, Unread, Querying, Calls
<1>11. LoadsFresh'
  <2>1. \A d \in Callers : call[d].since <= Version
    BY DEF SchemaInv, ReadsInStep
  <2> QED
    BY <1>2, <1>3, <1>4, <1>5, <2>1 DEF SchemaInv, LoadsFresh
<1>12. FreshAfterRefresh'
  BY <1>4, <1>5 DEF SchemaInv, FreshAfterRefresh
<1> QED
  BY <1>6, <1>8, <1>10, <1>11, <1>12 DEF SchemaInv

\* A load ends with an answer that is new enough for all it is given to.
LEMMA EndKeeps ==
    ASSUME SchemaInv, NEW c \in Callers, call[c].at \in Loading,
           NEW reply \in Answers, EndLoad(c, reply),
           UNCHANGED <<objectKind, syncEnabled, isVirtual, history, keyspace, refresh, refreshedFrom>>,
           reply.is \in {"found", "none"} =>
               /\ reply.version >= call[c].since
               /\ \A d \in Callers : call[d].at = "waiting" /\ call[d].of = call[c].of =>
                      reply.version >= call[d].since,
           reply.is = "found" /\ keyspace # 0 /\ call[c].of = keyspace => reply.version >= refreshedFrom
    PROVE  SchemaInv'
<1> DEFINE of == call[c].of
           told == {d \in Callers : call[d].at = "waiting" /\ call[d].of = of} \union {c}
<1>1. /\ call' = [d \in Callers |-> IF d \in told THEN Ended(call[d], reply) ELSE call[d]]
      /\ entries' = IF of = 0 THEN entries
                    ELSE [entries EXCEPT ![of].loading = FALSE,
                              ![of].loaded = IF reply.is = "found" THEN reply.version ELSE @]
  BY DEF EndLoad
<1>2. /\ \A d \in Callers : call[d] \in Calls
      /\ Version \in Nat /\ Version' = Version /\ refreshedFrom \in Nat
      /\ keyspace \in Nat /\ keyspace <= Len(entries) /\ Len(entries) \in Nat
      /\ DOMAIN entries = 1 .. Len(entries) /\ entries \in Seq(Entries)
      /\ \A k \in DOMAIN entries : entries[k] \in Entries
  BY DEF SchemaInv, SchemaTyped, Version
<1>3. of \in Nat /\ of <= Len(entries) /\ (of # 0 => of \in DOMAIN entries)
  BY <1>2 DEF SchemaInv, LoadersInStep, Calls
<1> HIDE DEF of
<1>4. \A d \in told : d \in Callers /\ d \notin {x \in Callers : call[x].at \in {"idle", "done"}}
  BY DEF told, Loading, Querying
<1>5. ASSUME NEW d \in told
      PROVE  /\ call'[d] \in Calls /\ call'[d].at = "done" /\ call'[d].of = 0 /\ call'[d].rows = Unread
             /\ call'[d].read = Unread /\ call'[d].since = call[d].since /\ call'[d].answer = reply
  <2>1. call'[d] = Ended(call[d], reply) /\ call[d].since \in Nat
    BY <1>1, <1>2, <1>4 DEF Calls
  <2>2. call'[d] = [at |-> "done", of |-> 0, read |-> Unread, rows |-> Unread, virtual |-> "no",
                    since |-> call[d].since, answer |-> reply]
    BY <2>1 DEF Ended, NewCall
  <2> QED
    BY <2>1, <2>2 DEF Calls, Places, Unread
<1>6. \A d \in Callers : d \notin told => call'[d] = call[d]
  BY <1>1
<1>7. \A d \in told : reply.is \in {"found", "none"} => reply.version >= call[d].since
  BY DEF told, of
<1>8. /\ entries' \in Seq(Entries) /\ Len(entries') = Len(entries) /\ DOMAIN entries' = DOMAIN entries
      /\ \A k \in DOMAIN entries : k # of => entries'[k] = entries[k]
      /\ of # 0 => /\ entries'[of].loading = FALSE
                   /\ entries'[of].loaded = IF reply.is = "found" THEN reply.version ELSE entries[of].loaded
  <2>1. CASE of = 0
    BY <1>1, <1>2, <2>1
  <2>2. CASE of # 0
    <3> DEFINE known == [entries[of] EXCEPT !.loading = FALSE,
                                            !.loaded = IF reply.is = "found" THEN reply.version ELSE @]
    <3>1. /\ known \in Entries /\ known.loading = FALSE
          /\ known.loaded = IF reply.is = "found" THEN reply.version ELSE entries[of].loaded
      BY <1>2, <1>3, <2>2 DEF Entries, Answers
    <3>2. entries' = [entries EXCEPT ![of] = known]
      BY <1>1, <1>2, <1>3, <2>2
    <3> HIDE DEF known
    <3>3. entries \in Seq(Entries) /\ of \in DOMAIN entries
      BY <1>2, <1>3, <2>2
    <3>4. /\ entries' \in Seq(Entries) /\ Len(entries') = Len(entries) /\ DOMAIN entries' = DOMAIN entries
          /\ entries'[of] = known /\ \A j \in DOMAIN entries : j # of => entries'[j] = entries[j]
      BY <3>1, <3>2, <3>3, ReplacedEntry
    <3> QED
      BY <3>1, <3>4
  <2> QED
    BY <2>1, <2>2
<1>9. SchemaTyped'
  <2>1. call' \in [Callers -> Calls]
    BY <1>1, <1>2, <1>5, <1>6
  <2> QED
    BY <1>2, <1>8, <2>1 DEF SchemaInv, SchemaTyped, RefreshesBegun
<1>10. \A k : LoadersOf(k)' = LoadersOf(k) \ {c}
  BY <1>4, <1>5, <1>6 DEF LoadersOf, told, Loading, Querying
<1>11. \A d \in Callers : call'[d].at = "waiting" => d \notin told /\ call[d].of # of /\ call'[d] = call[d]
  BY <1>5, <1>6 DEF told
<1>12. LoadersInStep'
  <2>1. ASSUME NEW k \in DOMAIN entries'
        PROVE  IF entries'[k].loading THEN \E d \in Callers : LoadersOf(k)' = {d} ELSE LoadersOf(k)' = {}
    <3>1. CASE k = of
      <4>1. c \in LoadersOf(of)
        BY DEF LoadersOf, of
      <4>2. k # 0 /\ LoadersOf(k) = {c}
        BY <1>2, <1>8, <2>1, <3>1, <4>1 DEF SchemaInv, LoadersInStep
      <4> QED
        BY <1>8, <1>10, <3>1, <4>2
    <3>2. CASE k # of
      <4>1. c \notin LoadersOf(k)
        BY <3>2 DEF LoadersOf, of
      <4> QED
        BY <1>8, <1>10, <2>1, <3>2, <4>1 DEF SchemaInv, LoadersInStep
    <3> QED
      BY <3>1, <3>2
  <2>2. \A d \in Callers : call'[d].of <= Len(entries')
    BY <1>2, <1>5, <1>6, <1>8 DEF SchemaInv, LoadersInStep
  <2>3. ASSUME NEW d \in Callers, call'[d].at = "waiting"
        PROVE  call'[d].of # 0 /\ entries'[call'[d].of].loading
    <3>1. call'[d] = call[d] /\ call[d].of # of /\ call[d].of # 0 /\ entries[call[d].of].loading
      BY <1>11, <2>3 DEF SchemaInv, LoadersInStep
    <3>2. call[d].of \in DOMAIN entries
      BY <1>2, <3>1 DEF SchemaInv, LoadersInStep, Calls
    <3> QED
      BY <1>8, <3>1, <3>2
  <2> QED
    BY <2>1, <2>2, <2>3 DEF LoadersInStep
<1>13. ReadsInStep'
  BY <1>2, <1>4, <1>5, <1>6 DEF SchemaInv, ReadsInStep, Unread
<1>14. LoadsFresh'
  <2>1. \A d \in Callers : call'[d].at \in Loading \union {"waiting"} => call'[d] = call[d]
    BY <1>5, <1>6 DEF Loading, Querying
  <2>2. ASSUME keyspace' # 0, entries'[keyspace'].loaded # Unread
        PROVE  entries'[keyspace'].loaded >= refreshedFrom'
    <3>1. keyspace \in DOMAIN entries
      BY <1>2, <2>2
    <3>2. CASE keyspace # of
      BY <1>8, <2>2, <3>1, <3>2 DEF SchemaInv, LoadsFresh
    <3>3. CASE keyspace = of
      BY <1>8, <2>2, <3>1, <3>3 DEF SchemaInv, LoadsFresh, of
    <3> QED
      BY <3>2, <3>3
  <2> QED
    BY <1>2, <2>1, <2>2 DEF SchemaInv, LoadsFresh
<1>15. FreshAfterRefresh'
  BY <1>5, <1>6, <1>7 DEF SchemaInv, FreshAfterRefresh
<1> QED
  BY <1>9, <1>12, <1>13, <1>14, <1>15 DEF SchemaInv

\* A load goes on to its next query.
LEMMA GoOnKeeps ==
    ASSUME SchemaInv, NEW c \in Callers, call[c].at \in Querying, call[c].read # Unread,
           NEW step \in Loading, GoOn(c, step),
           UNCHANGED <<objectKind, syncEnabled, isVirtual, history, keyspace, refresh, refreshedFrom>>
    PROVE  SchemaInv'
<1> DEFINE next == [call[c] EXCEPT !.at = step, !.read = Unread,
                                   !.virtual = IF call[c].at = "virtual" THEN "yes" ELSE @]
<1>1. call' = [call EXCEPT ![c] = next] /\ call[c] \in Calls /\ entries' = entries /\ Version' = Version
  BY DEF GoOn, SchemaInv, SchemaTyped, Calls, Version
<1>2. /\ next \in Calls /\ next.at = step /\ next.of = call[c].of /\ next.read = Unread
      /\ next.rows = call[c].rows /\ next.since = call[c].since /\ next.answer = call[c].answer
  BY <1>1 DEF Calls, Places, Unread
<1> HIDE DEF next
<1>3. call'[c] = next /\ \A d \in Callers : d # c => call'[d] = call[d]
  BY <1>1 DEF SchemaInv, SchemaTyped, RefreshesBegun
<1>4. call[c].at \in Loading /\ step # "waiting" /\ step # "done" /\ call[c].at # "done"
  BY DEF Loading, Querying
<1>5. SchemaTyped'
  BY <1>1, <1>2 DEF SchemaInv, SchemaTyped, RefreshesBegun
<1>6. \A k : LoadersOf(k)' = LoadersOf(k)
  BY <1>2, <1>3, <1>4 DEF LoadersOf
<1>7. LoadersInStep'
  BY <1>1, <1>2, <1>3, <1>4, <1>6 DEF SchemaInv, LoadersInStep
<1>8. ReadsInStep'
  BY <1>1, <1>2, <1>3, <1>4 DEF SchemaInv, ReadsInStep
<1>9. LoadsFresh' /\ FreshAfterRefresh'
  BY <1>1, <1>2, <1>3, <1>4 DEF SchemaInv, LoadsFresh, FreshAfterRefresh
<1> QED
  BY <1>5, <1>7, <1>8, <1>9 DEF SchemaInv

\* Every answer of the server, or its failure, is either the end of the load or not.
LEMMA LoadStepKeeps ==
    ASSUME SchemaInv, NEW c \in Callers, LoadStep(c)
    PROVE  SchemaInv'
<1>1. /\ call[c] \in Calls /\ Version \in Nat /\ objectKind \in Kinds
      /\ \A d \in Callers : call[d].since \in Nat /\ call[d].since <= Version
      /\ refreshedFrom \in Nat /\ refreshedFrom <= Version
  BY DEF SchemaInv, SchemaTyped, ReadsInStep, Calls, Version
<1>2. Querying \subseteq Loading /\ "virtual" \in Loading /\ "parse" \in Loading
  BY DEF Loading, Querying
<1>3. CASE ServerReads(c)
  BY <1>3, ReadKeeps
<1>4. CASE QueryAnswered(c)
  <2>1. /\ call[c].at \in Querying /\ call[c].read # Unread
        /\ UNCHANGED <<objectKind, syncEnabled, isVirtual, history, keyspace, refresh, refreshedFrom>>
        /\ RowMissing(c) \/ GoOn(c, NextStep(c))
    BY <1>4 DEF QueryAnswered
  <2>2. CASE GoOn(c, NextStep(c))
    <3>1. NextForTable(c) \in Loading /\ NextForView(c) \in Loading
      BY DEF NextForTable, NextForView, Loading, Querying
    <3>2. NextStep(c) \in Loading
      BY <1>1, <1>2, <3>1 DEF NextStep, NextForUdt, NextForFunctions, Kinds
    <3> QED
      BY <2>1, <2>2, <3>2, GoOnKeeps
  <2>3. CASE RowMissing(c)
    <3> DEFINE reply == [is |-> "none", version |-> call[c].read]
    <3>1. CASE GoOn(c, "virtual")
      BY <1>2, <2>1, <3>1, GoOnKeeps
    <3>2. CASE EndLoad(c, reply)
      <4>1. /\ call[c].rows # Unread /\ call[c].rows <= call[c].read
            /\ call[c].rows \in Nat /\ call[c].read \in Nat
        BY <1>1, <2>1 DEF SchemaInv, ReadsInStep, Calls
      <4>2. /\ call[c].rows >= call[c].since
            /\ \A d \in Callers : call[d].at = "waiting" /\ call[d].of = call[c].of =>
                   call[c].rows >= call[d].since
        BY <1>2, <2>1, <4>1 DEF SchemaInv, LoadsFresh
      <4>3. /\ reply \in Answers /\ reply.is = "none" /\ reply.version >= call[c].since
            /\ \A d \in Callers : call[d].at = "waiting" /\ call[d].of = call[c].of =>
                   reply.version >= call[d].since
        BY <1>1, <4>1, <4>2 DEF Answers
      <4> HIDE DEF reply
      <4> QED
        BY <1>2, <2>1, <3>2, <4>3, EndKeeps
    <3> QED
      BY <2>3, <3>1, <3>2 DEF RowMissing
  <2> QED
    BY <2>1, <2>2, <2>3
<1>5. CASE Parsed(c)
  <2> DEFINE reply == [is |-> "found", version |-> call[c].rows]
  <2>1. /\ call[c].at \in Loading /\ EndLoad(c, reply)
        /\ UNCHANGED <<objectKind, syncEnabled, isVirtual, history, keyspace, refresh, refreshedFrom>>
        /\ call[c].rows # Unread
    BY <1>2, <1>5 DEF Parsed, SchemaInv, ReadsInStep
  <2>2. /\ call[c].rows >= call[c].since
        /\ keyspace # 0 /\ call[c].of = keyspace => call[c].rows >= refreshedFrom
        /\ \A d \in Callers : call[d].at = "waiting" /\ call[d].of = call[c].of =>
               call[c].rows >= call[d].since
    BY <2>1 DEF SchemaInv, LoadsFresh
  <2>3. reply \in Answers /\ reply.version = call[c].rows
    BY <1>1 DEF Answers, Calls
  <2> HIDE DEF reply
  <2> QED
    BY <2>1, <2>2, <2>3, EndKeeps
<1>6. CASE LoadFails(c)
  <2> DEFINE reply == [is |-> IF call[c].at = "virtual" THEN "none" ELSE "error", version |-> Version]
  <2>1. /\ call[c].at \in Loading /\ EndLoad(c, reply)
        /\ UNCHANGED <<objectKind, syncEnabled, isVirtual, history, keyspace, refresh, refreshedFrom>>
    BY <1>6 DEF LoadFails
  <2>2. reply \in Answers /\ reply.version = Version /\ reply.is # "found"
    BY <1>1 DEF Answers
  <2> HIDE DEF reply
  <2> QED
    BY <1>1, <2>1, <2>2, EndKeeps
<1> QED
  BY <1>3, <1>4, <1>5, <1>6 DEF LoadStep

\* While a refresh goes on, nothing that a caller sees changes.
LEMMA RefreshingKeeps ==
    ASSUME SchemaInv, RefreshesBegun',
           UNCHANGED <<objectKind, syncEnabled, isVirtual, history, keyspace, entries, call, refreshedFrom>>
    PROVE  SchemaInv'
<1>1. SchemaTyped'
  BY DEF SchemaInv, SchemaTyped, Version
<1>2. LoadersInStep' /\ ReadsInStep' /\ LoadsFresh' /\ FreshAfterRefresh'
  BY DEF SchemaInv, LoadersInStep, LoadersOf, ReadsInStep, LoadsFresh, FreshAfterRefresh, Version
<1> QED
  BY <1>1, <1>2 DEF SchemaInv

\* A refresh completes: nobody has loaded anything into the new object of the keyspace yet.
LEMMA InstallKeeps ==
    ASSUME SchemaInv, NEW r \in Refreshes, NEW found, Install(r, found),
           UNCHANGED <<objectKind, syncEnabled, isVirtual, history, call>>
    PROVE  SchemaInv'
<1>1. /\ Version' = Version /\ Version \in Nat /\ Len(entries) \in Nat
      /\ DOMAIN entries = 1 .. Len(entries) /\ entries \in Seq(Entries)
      /\ refresh[r].from \in Nat /\ refresh[r].from <= Version
      /\ refreshedFrom \in Nat /\ refreshedFrom <= Version
  BY DEF SchemaInv, SchemaTyped, RefreshesBegun, Version
<1>2. RefreshesBegun'
  <2>1. refresh' = [refresh EXCEPT ![r] = [refresh[r] EXCEPT !.at = "done", !.pending = << >>]]
    BY DEF Install, SchemaInv, SchemaTyped, RefreshesBegun
  <2> QED
    BY <1>1, <2>1 DEF SchemaInv, SchemaTyped, RefreshesBegun
<1>3. refreshedFrom' \in Nat /\ refreshedFrom' <= Version
  BY <1>1 DEF Install, Larger
<1>4. /\ entries' \in Seq(Entries) /\ Len(entries') \in Nat /\ Len(entries) <= Len(entries')
      /\ keyspace' \in Nat /\ keyspace' <= Len(entries') /\ DOMAIN entries' = 1 .. Len(entries')
      /\ \A k \in DOMAIN entries : entries'[k] = entries[k]
      /\ \A k \in DOMAIN entries' \ DOMAIN entries : entries'[k] = NewEntry
      /\ keyspace' # 0 => keyspace' \notin DOMAIN entries /\ keyspace' \in DOMAIN entries'
  <2>1. NewEntry \in Entries
    BY DEF NewEntry, Entries, Unread
  <2>2. CASE found
    <3>1. entries' = Append(entries, NewEntry) /\ keyspace' = Len(entries) + 1
      BY <2>2 DEF Install
    <3> QED
      BY <1>1, <2>1, <3>1
  <2>3. CASE ~found
    BY <1>1, <2>3 DEF Install
  <2> QED
    BY <2>2, <2>3
<1>5. SchemaTyped'
  BY <1>1, <1>2, <1>3, <1>4 DEF SchemaInv, SchemaTyped
<1>6. \A c \in Callers : call[c].of \in Nat /\ call[c].of <= Len(entries)
  BY DEF SchemaInv, SchemaTyped, LoadersInStep, Calls
<1>7. \A k : LoadersOf(k)' = LoadersOf(k)
  BY DEF LoadersOf
<1>8. LoadersInStep'
  <2>1. ASSUME NEW k \in DOMAIN entries', k \notin DOMAIN entries
        PROVE  LoadersOf(k)' = {} /\ ~entries'[k].loading
    BY <1>1, <1>4, <1>6, <1>7, <2>1 DEF LoadersOf, NewEntry
  <2>2. \A k \in DOMAIN entries : IF entries'[k].loading THEN \E c \in Callers : LoadersOf(k)' = {c}
                                  ELSE LoadersOf(k)' = {}
    BY <1>4, <1>7 DEF SchemaInv, LoadersInStep
  <2>3. ASSUME NEW c \in Callers, call'[c].at = "waiting"
        PROVE  call'[c].of # 0 /\ entries'[call'[c].of].loading
    <3>1. call[c].of # 0 /\ entries[call[c].of].loading
      BY <2>3 DEF SchemaInv, LoadersInStep
    <3>2. call[c].of \in DOMAIN entries
      BY <1>1, <1>6, <3>1
    <3> QED
      BY <1>4, <3>1, <3>2
  <2> QED
    BY <1>1, <1>4, <1>6, <2>1, <2>2, <2>3 DEF LoadersInStep
<1>9. ReadsInStep' /\ FreshAfterRefresh'
  BY <1>1 DEF SchemaInv, ReadsInStep, FreshAfterRefresh
<1>10. LoadsFresh'
  <2>1. keyspace' # 0 => entries'[keyspace'].loaded = Unread
    BY <1>4 DEF NewEntry
  <2>2. keyspace' # 0 => \A c \in Callers : call[c].of # keyspace'
    BY <1>1, <1>4, <1>6
  <2> QED
    BY <2>1, <2>2 DEF SchemaInv, LoadsFresh
<1> QED
  BY <1>5, <1>8, <1>9, <1>10 DEF SchemaInv

\* What a refresh makes of an answer.
LEMMA TakeKeeps ==
    ASSUME SchemaInv, NEW r \in Refreshes, NEW q, NEW found \in BOOLEAN, Take(r, q, found),
           UNCHANGED <<objectKind, syncEnabled, isVirtual, history, call>>
    PROVE  SchemaInv'
<1> DEFINE others == DOMAIN refresh[r].pending \ {q}
           known == refresh[r].found \/ found
           again == [refresh[r] EXCEPT !.pending = [x \in {"virtual"} |-> Unread]]
           rest == [refresh[r] EXCEPT !.found = known, !.pending = [x \in others |-> refresh[r].pending[x]]]
<1>1. \/ Install(r, known)
      \/ /\ refresh' = [refresh EXCEPT ![r] = again] \/ refresh' = [refresh EXCEPT ![r] = rest]
         /\ UNCHANGED <<keyspace, entries, refreshedFrom>>
  BY DEF Take, SchemaInv, SchemaTyped, RefreshesBegun
<1>2. CASE Install(r, known)
  BY <1>2, InstallKeeps
<1>3. CASE /\ refresh' = [refresh EXCEPT ![r] = again] \/ refresh' = [refresh EXCEPT ![r] = rest]
           /\ UNCHANGED <<keyspace, entries, refreshedFrom>>
  <2>1. /\ again.from = refresh[r].from /\ DOMAIN again = {"at", "scope", "pending", "found", "from"}
        /\ rest.from = refresh[r].from /\ DOMAIN rest = {"at", "scope", "pending", "found", "from"}
    BY DEF SchemaInv, SchemaTyped, RefreshesBegun
  <2> HIDE DEF again, rest
  <2>2. RefreshesBegun' /\ UNCHANGED <<objectKind, syncEnabled, isVirtual, history, call>>
    BY <1>3, <2>1 DEF SchemaInv, SchemaTyped, RefreshesBegun, Version
  <2> QED
    BY <1>3, <2>2, RefreshingKeeps
<1> QED
  BY <1>1, <1>2, <1>3

\* Every step of a refresh keeps the invariant.
LEMMA RefreshKeeps ==
    ASSUME SchemaInv, NEW r \in Refreshes, NEW q, NEW which,
           \/ StartRefresh(r, which) \/ ServerReadsKeyspace(r, q)
           \/ KeyspaceAnswered(r, q) \/ KeyspaceFails(r, q)
    PROVE  SchemaInv'
<1>1. Version \in Nat
  BY DEF SchemaInv, SchemaTyped, Version
<1>2. CASE StartRefresh(r, which)
  <2> DEFINE begun == [NewRefresh EXCEPT !.at = "sent", !.scope = which, !.from = Version,
                !.pending = [x \in IF which = "all" THEN {"real", "virtual"} ELSE {"real"} |-> Unread]]
  <2>1. refresh' = [refresh EXCEPT ![r] = begun]
    BY <1>2 DEF StartRefresh
  <2>2. begun.from = Version /\ DOMAIN begun = {"at", "scope", "pending", "found", "from"}
    BY DEF NewRefresh
  <2> HIDE DEF begun
  <2>3. /\ UNCHANGED <<objectKind, syncEnabled, isVirtual, history, keyspace, entries, call, refreshedFrom>>
        /\ Version' = Version
    BY <1>2 DEF StartRefresh, Version
  <2>4. RefreshesBegun'
    BY <1>1, <2>1, <2>2, <2>3 DEF SchemaInv, SchemaTyped, RefreshesBegun
  <2> QED
    BY <2>3, <2>4, RefreshingKeeps
<1>3. CASE ServerReadsKeyspace(r, q)
  <2> DEFINE read == [refresh[r] EXCEPT !.pending = [@ EXCEPT ![q] = Version]]
  <2>1. refresh' = [refresh EXCEPT ![r] = read]
    BY <1>3 DEF ServerReadsKeyspace, SchemaInv, SchemaTyped, RefreshesBegun
  <2>2. read.from = refresh[r].from /\ DOMAIN read = {"at", "scope", "pending", "found", "from"}
    BY DEF SchemaInv, SchemaTyped, RefreshesBegun
  <2> HIDE DEF read
  <2>3. /\ UNCHANGED <<objectKind, syncEnabled, isVirtual, history, keyspace, entries, call, refreshedFrom>>
        /\ Version' = Version
    BY <1>3 DEF ServerReadsKeyspace, Version
  <2>4. RefreshesBegun'
    BY <1>1, <2>1, <2>2, <2>3 DEF SchemaInv, SchemaTyped, RefreshesBegun
  <2> QED
    BY <2>3, <2>4, RefreshingKeeps
<1>4. CASE KeyspaceAnswered(r, q)
  BY <1>4, TakeKeeps DEF KeyspaceAnswered
<1>5. CASE KeyspaceFails(r, q)
  <2>1. CASE Take(r, q, FALSE)
    BY <1>5, <2>1, TakeKeeps DEF KeyspaceFails
  <2>2. CASE /\ refresh' = [refresh EXCEPT ![r].at = "done", ![r].pending = << >>]
             /\ UNCHANGED <<keyspace, entries, refreshedFrom>>
    <3> DEFINE over == [refresh[r] EXCEPT !.at = "done", !.pending = << >>]
    <3>1. refresh' = [refresh EXCEPT ![r] = over]
      BY <2>2 DEF SchemaInv, SchemaTyped, RefreshesBegun
    <3>2. over.from = refresh[r].from /\ DOMAIN over = {"at", "scope", "pending", "found", "from"}
      BY DEF SchemaInv, SchemaTyped, RefreshesBegun
    <3> HIDE DEF over
    <3>3. UNCHANGED <<objectKind, syncEnabled, isVirtual, history, call>> /\ Version' = Version
      BY <1>5 DEF KeyspaceFails, Version
    <3>4. RefreshesBegun'
      BY <1>1, <3>1, <3>2, <3>3 DEF SchemaInv, SchemaTyped, RefreshesBegun
    <3> QED
      BY <2>2, <3>3, <3>4, RefreshingKeeps
  <2> QED
    BY <1>5, <2>1, <2>2 DEF KeyspaceFails
<1> QED
  BY <1>2, <1>3, <1>4, <1>5

\* Loads, waiters and refreshes stay in step, in whatever order the answers arrive.
THEOREM SchemaInvariant == SchemaSpec => []SchemaInv
<1>1. SchemaInit => SchemaInv
  BY SchemaStarts
<1>2. SchemaInv /\ [SchemaNext]_schemaVars => SchemaInv'
  <2> SUFFICES ASSUME SchemaInv, [SchemaNext]_schemaVars
               PROVE  SchemaInv'
    OBVIOUS
  <2>1. CASE AlterSchema
    BY <2>1, AlterKeeps
  <2>2. ASSUME NEW c \in Callers, AnswerMissing(c) \/ Get(c) \/ LoadStep(c)
        PROVE  SchemaInv'
    BY <2>2, MissingKeeps, GetKeeps, LoadStepKeeps
  <2>3. ASSUME NEW r \in Refreshes, NEW which \in {"one", "all"}, StartRefresh(r, which)
        PROVE  SchemaInv'
    BY <2>3, RefreshKeeps
  <2>4. ASSUME NEW r \in Refreshes, NEW q \in {"real", "virtual"},
               ServerReadsKeyspace(r, q) \/ KeyspaceAnswered(r, q) \/ KeyspaceFails(r, q)
        PROVE  SchemaInv'
    BY <2>4, RefreshKeeps
  <2>5. CASE UNCHANGED schemaVars
    <3>1. /\ UNCHANGED <<objectKind, syncEnabled, isVirtual, history, keyspace, entries, call, refreshedFrom>>
          /\ UNCHANGED refresh /\ Version' = Version
      BY <2>5 DEF schemaVars, Version
    <3>2. RefreshesBegun'
      BY <3>1 DEF SchemaInv, SchemaTyped, RefreshesBegun
    <3> QED
      BY <3>1, <3>2, RefreshingKeeps
  <2> QED
    BY <2>1, <2>2, <2>3, <2>4, <2>5 DEF SchemaNext
<1> QED
  BY <1>1, <1>2, PTL DEF SchemaSpec

\* Whoever waits for an object waits for exactly one load that runs: getTable, getUdt and the
\* others share a load and are all told of its end, whatever fails and however often the
\* keyspace is replaced meanwhile.
THEOREM LoadsAreShared == SchemaSpec => []LoadsShared
<1>1. SchemaInv => LoadsShared
  <2> SUFFICES ASSUME SchemaInv, NEW k \in DOMAIN entries
               PROVE  /\ Cardinality(LoadersOf(k)) = (IF entries[k].loading THEN 1 ELSE 0)
                      /\ (\E c \in Callers : call[c].at = "waiting" /\ call[c].of = k) => entries[k].loading
    BY DEF LoadsShared
  <2>1. CASE entries[k].loading
    <3>1. PICK c \in Callers : LoadersOf(k) = {c}
      BY <2>1 DEF SchemaInv, LoadersInStep
    <3> QED
      BY <2>1, <3>1, FS_Singleton
  <2>2. CASE ~entries[k].loading
    <3>1. LoadersOf(k) = {}
      BY <2>2 DEF SchemaInv, LoadersInStep
    <3> QED
      BY <2>2, <3>1, FS_EmptySet DEF SchemaInv, LoadersInStep
  <2> QED
    BY <2>1, <2>2
<1> QED
  BY <1>1, SchemaInvariant, PTL

\* A call made after a refresh has completed is never answered from before that refresh,
\* although loads of the replaced keyspace object may still be under way.
THEOREM RefreshIsSeen == SchemaSpec => []FreshAfterRefresh
<1>1. SchemaInv => FreshAfterRefresh
  BY DEF SchemaInv
<1> QED
  BY <1>1, SchemaInvariant, PTL

-----------------------------------------------------------------------------
Statements == [key : Queries, prepared : BOOLEAN, cleared : BOOLEAN]

\* The maps hold statements that were made; a statement that is not found by its query any
\* more was there when the cache was cleared, or was removed, which only prepared ones are.
StatementsPlaced ==
    /\ infos \in Seq(Statements)
    /\ byKey \subseteq DOMAIN infos /\ byId \subseteq DOMAIN infos
    /\ IsFiniteSet(byKey)
    /\ \A i \in DOMAIN infos : i \in byKey \/ infos[i].cleared \/ HasId(i)

PreparedInv == StatementsPlaced /\ PreparedBounded

\* getOrAdd() of a query that is not known.
LEMMA GetOrAddKeeps ==
    ASSUME PreparedInv, NEW key \in Queries, GetOrAdd(key)
    PROVE  PreparedInv'
<1> DEFINE new == Len(infos) + 1
<1>1. PICK out \in SUBSET Removable :
          /\ Evicts(out) /\ byKey' = (byKey \ out) \union {new} /\ byId' = byId \ out
          /\ preparedLength' = preparedLength - Cardinality(out) + 1
  BY DEF GetOrAdd
<1>2. /\ infos' \in Seq(Statements) /\ Len(infos) \in Nat /\ DOMAIN infos = 1 .. Len(infos)
      /\ DOMAIN infos' = DOMAIN infos \union {new} /\ new \notin DOMAIN infos
      /\ \A i \in DOMAIN infos : infos'[i] = infos[i]
      /\ infos'[new] = [key |-> key, prepared |-> FALSE, cleared |-> FALSE]
  BY DEF GetOrAdd, PreparedInv, StatementsPlaced, Statements
<1> HIDE DEF new
<1>3. /\ byKey \subseteq DOMAIN infos /\ byId \subseteq DOMAIN infos /\ out \subseteq byKey
      /\ IsFiniteSet(byKey) /\ preparedLength = Cardinality(byKey)
      /\ Removable \subseteq byKey
  BY DEF PreparedInv, StatementsPlaced, PreparedBounded, ByIdMeansByKey, Removable
<1>4. /\ IsFiniteSet(out) /\ IsFiniteSet(Removable) /\ IsFiniteSet(byKey \ out)
      /\ Cardinality(byKey) \in Nat /\ Cardinality(out) \in Nat /\ Cardinality(Removable) \in Nat
      /\ Cardinality(out) <= Cardinality(byKey)
      /\ Cardinality(byKey \ out) = Cardinality(byKey) - Cardinality(out)
  <2>1. IsFiniteSet(out) /\ IsFiniteSet(Removable) /\ IsFiniteSet(byKey \ out)
    BY <1>3, FS_Subset
  <2>2. byKey \cap out = out
    BY <1>3
  <2> QED
    BY <1>3, <2>1, <2>2, FS_Difference, FS_CardinalityType, FS_Subset
<1>5. new \notin byKey \ out
  BY <1>2, <1>3
<1>6. /\ IsFiniteSet(byKey') /\ Cardinality(byKey') = Cardinality(byKey) - Cardinality(out) + 1
      /\ preparedLength' = Cardinality(byKey')
  BY <1>1, <1>3, <1>4, <1>5, FS_AddElement
<1>7. \A i \in DOMAIN infos : HasId(i)' = HasId(i)
  BY <1>2 DEF HasId
<1>8. \A i : i = new => ~HasId(i)'
  BY <1>2 DEF HasId
<1>9. StatementsPlaced'
  <2>1. \A i \in DOMAIN infos : i \in out => HasId(i)'
    BY <1>7 DEF Removable
  <2>2. \A i \in DOMAIN infos' : i \in byKey' \/ infos'[i].cleared \/ HasId(i)'
    BY <1>1, <1>2, <1>7, <2>1 DEF PreparedInv, StatementsPlaced
  <2> QED
    BY <1>1, <1>2, <1>3, <1>6, <2>2 DEF StatementsPlaced
<1>10. ByIdMeansByKey'
  <2>1. \A i \in byKey : infos[i].key # key
    BY DEF GetOrAdd, Known
  <2>2. \A i, j \in byKey' : infos'[i].key = infos'[j].key => i = j
    BY <1>1, <1>2, <1>3, <2>1 DEF PreparedInv, PreparedBounded, ByIdMeansByKey
  <2>3. \A i \in byId' : i \in byKey' \/ infos'[i].cleared
    BY <1>1, <1>2, <1>3 DEF PreparedInv, PreparedBounded, ByIdMeansByKey
  <2>4. \A i \in byKey' : HasId(i)' => i \in byId'
    BY <1>1, <1>2, <1>3, <1>7, <1>8 DEF PreparedInv, PreparedBounded, ByIdMeansByKey
  <2> QED
    BY <1>6, <2>2, <2>3, <2>4 DEF ByIdMeansByKey
<1>11. ASSUME preparedLength' > MaxPrepared
       PROVE  \A i \in byKey' : ~HasId(i)'
  <2>1. MaxPrepared \in Nat
    BY PreparedAssumption
  <2>2. CASE preparedLength < MaxPrepared
    <3>1. out = {}
      BY <1>1, <2>2 DEF Evicts
    <3>2. Cardinality(out) = 0
      BY <3>1, FS_EmptySet
    <3> QED
      BY <1>1, <1>3, <1>4, <1>11, <2>1, <2>2, <3>2
  <2>3. CASE ~(preparedLength < MaxPrepared)
    <3>1. OldestRemovable(out, preparedLength - MaxPrepared + 1)
      BY <1>1, <2>3 DEF Evicts
    <3>2. Cardinality(out) = Cardinality(Removable)
      BY <1>1, <1>3, <1>4, <1>11, <2>1, <2>3, <3>1 DEF OldestRemovable
    <3>3. out = Removable
      BY <1>1, <1>4, <3>2, FS_Subset
    <3> QED
      BY <1>1, <1>3, <1>7, <1>8, <3>3 DEF Removable
  <2> QED
    BY <2>2, <2>3
<1> QED
  BY <1>9, <1>10, <1>11 DEF PreparedInv, PreparedBounded

\* A statement gets its queryId, in the cache or after it was cleared.
LEMMA SetByIdKeeps ==
    ASSUME PreparedInv, NEW i \in DOMAIN infos, SetById(i)
    PROVE  PreparedInv'
<1> DEFINE ready == [infos[i] EXCEPT !.prepared = TRUE]
<1>1. infos \in Seq(Statements) /\ infos[i] \in Statements
  BY DEF PreparedInv, StatementsPlaced
<1>2. /\ infos' = [infos EXCEPT ![i] = ready] /\ ready \in Statements
      /\ ready.key = infos[i].key /\ ready.cleared = infos[i].cleared /\ ready.prepared = TRUE
  BY <1>1 DEF SetById, Statements
<1> HIDE DEF ready
<1>3. /\ infos' \in Seq(Statements) /\ DOMAIN infos' = DOMAIN infos
      /\ infos'[i] = ready /\ \A j \in DOMAIN infos : j # i => infos'[j] = infos[j]
  BY <1>1, <1>2
<1>4. ~HasId(i) /\ byId' = byId \union {i} /\ addedLast' = 0 /\ UNCHANGED <<byKey, preparedLength>>
  BY DEF SetById
<1>5. \A j \in DOMAIN infos : HasId(j)' <=> HasId(j) \/ j = i
  BY <1>2, <1>3 DEF HasId
<1>6. i \in byKey \/ infos[i].cleared
  BY <1>4 DEF PreparedInv, StatementsPlaced
<1>7. StatementsPlaced'
  BY <1>2, <1>3, <1>4, <1>5 DEF PreparedInv, StatementsPlaced
<1>8. PreparedBounded'
  BY <1>2, <1>3, <1>4, <1>5, <1>6 DEF PreparedInv, StatementsPlaced, PreparedBounded, ByIdMeansByKey
<1> QED
  BY <1>7, <1>8 DEF PreparedInv

\* The cache is cleared.
LEMMA ClearKeeps ==
    ASSUME PreparedInv, ClearPrepared
    PROVE  PreparedInv'
<1>1. /\ infos \in Seq(Statements) /\ infos' = [i \in DOMAIN infos |-> [infos[i] EXCEPT !.cleared = TRUE]]
      /\ \A i \in DOMAIN infos : infos[i] \in Statements
  BY DEF PreparedInv, StatementsPlaced, ClearPrepared
<1>2. \A i \in DOMAIN infos : infos'[i] \in Statements /\ infos'[i].cleared = TRUE
  BY <1>1 DEF Statements
<1>3. infos' \in Seq(Statements) /\ DOMAIN infos' = DOMAIN infos
  BY <1>1, <1>2
<1>4. /\ byKey' = {} /\ byId' = {} /\ preparedLength' = 0 /\ addedLast' = 0
      /\ IsFiniteSet({}) /\ Cardinality({}) = 0
  BY FS_EmptySet DEF ClearPrepared
<1> QED
  BY <1>2, <1>3, <1>4 DEF PreparedInv, StatementsPlaced, PreparedBounded, ByIdMeansByKey

\* The cache of prepared statements never has more than its maximum after getOrAdd(), unless
\* all of them are still being prepared; its two maps and its length agree.
THEOREM PreparedIsBounded == PreparedSpec => []PreparedBounded
<1>1. PreparedInit => PreparedInv
  BY FS_EmptySet DEF PreparedInit, PreparedInv, StatementsPlaced, PreparedBounded, ByIdMeansByKey
<1>2. PreparedInv /\ [PreparedNext]_preparedVars => PreparedInv'
  <2> SUFFICES ASSUME PreparedInv, [PreparedNext]_preparedVars
               PROVE  PreparedInv'
    OBVIOUS
  <2>1. ASSUME NEW key \in Queries, GetOrAdd(key)
        PROVE  PreparedInv'
    BY <2>1, GetOrAddKeeps
  <2>2. ASSUME NEW i \in DOMAIN infos, SetById(i)
        PROVE  PreparedInv'
    BY <2>2, SetByIdKeeps
  <2>3. CASE ClearPrepared
    BY <2>3, ClearKeeps
  <2>4. CASE UNCHANGED preparedVars
    BY <2>4 DEF preparedVars, PreparedInv, StatementsPlaced, PreparedBounded, ByIdMeansByKey, HasId
  <2> QED
    BY <2>1, <2>2, <2>3, <2>4 DEF PreparedNext
<1>3. PreparedInv => PreparedBounded
  BY DEF PreparedInv
<1> QED
  BY <1>1, <1>2, <1>3, PTL DEF PreparedSpec

-----------------------------------------------------------------------------
(* The event debouncer.                                                    *)

(* What the code relies on when it processes a queue: every queued event   *)
(* is under the keyspace it is about, the event kept as the main one has   *)
(* the scope of what it stands for, and without a full refresh the         *)
(* keyspaces hold every callback.                                          *)
Shape(q, sc) ==
    /\ \A e \in q.callbacks : sc[e] # None
    /\ \A k \in Keyspaces : \A e \in q.keyspaces[k].events :
          e \in q.callbacks /\ sc[e].keyspace = k
    /\ \A k \in Keyspaces : q.keyspaces[k].mainEvent # None =>
          /\ sc[q.keyspaces[k].mainEvent] # None
          /\ sc[q.keyspaces[k].mainEvent].kind = "keyspace"
          /\ sc[q.keyspaces[k].mainEvent].keyspace = k
    /\ q.mainEvent # None => sc[q.mainEvent] # None /\ sc[q.mainEvent].kind = "all"
    /\ q.mainEvent = None =>
          \A e \in q.callbacks : \E k \in Keyspaces : e \in q.keyspaces[k].events

Queued(e) == queue # None /\ e \in queue.callbacks
InJob(e) == \E j \in jobs : e \in j.callbacks

(* The inductive form of CallbackHeldOnce. *)
Custody ==
    /\ \A e \in Events : calls[e] > 0 \/ InJob(e) => scope[e] # None
    /\ \A e \in Events : scope[e] # None /\ calls[e] = 0 => Queued(e) \/ InJob(e)
    /\ \A e \in Events : Queued(e) => calls[e] = 0 /\ ~InJob(e)
    /\ \A e \in Events : InJob(e) => calls[e] = 0
    /\ \A j1, j2 \in jobs : \A e \in j1.callbacks : e \in j2.callbacks => j1 = j2

(* The inductive form of AnswerIsFresh. *)
Freshness ==
    /\ \A j \in jobs : \A e \in j.callbacks : e \in fresh
    /\ \A e \in Events : outcome[e] \in {"ok", "error"} => e \in fresh

Inv ==
    /\ TypeOK
    /\ TimerServesQueue
    /\ queue # None => Shape(queue, scope)
    /\ Custody
    /\ Freshness

(* The queue that eventReceived creates. *)
LEMMA EmptyQueueShape ==
    ASSUME NEW sc
    PROVE  EmptyQueue \in Queues /\ Shape(EmptyQueue, sc) /\ EmptyQueue.callbacks = {}
  <1>1. EmptyQueue.callbacks = {} /\ EmptyQueue.mainEvent = None
    BY DEF EmptyQueue
  <1>2. \A k \in Keyspaces : /\ EmptyQueue.keyspaces[k].events = {}
                             /\ EmptyQueue.keyspaces[k].mainEvent = None
    BY DEF EmptyQueue
  <1>3. EmptyQueue \in Queues
    BY DEF EmptyQueue, Queues
  <1> QED
    BY <1>1, <1>2, <1>3 DEF Shape

(* Adding an event keeps the queue in shape and adds exactly its callback. *)
LEMMA EnqueuedShape ==
    ASSUME NEW q \in Queues, NEW sc \in [Events -> Scopes \cup {None}], Shape(q, sc),
           NEW e \in Events, sc[e] = None, NEW s \in Scopes
    PROVE  /\ Enqueued(q, e, s) \in Queues
           /\ Enqueued(q, e, s).callbacks = q.callbacks \cup {e}
           /\ Shape(Enqueued(q, e, s), [sc EXCEPT ![e] = s])
  <1> DEFINE r == Enqueued(q, e, s)
             sd == [sc EXCEPT ![e] = s]
             main == MainEvent(q, e, s)
  <1> USE NoneIsNothingElse
  <1>1. /\ r.callbacks = q.callbacks \cup {e}
        /\ r.mainEvent = main
        /\ main \in Events \cup {None}
    BY DEF Enqueued, Queues, Scopes, MainEvent
  <1>2. CASE main # None
    <2>1. r.keyspaces = q.keyspaces
      BY <1>2 DEF Enqueued, KeyspaceEntries
    <2>2. r \in Queues
      <3>1. r = [mainEvent |-> main, callbacks |-> q.callbacks \cup {e}, keyspaces |-> q.keyspaces]
        BY <1>2 DEF Enqueued, KeyspaceEntries
      <3> QED
        BY <1>1, <3>1 DEF Queues
    <2>3. \A f \in Events : sd[f] = IF f = e THEN s ELSE sc[f]
      OBVIOUS
    <2>4. \A k \in Keyspaces : q.keyspaces[k].events \subseteq Events
                               /\ q.keyspaces[k].mainEvent \in Events \cup {None}
      BY DEF Queues
    <2>5. q.callbacks \subseteq Events /\ q.mainEvent \in Events \cup {None}
      BY DEF Queues
    <2>6. s # None /\ e # None
      OBVIOUS
    <2>7. \A f \in r.callbacks : sd[f] # None
      BY <1>1, <2>3, <2>5, <2>6 DEF Shape
    <2>8. \A k \in Keyspaces : \A f \in r.keyspaces[k].events :
            f \in r.callbacks /\ sd[f].keyspace = k
      BY <1>1, <2>1, <2>3, <2>4 DEF Shape
    <2>9. \A k \in Keyspaces : r.keyspaces[k].mainEvent # None =>
            /\ sd[r.keyspaces[k].mainEvent] # None
            /\ sd[r.keyspaces[k].mainEvent].kind = "keyspace"
            /\ sd[r.keyspaces[k].mainEvent].keyspace = k
      BY <2>1, <2>3, <2>4 DEF Shape
    <2>10. sd[r.mainEvent] # None /\ sd[r.mainEvent].kind = "all"
      BY <1>1, <1>2, <2>3, <2>5, <2>6 DEF Shape, MainEvent
    <2> QED
      BY <1>1, <1>2, <2>2, <2>7, <2>8, <2>9, <2>10 DEF Shape
  <1>3. CASE main = None
    <2>1. s.kind # "all" /\ q.mainEvent = None /\ s.keyspace \in Keyspaces
      BY <1>3 DEF Scopes, MainEvent
    <2>2. \A k \in Keyspaces : q.keyspaces[k].events \subseteq Events
                               /\ q.keyspaces[k].mainEvent \in Events \cup {None}
      BY DEF Queues
    <2>13. q.keyspaces \in [Keyspaces -> [mainEvent : Events \cup {None}, events : SUBSET Events]]
      BY DEF Queues
    <2>14. r.keyspaces = [q.keyspaces EXCEPT ![s.keyspace] =
                            WithKeyspaceEvent(q.keyspaces[s.keyspace], e, s)]
      BY <1>3 DEF Enqueued, KeyspaceEntries
    <2>3. \A k \in Keyspaces : r.keyspaces[k] =
            IF k = s.keyspace THEN WithKeyspaceEvent(q.keyspaces[k], e, s) ELSE q.keyspaces[k]
      <3> HIDE DEF r
      <3> QED
        BY <2>1, <2>13, <2>14
    <2>4. /\ r.keyspaces[s.keyspace].events = q.keyspaces[s.keyspace].events \cup {e}
          /\ r.keyspaces[s.keyspace].mainEvent =
                IF s.kind = "keyspace" THEN e ELSE q.keyspaces[s.keyspace].mainEvent
          /\ \A k \in Keyspaces \ {s.keyspace} : r.keyspaces[k] = q.keyspaces[k]
      <3>1. r.keyspaces[s.keyspace] = WithKeyspaceEvent(q.keyspaces[s.keyspace], e, s)
        BY <2>1, <2>3
      <3>2. \A k \in Keyspaces \ {s.keyspace} : r.keyspaces[k] = q.keyspaces[k]
        BY <2>3
      <3> HIDE DEF r
      <3> QED
        BY <3>1, <3>2 DEF WithKeyspaceEvent
    <2> HIDE DEF r
    <2>5. r \in Queues
      <3>1. WithKeyspaceEvent(q.keyspaces[s.keyspace], e, s)
              \in [mainEvent : Events \cup {None}, events : SUBSET Events]
        BY <2>1, <2>2 DEF WithKeyspaceEvent
      <3>2. r.keyspaces \in [Keyspaces -> [mainEvent : Events \cup {None}, events : SUBSET Events]]
        BY <2>1, <2>13, <2>14, <3>1
      <3>3. r = [mainEvent |-> main, callbacks |-> q.callbacks \cup {e}, keyspaces |-> r.keyspaces]
        BY DEF Enqueued, r
      <3> QED
        BY <1>1, <3>2, <3>3 DEF Queues
    <2>6. \A f \in Events : sd[f] = IF f = e THEN s ELSE sc[f]
      OBVIOUS
    <2>7. q.callbacks \subseteq Events /\ s # None
      BY DEF Queues
    <2>8. \A f \in r.callbacks : sd[f] # None
      BY <1>1, <2>6, <2>7 DEF Shape
    <2> HIDE DEF sd
    <2>9. ASSUME NEW k \in Keyspaces, NEW f \in r.keyspaces[k].events
          PROVE  f \in r.callbacks /\ sd[f].keyspace = k
      <3>1. CASE f \in q.keyspaces[k].events
        <4>1. f \in q.callbacks /\ sc[f].keyspace = k /\ sc[f] # None /\ f \in Events
          BY <2>2, <3>1 DEF Shape
        <4> QED
          BY <1>1, <2>6, <4>1
      <3>2. CASE f = e /\ k = s.keyspace
        BY <1>1, <2>6, <3>2
      <3>3. CASE k # s.keyspace
        BY <2>4, <3>1, <3>3
      <3> QED
        BY <2>4, <3>1, <3>2, <3>3
    <2>10. ASSUME NEW k \in Keyspaces, r.keyspaces[k].mainEvent # None
           PROVE  /\ sd[r.keyspaces[k].mainEvent] # None
                  /\ sd[r.keyspaces[k].mainEvent].kind = "keyspace"
                  /\ sd[r.keyspaces[k].mainEvent].keyspace = k
      <3>1. CASE r.keyspaces[k].mainEvent = q.keyspaces[k].mainEvent
        <4>1. /\ sc[q.keyspaces[k].mainEvent] # None
              /\ sc[q.keyspaces[k].mainEvent].kind = "keyspace"
              /\ sc[q.keyspaces[k].mainEvent].keyspace = k
          BY <2>10, <3>1 DEF Shape
        <4>2. q.keyspaces[k].mainEvent \in Events /\ q.keyspaces[k].mainEvent # e
          BY <2>2, <2>10, <3>1, <4>1
        <4> QED
          BY <2>6, <3>1, <4>1, <4>2
      <3>2. CASE k = s.keyspace /\ s.kind = "keyspace" /\ r.keyspaces[k].mainEvent = e
        BY <2>6, <2>7, <3>2
      <3> QED
        BY <2>4, <3>1, <3>2
    <2>11. ASSUME NEW f \in r.callbacks
           PROVE  \E k \in Keyspaces : f \in r.keyspaces[k].events
      <3>1. CASE f = e
        BY <2>1, <2>4, <3>1
      <3>2. CASE f \in q.callbacks
        <4>1. PICK k \in Keyspaces : f \in q.keyspaces[k].events
          BY <2>1, <3>2 DEF Shape
        <4>2. f \in r.keyspaces[k].events
          BY <2>4, <4>1
        <4> QED
          BY <4>2
      <3> QED
        BY <1>1, <3>1, <3>2
    <2>12. Shape(r, sd)
      BY <1>1, <1>3, <2>8, <2>9, <2>10, <2>11 DEF Shape
    <2> QED
      BY <1>1, <2>5, <2>12 DEF r, sd
  <1> QED
    BY <1>2, <1>3

(* processQueue divides the callbacks of a queue between the handlers it   *)
(* runs: every callback has one, and the handler covers its event.         *)
LEMMA Division ==
    ASSUME NEW q \in Queues, NEW sc \in [Events -> Scopes \cup {None}], Shape(q, sc)
    PROVE  /\ StartedJobs(q) \subseteq Jobs
           /\ HandledNow(q) \subseteq q.callbacks
           /\ \A j \in StartedJobs(q) : \A e \in j.callbacks :
                 /\ e \in q.callbacks /\ e \notin HandledNow(q)
                 /\ e \in CoveredBy(j.handler, sc)
           /\ \A e \in q.callbacks :
                 e \in HandledNow(q) \/ \E j \in StartedJobs(q) : e \in j.callbacks
           /\ \A j1, j2 \in StartedJobs(q) : \A e \in j1.callbacks :
                 e \in j2.callbacks => j1 = j2
  <1> USE NoneIsNothingElse
  <1>1. CASE q.mainEvent # None
    <2>1. StartedJobs(q) = {[handler |-> q.mainEvent, callbacks |-> q.callbacks]}
          /\ HandledNow(q) = {}
      BY <1>1 DEF StartedJobs, HandledNow
    <2>2. [handler |-> q.mainEvent, callbacks |-> q.callbacks] \in Jobs
      BY <1>1 DEF Queues, Jobs
    <2>3. \A e \in q.callbacks : e \in CoveredBy(q.mainEvent, sc)
      BY <1>1 DEF Shape, CoveredBy, Queues
    <2> QED
      BY <2>1, <2>2, <2>3
  <1>2. CASE q.mainEvent = None
    <2>1. StartedJobs(q) = {[handler |-> q.keyspaces[k].mainEvent,
                             callbacks |-> q.keyspaces[k].events] : k \in Refreshed(q)}
      BY <1>2 DEF StartedJobs
    <2>2. \A e : e \in HandledNow(q) <=>
                   \E k \in Keyspaces \ Refreshed(q) : e \in q.keyspaces[k].events
      BY <1>2 DEF HandledNow
    <2>3. \A k \in Refreshed(q) : k \in Keyspaces /\ q.keyspaces[k].mainEvent # None
      BY DEF Refreshed
    <2>4. \A k \in Keyspaces : q.keyspaces[k].events \subseteq Events
                               /\ q.keyspaces[k].mainEvent \in Events \cup {None}
      BY DEF Queues
    <2>5. StartedJobs(q) \subseteq Jobs
      BY <2>1, <2>3, <2>4 DEF Jobs
    <2>6. HandledNow(q) \subseteq q.callbacks
      BY <2>2 DEF Shape
    <2>7. \A j \in StartedJobs(q) : \A e \in j.callbacks :
                 /\ e \in q.callbacks /\ e \notin HandledNow(q)
                 /\ e \in CoveredBy(j.handler, sc)
      <3> SUFFICES ASSUME NEW k \in Refreshed(q), NEW e \in q.keyspaces[k].events
                   PROVE  /\ e \in q.callbacks /\ e \notin HandledNow(q)
                          /\ e \in CoveredBy(q.keyspaces[k].mainEvent, sc)
        BY <2>1
      <3>1. k \in Keyspaces /\ q.keyspaces[k].mainEvent # None
        BY <2>3
      <3>2. e \in q.callbacks /\ sc[e].keyspace = k /\ sc[e] # None /\ e \in Events
        BY <2>4, <3>1 DEF Shape
      <3>3. e \notin HandledNow(q)
        BY <2>2, <3>2 DEF Shape
      <3>4. e \in CoveredBy(q.keyspaces[k].mainEvent, sc)
        BY <3>1, <3>2 DEF Shape, CoveredBy
      <3> QED
        BY <3>2, <3>3, <3>4
    <2>8. \A e \in q.callbacks :
                 e \in HandledNow(q) \/ \E j \in StartedJobs(q) : e \in j.callbacks
      <3> SUFFICES ASSUME NEW e \in q.callbacks, e \notin HandledNow(q)
                   PROVE  \E j \in StartedJobs(q) : e \in j.callbacks
        OBVIOUS
      <3>1. PICK k \in Keyspaces : e \in q.keyspaces[k].events
        BY <1>2 DEF Shape
      <3>2. k \in Refreshed(q)
        BY <2>2, <3>1
      <3>3. [handler |-> q.keyspaces[k].mainEvent, callbacks |-> q.keyspaces[k].events]
              \in StartedJobs(q)
        BY <2>1, <3>2
      <3> QED
        BY <3>1, <3>3
    <2>9. \A j1, j2 \in StartedJobs(q) : \A e \in j1.callbacks :
                 e \in j2.callbacks => j1 = j2
      <3> SUFFICES ASSUME NEW k1 \in Refreshed(q), NEW k2 \in Refreshed(q),
                          NEW e \in q.keyspaces[k1].events, e \in q.keyspaces[k2].events
                   PROVE  k1 = k2
        BY <2>1
      <3> QED
        BY <2>3 DEF Shape
    <2> QED
      BY <2>5, <2>6, <2>7, <2>8, <2>9
  <1> QED
    BY <1>1, <1>2

-----------------------------------------------------------------------------
(* Invoke on its own: the outcome and the count of exactly the given       *)
(* events change.                                                          *)
LEMMA InvokeEffect ==
    ASSUME NEW es, NEW how, Invoke(es, how),
           outcome \in [Events -> {"pending", "ok", "error", "shutdown"}],
           calls \in [Events -> 0..1], \A e \in Events : e \in es => calls[e] = 0,
           how \in {"ok", "error", "shutdown"}
    PROVE  /\ outcome' \in [Events -> {"pending", "ok", "error", "shutdown"}]
           /\ calls' \in [Events -> 0..1]
           /\ \A e \in Events : e \in es => outcome'[e] = how /\ calls'[e] = 1
           /\ \A e \in Events : e \notin es => outcome'[e] = outcome[e] /\ calls'[e] = calls[e]
  BY DEF Invoke

(* Detaching and processing a queue keeps custody and freshness, when the  *)
(* callbacks of the queue are exactly the events that nobody else holds.   *)
LEMMA ProcessKeeps ==
    ASSUME TypeOK, Custody, Freshness,
           NEW q \in Queues, NEW sc \in [Events -> Scopes \cup {None}], Shape(q, sc),
           \A e \in Events : scope[e] # None => sc[e] # None,
           \A e \in q.callbacks : calls[e] = 0 /\ ~InJob(e),
           \A e \in Events : sc[e] # None /\ calls[e] = 0 => e \in q.callbacks \/ InJob(e),
           scope' = sc, timers' \subseteq Events, Process(q, sc)
    PROVE  TypeOK' /\ Custody' /\ Freshness' /\ queue' = None
  <1> DEFINE S == StartedJobs(q)
             H == HandledNow(q)
  <1>1. /\ S \subseteq Jobs
        /\ H \subseteq q.callbacks
        /\ \A j \in S : \A e \in j.callbacks :
              e \in q.callbacks /\ e \notin H /\ e \in CoveredBy(j.handler, sc)
        /\ \A e \in q.callbacks : e \in H \/ \E j \in S : e \in j.callbacks
        /\ \A j1, j2 \in S : \A e \in j1.callbacks : e \in j2.callbacks => j1 = j2
    BY Division
  <1>2. /\ queue' = None /\ timeout' = None
        /\ jobs' = jobs \cup S
        /\ Invoke(H, "ok")
        /\ fresh' = fresh \cup H \cup UNION {CoveredBy(j.handler, sc) : j \in S}
    BY DEF Process, ProcessQueue
  <1> HIDE DEF S, H
  <1>3. q.callbacks \subseteq Events
    BY DEF Queues
  <1>4. /\ outcome' \in [Events -> {"pending", "ok", "error", "shutdown"}]
        /\ calls' \in [Events -> 0..1]
        /\ \A e \in Events : e \in H => outcome'[e] = "ok" /\ calls'[e] = 1
        /\ \A e \in Events : e \notin H => outcome'[e] = outcome[e] /\ calls'[e] = calls[e]
    <2>1. \A e \in Events : e \in H => calls[e] = 0
      BY <1>1
    <2> QED
      BY <1>2, <2>1, InvokeEffect DEF TypeOK
  <1>5. \A h : CoveredBy(h, sc) \subseteq Events
    BY DEF CoveredBy
  <1>6. TypeOK'
    <2>1. jobs' \subseteq Jobs
      BY <1>1, <1>2 DEF TypeOK
    <2>2. fresh' \subseteq Events
      BY <1>1, <1>2, <1>3, <1>5 DEF TypeOK
    <2> QED
      BY <1>2, <1>4, <2>1, <2>2 DEF TypeOK
  <1>7. \A e : InJob(e)' <=> InJob(e) \/ \E j \in S : e \in j.callbacks
    BY <1>2 DEF InJob
  <1>8. Custody'
    <2>1. \A e \in Events : (calls[e] > 0 \/ InJob(e))' => scope'[e] # None
      <3> SUFFICES ASSUME NEW e \in Events, calls'[e] > 0 \/ InJob(e)'
                   PROVE  sc[e] # None
        OBVIOUS
      <3>1. CASE e \in q.callbacks
        BY <3>1 DEF Shape
      <3>2. CASE e \notin q.callbacks
        <4>1. e \notin H /\ ~\E j \in S : e \in j.callbacks
          BY <1>1, <3>2
        <4>2. calls[e] > 0 \/ InJob(e)
          BY <1>4, <1>7, <4>1
        <4> QED
          BY <4>2 DEF Custody
      <3> QED
        BY <3>1, <3>2
    <2>2. \A e \in Events : scope'[e] # None /\ calls'[e] = 0 => InJob(e)'
      <3> SUFFICES ASSUME NEW e \in Events, sc[e] # None, calls'[e] = 0
                   PROVE  InJob(e)'
        OBVIOUS
      <3>1. e \notin H /\ calls[e] = 0
        BY <1>4
      <3>2. e \in q.callbacks \/ InJob(e)
        BY <3>1
      <3> QED
        BY <1>1, <1>7, <3>1, <3>2
    <2>3. \A e \in Events : InJob(e)' => calls'[e] = 0
      <3> SUFFICES ASSUME NEW e \in Events, InJob(e)'
                   PROVE  calls'[e] = 0
        OBVIOUS
      <3>1. CASE InJob(e)
        <4>1. e \notin q.callbacks /\ calls[e] = 0
          BY <3>1 DEF Custody
        <4> QED
          BY <1>1, <1>4, <4>1
      <3>2. CASE \E j \in S : e \in j.callbacks
        <4>1. e \in q.callbacks /\ e \notin H
          BY <1>1, <3>2
        <4> QED
          BY <1>4, <4>1
      <3> QED
        BY <1>7, <3>1, <3>2
    <2>4. \A j1, j2 \in jobs' : \A e \in j1.callbacks : e \in j2.callbacks => j1 = j2
      <3> SUFFICES ASSUME NEW j1 \in jobs \cup S, NEW j2 \in jobs \cup S,
                          NEW e \in j1.callbacks, e \in j2.callbacks
                   PROVE  j1 = j2
        BY <1>2
      <3>1. CASE j1 \in jobs /\ j2 \in jobs
        BY <3>1 DEF Custody
      <3>2. CASE j1 \in S /\ j2 \in S
        BY <1>1, <3>2
      <3>3. CASE (j1 \in S /\ j2 \in jobs) \/ (j1 \in jobs /\ j2 \in S)
        <4>1. e \in q.callbacks /\ InJob(e)
          BY <1>1, <3>3 DEF InJob
        <4> QED
          BY <4>1
      <3> QED
        BY <3>1, <3>2, <3>3
    <2>5. \A e : ~Queued(e)'
      BY <1>2 DEF Queued
    <2> QED
      BY <2>1, <2>2, <2>3, <2>4, <2>5 DEF Custody
  <1>9. Freshness'
    <2>1. \A j \in jobs' : \A e \in j.callbacks : e \in fresh'
      <3> SUFFICES ASSUME NEW j \in jobs', NEW e \in j.callbacks
                   PROVE  e \in fresh'
        OBVIOUS
      <3>1. CASE j \in jobs
        BY <1>2, <3>1 DEF Freshness
      <3>2. CASE j \in S
        BY <1>1, <1>2, <3>2
      <3> QED
        BY <1>2, <3>1, <3>2
    <2>2. \A e \in Events : outcome'[e] \in {"ok", "error"} => e \in fresh'
      BY <1>2, <1>4 DEF Freshness
    <2> QED
      BY <2>1, <2>2 DEF Freshness
  <1> QED
    BY <1>2, <1>6, <1>8, <1>9

(* Inv holds initially. *)
LEMMA InvInit == Init => Inv
  <1> SUFFICES ASSUME Init PROVE Inv
    OBVIOUS
  <1>1. TypeOK /\ TimerServesQueue
    BY DEF Init, TypeOK, TimerServesQueue
  <1>2. Custody /\ Freshness
    BY DEF Init, Custody, Freshness, Queued, InJob
  <1> QED
    BY <1>1, <1>2 DEF Init, Inv

(* Every step of the debouncer keeps Inv. *)
LEMMA InvStep == Inv /\ [Next]_vars => Inv'
  <1> SUFFICES ASSUME Inv, [Next]_vars
               PROVE  Inv'
    OBVIOUS
  <1> USE NoneIsNothingElse
  <1>1. TypeOK /\ TimerServesQueue /\ Custody /\ Freshness
        /\ (queue # None => Shape(queue, scope) /\ queue \in Queues /\ timeout \in Events)
    BY DEF Inv, TypeOK, TimerServesQueue
  <1>2. ASSUME NEW e \in Events, NEW s \in Scopes, NEW now \in BOOLEAN,
               EventReceived(e, s, now)
        PROVE  Inv'
    <2> DEFINE old == IF queue = None THEN EmptyQueue ELSE queue
               q == Enqueued(old, e, s)
               received == [scope EXCEPT ![e] = s]
    <2>1. old \in Queues /\ Shape(old, scope)
      BY <1>1, EmptyQueueShape
    <2>2. \A f \in Events : f \in old.callbacks <=> Queued(f)
      BY EmptyQueueShape DEF Queued
    <2>3. scope[e] = None /\ scope' = received /\ scope \in [Events -> Scopes \cup {None}]
      BY <1>1, <1>2 DEF EventReceived, TypeOK
    <2> HIDE DEF old
    <2>4. q \in Queues /\ q.callbacks = old.callbacks \cup {e} /\ Shape(q, received)
      BY <2>1, <2>3, EnqueuedShape
    <2>5. /\ received \in [Events -> Scopes \cup {None}]
          /\ \A f \in Events : received[f] = IF f = e THEN s ELSE scope[f]
          /\ received[e] # None
      BY <2>3
    <2>6. \/ /\ now /\ timers' = timers \ {timeout} /\ Process(q, received)
          \/ /\ ~now /\ queue' = q /\ SlideDelay(e)
             /\ UNCHANGED <<jobs, outcome, calls, fresh>>
      BY <1>2 DEF EventReceived, old
    <2>7. old.callbacks \subseteq Events
      BY <2>1 DEF Queues
    <2> HIDE DEF q, received
    <2>8. ~InJob(e) /\ calls[e] = 0 /\ e \notin old.callbacks
      BY <1>1, <2>1, <2>3 DEF Custody, TypeOK, Shape
    <2>9. CASE Process(q, received) /\ timers' = timers \ {timeout}
      <3>1. \A f \in Events : scope[f] # None => received[f] # None
        BY <2>5
      <3>2. \A f \in q.callbacks : calls[f] = 0 /\ ~InJob(f)
        BY <1>1, <2>2, <2>4, <2>7, <2>8 DEF Custody
      <3>3. \A f \in Events : received[f] # None /\ calls[f] = 0 => f \in q.callbacks \/ InJob(f)
        BY <1>1, <2>2, <2>4, <2>5 DEF Custody
      <3>4. timers' \subseteq Events /\ timers' = {}
        BY <1>1, <2>9 DEF TypeOK, TimerServesQueue
      <3>5. TypeOK' /\ Custody' /\ Freshness' /\ queue' = None
        BY <1>1, <2>3, <2>4, <2>5, <2>9, <3>1, <3>2, <3>3, <3>4, ProcessKeeps
      <3> QED
        BY <3>4, <3>5 DEF Inv, TimerServesQueue
    <2>10. CASE queue' = q /\ SlideDelay(e) /\ UNCHANGED <<jobs, outcome, calls, fresh>>
      <3>1. q # None
        BY <2>4
      <3>2. timeout' = e /\ timers' = {e}
        BY <1>1, <2>10 DEF SlideDelay, TimerServesQueue, TypeOK
      <3>3. TypeOK'
        BY <1>1, <2>3, <2>4, <2>5, <2>10, <3>2 DEF TypeOK
      <3>4. \A f \in Events : /\ Queued(f)' <=> Queued(f) \/ f = e
                              /\ InJob(f)' <=> InJob(f)
                              /\ calls'[f] = calls[f]
        BY <2>2, <2>4, <2>10, <3>1 DEF Queued, InJob
      <3>5. Custody'
        <4>1. \A f \in Events : (calls[f] > 0 \/ InJob(f))' => scope'[f] # None
          BY <1>1, <2>3, <2>5, <3>4 DEF Custody
        <4>2. \A f \in Events : scope'[f] # None /\ calls'[f] = 0 => Queued(f)' \/ InJob(f)'
          BY <1>1, <2>3, <2>5, <3>4 DEF Custody
        <4>3. \A f \in Events : Queued(f)' => calls'[f] = 0 /\ ~InJob(f)'
          BY <1>1, <2>8, <3>4 DEF Custody
        <4>4. \A f \in Events : InJob(f)' => calls'[f] = 0
          BY <1>1, <3>4 DEF Custody
        <4>5. \A j1, j2 \in jobs' : \A f \in j1.callbacks : f \in j2.callbacks => j1 = j2
          BY <1>1, <2>10 DEF Custody
        <4> QED
          BY <4>1, <4>2, <4>3, <4>4, <4>5 DEF Custody
      <3>6. Freshness'
        BY <1>1, <2>10 DEF Freshness
      <3> QED
        BY <2>3, <2>4, <2>10, <3>1, <3>2, <3>3, <3>5, <3>6 DEF Inv, TimerServesQueue
    <2> QED
      BY <2>6, <2>9, <2>10
  <1>3. ASSUME NEW t \in Events, TimerFires(t)
        PROVE  Inv'
    <2>1. queue # None /\ t \in timers /\ timers' = timers \ {t} /\ scope' = scope
          /\ Process(queue, scope)
      BY <1>3 DEF TimerFires
    <2>2. timers' = {}
      BY <1>1, <2>1 DEF TimerServesQueue
    <2>3. \A e \in queue.callbacks : calls[e] = 0 /\ ~InJob(e)
      BY <1>1, <2>1 DEF Custody, Queued, Queues
    <2>4. \A e \in Events : scope[e] # None /\ calls[e] = 0 => e \in queue.callbacks \/ InJob(e)
      BY <1>1 DEF Custody, Queued
    <2>5. scope \in [Events -> Scopes \cup {None}]
      BY <1>1 DEF TypeOK
    <2>6. TypeOK' /\ Custody' /\ Freshness' /\ queue' = None
      BY <1>1, <2>1, <2>2, <2>3, <2>4, <2>5, ProcessKeeps
    <2> QED
      BY <2>2, <2>6 DEF Inv, TimerServesQueue
  <1>4. ASSUME NEW j \in jobs, NEW how \in {"ok", "error"}, HandlerSettles(j, how)
        PROVE  Inv'
    <2>1. /\ jobs' = jobs \ {j}
          /\ Invoke(j.callbacks, how)
          /\ UNCHANGED <<scope, queue, timeout, timers, fresh>>
      BY <1>4 DEF HandlerSettles
    <2>2. j.callbacks \subseteq Events
      BY <1>1 DEF TypeOK, Jobs
    <2>3. \A e \in j.callbacks : InJob(e) /\ calls[e] = 0 /\ e \in fresh /\ ~Queued(e)
                                /\ scope[e] # None
      BY <1>1, <2>2 DEF Custody, InJob, Freshness
    <2>4. /\ outcome' \in [Events -> {"pending", "ok", "error", "shutdown"}]
          /\ calls' \in [Events -> 0..1]
          /\ \A e \in Events : e \in j.callbacks => outcome'[e] = how /\ calls'[e] = 1
          /\ \A e \in Events : e \notin j.callbacks => outcome'[e] = outcome[e] /\ calls'[e] = calls[e]
      BY <1>1, <2>1, <2>3, InvokeEffect DEF TypeOK
    <2>5. TypeOK' /\ TimerServesQueue'
      BY <1>1, <2>1, <2>4 DEF TypeOK, TimerServesQueue
    <2>6. \A e \in Events : InJob(e)' <=> InJob(e) /\ e \notin j.callbacks
      BY <1>1, <2>1 DEF InJob, Custody
    <2>7. \A e \in Events : Queued(e)' <=> Queued(e)
      BY <2>1 DEF Queued
    <2>8. Custody'
      <3>1. \A e \in Events : (calls[e] > 0 \/ InJob(e))' => scope'[e] # None
        BY <1>1, <2>1, <2>3, <2>4, <2>6 DEF Custody
      <3>2. \A e \in Events : scope'[e] # None /\ calls'[e] = 0 => Queued(e)' \/ InJob(e)'
        BY <1>1, <2>1, <2>4, <2>6, <2>7 DEF Custody
      <3>3. \A e \in Events : Queued(e)' => calls'[e] = 0 /\ ~InJob(e)'
        BY <1>1, <2>3, <2>4, <2>6, <2>7 DEF Custody
      <3>4. \A e \in Events : InJob(e)' => calls'[e] = 0
        BY <1>1, <2>4, <2>6 DEF Custody
      <3>5. \A j1, j2 \in jobs' : \A e \in j1.callbacks : e \in j2.callbacks => j1 = j2
        BY <1>1, <2>1 DEF Custody
      <3> QED
        BY <3>1, <3>2, <3>3, <3>4, <3>5 DEF Custody
    <2>9. Freshness'
      BY <1>1, <2>1, <2>3, <2>4 DEF Freshness
    <2> QED
      BY <1>1, <2>1, <2>5, <2>8, <2>9 DEF Inv
  <1>5. ASSUME Shutdown
        PROVE  Inv'
    <2>1. /\ queue # None /\ queue' = None /\ timeout' = None
          /\ Invoke(queue.callbacks, "shutdown")
          /\ timers' = timers \ {timeout}
          /\ UNCHANGED <<scope, jobs, fresh>>
      BY <1>5 DEF Shutdown
    <2>2. queue.callbacks \subseteq Events
      BY <1>1, <2>1 DEF Queues
    <2>3. \A e \in queue.callbacks : calls[e] = 0 /\ ~InJob(e) /\ scope[e] # None
      BY <1>1, <2>1, <2>2 DEF Custody, Queued, Shape
    <2>4. /\ outcome' \in [Events -> {"pending", "ok", "error", "shutdown"}]
          /\ calls' \in [Events -> 0..1]
          /\ \A e \in Events : e \in queue.callbacks => outcome'[e] = "shutdown" /\ calls'[e] = 1
          /\ \A e \in Events : e \notin queue.callbacks => outcome'[e] = outcome[e] /\ calls'[e] = calls[e]
      BY <1>1, <2>1, <2>3, InvokeEffect DEF TypeOK
    <2>5. TypeOK' /\ TimerServesQueue'
      BY <1>1, <2>1, <2>4 DEF TypeOK, TimerServesQueue
    <2>6. \A e \in Events : (InJob(e)' <=> InJob(e)) /\ ~Queued(e)'
      BY <2>1 DEF InJob, Queued
    <2>7. Custody'
      <3>1. \A e \in Events : (calls[e] > 0 \/ InJob(e))' => scope'[e] # None
        BY <1>1, <2>1, <2>3, <2>4, <2>6 DEF Custody
      <3>2. \A e \in Events : scope'[e] # None /\ calls'[e] = 0 => InJob(e)'
        BY <1>1, <2>1, <2>4, <2>6 DEF Custody, Queued
      <3>3. \A e \in Events : InJob(e)' => calls'[e] = 0
        BY <1>1, <2>3, <2>4, <2>6 DEF Custody
      <3>4. \A j1, j2 \in jobs' : \A e \in j1.callbacks : e \in j2.callbacks => j1 = j2
        BY <1>1, <2>1 DEF Custody
      <3> QED
        BY <2>6, <3>1, <3>2, <3>3, <3>4 DEF Custody
    <2>8. Freshness'
      BY <1>1, <2>1, <2>4 DEF Freshness
    <2> QED
      BY <2>1, <2>5, <2>7, <2>8 DEF Inv
  <1>6. CASE UNCHANGED vars
    <2>1. TypeOK' /\ TimerServesQueue'
      BY <1>1, <1>6 DEF vars, TypeOK, TimerServesQueue
    <2>2. Custody' /\ Freshness'
      BY <1>1, <1>6 DEF vars, Custody, Freshness, InJob, Queued
    <2> QED
      BY <1>1, <1>6, <2>1, <2>2 DEF vars, Inv
  <1> QED
    BY <1>2, <1>3, <1>4, <1>5, <1>6 DEF Next

(* The inductive invariant of the debouncer. *)
LEMMA Invariance == Spec => []Inv
  BY InvInit, InvStep, PTL DEF Spec

(* Every field keeps its type, and no callback is invoked twice. *)
THEOREM TypeCorrect == Spec => []TypeOK
  <1>1. Inv => TypeOK
    BY DEF Inv
  <1> QED
    BY <1>1, Invariance, PTL

(* A queue has exactly one armed timer, and no timer runs without a queue. *)
THEOREM TimerAndQueue == Spec => []TimerServesQueue
  <1>1. Inv => TimerServesQueue
    BY DEF Inv
  <1> QED
    BY <1>1, Invariance, PTL

(* Every unanswered event is held by the queue or by exactly one running   *)
(* handler.                                                                *)
THEOREM CallbacksAreKept == Spec => []CallbackHeldOnce
  <1>1. Inv => CallbackHeldOnce
    <2> SUFFICES ASSUME Inv, NEW e \in Events, scope[e] # None
                 PROVE  IF calls[e] > 0
                        THEN ~Queued(e) /\ {j \in jobs : e \in j.callbacks} = {}
                        ELSE IF Queued(e)
                             THEN {j \in jobs : e \in j.callbacks} = {}
                             ELSE \E i \in jobs : {j \in jobs : e \in j.callbacks} = {i}
      BY DEF CallbackHeldOnce, Received, Queued
    <2>1. Custody /\ calls[e] \in 0..1
      BY DEF Inv, TypeOK
    <2>2. CASE calls[e] > 0
      BY <2>1, <2>2 DEF Custody, InJob
    <2>3. CASE calls[e] = 0 /\ Queued(e)
      BY <2>1, <2>3 DEF Custody, InJob
    <2>4. CASE calls[e] = 0 /\ ~Queued(e)
      <3>1. PICK i \in jobs : e \in i.callbacks
        BY <2>1, <2>4 DEF Custody, InJob
      <3>2. {j \in jobs : e \in j.callbacks} = {i}
        BY <2>1, <3>1 DEF Custody
      <3> QED
        BY <2>4, <3>1, <3>2
    <2> QED
      BY <2>1, <2>2, <2>3, <2>4
  <1> QED
    BY <1>1, Invariance, PTL

(* No callback of a received event is lost: what is queued has its timer   *)
(* and what is not queued has its handler.                                 *)
THEOREM CallbacksAreServed == Spec => []CallbacksServed
  <1>1. TimerServesQueue /\ CallbackHeldOnce => CallbacksServed
    BY DEF CallbacksServed
  <1> QED
    BY <1>1, TimerAndQueue, CallbacksAreKept, PTL

(* An event reported as handled was covered by a refresh that started      *)
(* after it arrived.                                                       *)
THEOREM AnswersAreFresh == Spec => []AnswerIsFresh
  <1>1. Inv => AnswerIsFresh
    BY DEF Inv, Freshness, AnswerIsFresh, Received
  <1> QED
    BY <1>1, Invariance, PTL

-----------------------------------------------------------------------------
(* The token ring.                                                         *)

\* The tokens of a ring increase.
Increasing(s) == s \in Seq(Tokens) /\ \A i, j \in 1 .. Len(s) : i < j => s[i] < s[j]

\* The numbers of a set, each after those that are smaller, are all there and increase.
LEMMA AscendingIncreases ==
    ASSUME NEW S \in SUBSET Tokens
    PROVE  Increasing(Ascending(S)) /\ {Ascending(S)[i] : i \in 1 .. Len(Ascending(S))} = S
<1> DEFINE Below(t) == {u \in S : u < t}
           rank == [t \in S |-> Cardinality(Below(t))]
           n == Cardinality(S)
           s == Ascending(S)
<1>1. MaxToken \in Nat /\ \A t \in S : t \in Nat
  BY RingAssumption DEF Tokens
<1>2. IsFiniteSet(S)
  <2>1. IsFiniteSet(0 .. MaxToken)
    BY <1>1, FS_Interval
  <2> QED
    BY <2>1, FS_Subset DEF Tokens
<1>3. n \in Nat
  BY <1>2, FS_CardinalityType
<1>4. ASSUME NEW t \in S PROVE rank[t] \in 0 .. n - 1
  <2>1. Below(t) \in SUBSET S /\ t \notin Below(t)
    BY <1>1
  <2>2. IsFiniteSet(Below(t)) /\ Cardinality(Below(t)) <= n /\ Cardinality(Below(t)) # n
    BY <1>2, <2>1, FS_Subset
  <2>3. Cardinality(Below(t)) \in Nat
    BY <2>2, FS_CardinalityType
  <2> HIDE DEF n, Below
  <2> QED
    BY <1>3, <2>2, <2>3
<1>5. ASSUME NEW t \in S, NEW u \in S, t < u PROVE rank[t] < rank[u]
  <2>1. Below(u) \in SUBSET S /\ Below(t) \in SUBSET Below(u) /\ t \in Below(u) /\ t \notin Below(t)
    BY <1>1, <1>5
  <2>2. IsFiniteSet(Below(u))
    BY <1>2, <2>1, FS_Subset
  <2>3. Cardinality(Below(t)) <= Cardinality(Below(u)) /\ Cardinality(Below(t)) # Cardinality(Below(u))
    BY <2>1, <2>2, FS_Subset
  <2>4. rank[t] \in Nat /\ rank[u] \in Nat /\ rank[t] = Cardinality(Below(t)) /\ rank[u] = Cardinality(Below(u))
    BY <1>3, <1>4
  <2> HIDE DEF rank, Below
  <2> QED
    BY <2>3, <2>4
<1>6. rank \in [S -> 0 .. n - 1]
  BY <1>4
<1>7. \A t, u \in S : rank[t] < rank[u] => t < u
  <2> SUFFICES ASSUME NEW t \in S, NEW u \in S, rank[t] < rank[u] PROVE t < u
    OBVIOUS
  <2>1. rank[t] \in Int /\ rank[u] \in Int /\ t \in Nat /\ u \in Nat
    BY <1>1, <1>3, <1>4
  <2>2. ~(u < t) /\ u # t
    <3> HIDE DEF rank
    <3> QED
      BY <1>5, <2>1
  <2> QED
    BY <2>1, <2>2
<1>8. \A i \in 1 .. n : \E t \in S : rank[t] = i - 1
  <2>1. rank \in Injection(S, 0 .. n - 1)
    <3>1. \A t, u \in S : rank[t] = rank[u] => t = u
      <4> SUFFICES ASSUME NEW t \in S, NEW u \in S, rank[t] = rank[u] PROVE t = u
        OBVIOUS
      <4>1. rank[t] \in Int /\ rank[u] \in Int /\ t \in Nat /\ u \in Nat
        BY <1>1, <1>3, <1>4
      <4> HIDE DEF rank
      <4>2. ~(t < u) /\ ~(u < t)
        BY <1>5, <4>1
      <4> QED
        BY <4>1, <4>2
    <3> HIDE DEF rank
    <3> QED
      BY <1>6, <3>1 DEF Injection, IsInjective
  <2> HIDE DEF n, rank
  <2>2. IsFiniteSet(0 .. n - 1) /\ Cardinality(0 .. n - 1) = n
    <3>1. 0 \in Int /\ n - 1 \in Int
      BY <1>3
    <3>2. IsFiniteSet(0 .. n - 1) /\ Cardinality(0 .. n - 1) = IF 0 > n - 1 THEN 0 ELSE n - 1 - 0 + 1
      BY <3>1, FS_Interval
    <3> QED
      BY <1>3, <3>2
  <2>3. rank \in Surjection(S, 0 .. n - 1)
    BY <2>1, <2>2, FS_Injection DEF n
  <2>4. \A k \in 0 .. n - 1 : \E t \in S : rank[t] = k
    BY <2>3 DEF Surjection
  <2>5. \A i \in 1 .. n : i - 1 \in 0 .. n - 1
    BY <1>3
  <2> QED
    BY <2>4, <2>5
<1>9. \A i \in 1 .. n : s[i] \in S /\ rank[s[i]] = i - 1
  <2> SUFFICES ASSUME NEW i \in 1 .. n PROVE s[i] \in S /\ rank[s[i]] = i - 1
    OBVIOUS
  <2>1. \E t \in S : Cardinality({u \in S : u < t}) = i - 1
    BY <1>8
  <2>2. s[i] = CHOOSE t \in S : Cardinality({u \in S : u < t}) = i - 1
    BY DEF Ascending
  <2> QED
    BY <2>1, <2>2
<1>10. s \in Seq(Tokens) /\ Len(s) = n
  <2> DEFINE Item(i) == CHOOSE t \in S : Cardinality({u \in S : u < t}) = i - 1
  <2>1. s = [i \in 1 .. n |-> Item(i)]
    BY DEF Ascending
  <2>2. \A i \in 1 .. n : s[i] \in Tokens
    BY <1>9
  <2> HIDE DEF n, s, Item
  <2>3. s \in [1 .. n -> Tokens]
    BY <2>1, <2>2
  <2> QED
    BY <1>3, <2>3
<1>11. \A i, j \in 1 .. n : i < j => s[i] < s[j]
  <2> HIDE DEF n, s, rank
  <2> SUFFICES ASSUME NEW i \in 1 .. n, NEW j \in 1 .. n, i < j PROVE s[i] < s[j]
    OBVIOUS
  <2>1. rank[s[i]] < rank[s[j]]
    BY <1>3, <1>9
  <2> QED
    BY <1>7, <1>9, <2>1
<1>12. ASSUME NEW t \in S PROVE \E i \in 1 .. n : s[i] = t
  <2> DEFINE i == rank[t] + 1
  <2>1. i \in 1 .. n /\ rank[t] = i - 1 /\ rank[t] \in Int
    BY <1>3, <1>4
  <2>2. s[i] \in S /\ rank[s[i]] = rank[t]
    BY <1>9, <2>1
  <2> HIDE DEF rank, s, i
  <2>3. ~(s[i] < t) /\ ~(t < s[i])
    BY <1>5, <2>1, <2>2
  <2>4. s[i] \in Nat /\ t \in Nat
    BY <1>1, <2>2
  <2> QED
    BY <2>1, <2>3, <2>4
<1> HIDE DEF n, s
<1> QED
  BY <1>9, <1>10, <1>11, <1>12 DEF Increasing, s

\* Remainders of numbers below the divisor, and of those that are once past it.
LEMMA Remainders ==
    ASSUME NEW n \in Nat \ {0}, NEW x \in 0 .. n - 1
    PROVE  x % n = x /\ (x + n) % n = x
<1> DEFINE q == x \div n
           p == (x + n) \div n
<1>1. q \in Nat /\ x % n \in 0 .. n - 1 /\ x = n * q + (x % n)
  OBVIOUS
<1>2. p \in Nat /\ (x + n) % n \in 0 .. n - 1 /\ x + n = n * p + ((x + n) % n)
  OBVIOUS
<1> HIDE DEF q, p
<1>3. ASSUME NEW c \in Nat, c >= 1 PROVE n * c >= n
  <2>1. PICK d \in Nat : c = d + 1
    <3>1. c - 1 \in Nat /\ c = (c - 1) + 1
      BY <1>3
    <3> QED
      BY <3>1
  <2>2. n * c = n * d + n /\ n * d \in Nat
    BY <2>1
  <2> QED
    BY <2>2
<1>4. q = 0
  <2>1. n * q \in Nat
    BY <1>1
  <2>2. q >= 1 => n * q >= n
    BY <1>1, <1>3
  <2> QED
    BY <1>1, <2>1, <2>2
<1>5. p = 1
  <2>1. n * p \in Nat /\ p # 0
    BY <1>2
  <2>2. p - 1 \in Nat /\ n * p = n * (p - 1) + n /\ n * (p - 1) \in Nat
    BY <1>2, <2>1
  <2>3. p - 1 >= 1 => n * (p - 1) >= n
    BY <1>3, <2>2
  <2> QED
    BY <1>2, <2>1, <2>2, <2>3
<1> QED
  BY <1>1, <1>2, <1>4, <1>5

\* How far x is from a, going upwards around the ring: as far as possible to itself.
Apart(a, x) == IF x > a THEN x - a ELSE x - a + MaxToken + 1

\* A range has the tokens that are no farther from its start than its end is, unless it is empty.
LEMMA ContainsNear ==
    ASSUME NEW a \in Tokens, NEW b \in Tokens, NEW t \in Tokens, a # b \/ a = MinToken
    PROVE  contains(TokenRange(a, b), t) <=> Apart(a, t) <= Apart(a, b)
<1>1. MaxToken \in Nat /\ a \in 0 .. MaxToken /\ b \in 0 .. MaxToken /\ t \in 0 .. MaxToken
  BY RingAssumption DEF Tokens
<1> DEFINE r == TokenRange(a, b)
<1>2. r.start = a /\ r.end = b
  BY DEF TokenRange
<1> HIDE DEF r
<1>3. ~isEmpty(r)
  BY <1>2 DEF isEmpty
<1>4. isWrappedAround(r) <=> a > b /\ b # 0
  BY <1>2 DEF isWrappedAround, MinToken
<1>5. CASE b = 0
  <2>1. contains(r, t) <=> a = 0 \/ t = 0 \/ t > a
    BY <1>2, <1>3, <1>5 DEF contains, MinToken
  <2> QED
    BY <1>1, <1>5, <2>1 DEF Apart, r
<1>6. CASE b # 0 /\ a > b
  <2>1. contains(r, t) <=> t > a \/ t <= b
    BY <1>2, <1>3, <1>4, <1>6 DEF contains, MinToken
  <2> QED
    BY <1>1, <1>6, <2>1 DEF Apart, r
<1>7. CASE b # 0 /\ ~(a > b)
  <2>1. contains(r, t) <=> t > a /\ t <= b
    BY <1>2, <1>3, <1>4, <1>7 DEF contains, MinToken
  <2>2. a < b
    BY <1>1, <1>7 DEF MinToken
  <2> QED
    BY <1>1, <2>1, <2>2 DEF Apart, r
<1> QED
  BY <1>5, <1>6, <1>7

\* A set of numbers has a least one.
LEMMA LeastOf ==
    ASSUME NEW S \in SUBSET Nat, S # {}
    PROVE  \E i \in S : \A j \in S : i <= j
<1> DEFINE R == OpToRel(<, Nat)
<1>1. \A x, y : x \in Nat /\ y \in Nat /\ x < y => <<x, y>> \in R
  BY DEF OpToRel
<1>2. IsWellFoundedOn(R, Nat)
  BY NatLessThanWellFounded
<1> HIDE DEF R
<1>3. PICK i \in S : \A j \in S : ~(<<j, i>> \in R)
  BY <1>2, WFMin
<1>4. ASSUME NEW j \in S PROVE i <= j
  <2>1. i \in Nat /\ j \in Nat /\ ~(<<j, i>> \in R)
    BY <1>3
  <2>2. ~(j < i)
    BY <1>1, <2>1
  <2> QED
    BY <2>1, <2>2
<1> QED
  BY <1>4

\* The place after the i-th of a ring.
LEMMA NextPlace ==
    ASSUME NEW n \in Nat \ {0}, NEW i \in 1 .. n
    PROVE  (i % n) + 1 = IF i = n THEN 1 ELSE i + 1
<1>1. CASE i = n
  <2>1. 0 \in 0 .. n - 1
    OBVIOUS
  <2>2. (0 + n) % n = 0
    BY <2>1, Remainders
  <2> QED
    BY <1>1, <2>2
<1>2. CASE i # n
  <2>1. i \in 0 .. n - 1
    BY <1>2
  <2>2. i % n = i
    BY <2>1, Remainders
  <2> QED
    BY <1>2, <2>2
<1> QED
  BY <1>1, <1>2

\* The range that starts with the i-th token of a ring.
RangeFrom(s, i) == TokenRange(s[i], s[(i % Len(s)) + 1])

\* Which tokens it has: those up to the next token of the ring, with the smallest and the
\* greatest ones in the last range.
LEMMA RangeHas ==
    ASSUME NEW s, Increasing(s), Len(s) > 1, NEW i \in 1 .. Len(s), NEW t \in Tokens
    PROVE  /\ contains(RangeFrom(s, i), t) <=>
                  IF i = Len(s) THEN t > s[Len(s)] \/ t <= s[1] ELSE s[i] < t /\ t <= s[i + 1]
           /\ RangeFrom(s, i).end = s[IF i = Len(s) THEN 1 ELSE i + 1]
           /\ RangeFrom(s, i).start # RangeFrom(s, i).end
           /\ RangeFrom(s, i).start \in Tokens /\ RangeFrom(s, i).end \in Tokens
<1> DEFINE n == Len(s)
           j == IF i = n THEN 1 ELSE i + 1
           a == s[i]
           b == s[j]
<1>1. s \in Seq(Tokens) /\ \A k, l \in 1 .. n : k < l => s[k] < s[l]
  BY DEF Increasing
<1>2. n \in Nat /\ n > 1 /\ \A k \in 1 .. n : s[k] \in Tokens
  BY <1>1
<1>3. (i % n) + 1 = j
  <2>1. n \in Nat \ {0} /\ i \in 1 .. n
    BY <1>2
  <2> HIDE DEF n
  <2>2. (i % n) + 1 = IF i = n THEN 1 ELSE i + 1
    BY <2>1, NextPlace
  <2> QED
    BY <2>2
<1>4. RangeFrom(s, i) = TokenRange(a, b)
  BY <1>3 DEF RangeFrom
<1> HIDE DEF n
<1>5. j \in 1 .. n /\ 1 \in 1 .. n /\ n \in 1 .. n /\ i \in 1 .. n
  BY <1>2 DEF n
<1>6. a \in Tokens /\ b \in Tokens /\ a # b /\ (IF i = n THEN b < a ELSE a < b)
  <2>1. a \in Tokens /\ b \in Tokens
    BY <1>2, <1>5
  <2>2. a \in Nat /\ b \in Nat
    BY <2>1, RingAssumption DEF Tokens
  <2>3. IF i = n THEN b < a ELSE a < b
    BY <1>1, <1>2, <1>5
  <2> QED
    BY <2>1, <2>2, <2>3
<1>7. i # n => b = s[i + 1]
  OBVIOUS
<1>8. i = n => b = s[1] /\ a = s[n]
  OBVIOUS
<1> HIDE DEF a, b, j
<1>9. contains(TokenRange(a, b), t) <=> Apart(a, t) <= Apart(a, b)
  BY <1>6, ContainsNear
<1>10. MaxToken \in Nat /\ a \in 0 .. MaxToken /\ b \in 0 .. MaxToken /\ t \in 0 .. MaxToken
  BY <1>6, RingAssumption DEF Tokens
<1>11. contains(TokenRange(a, b), t) <=> IF i = n THEN t > a \/ t <= b ELSE a < t /\ t <= b
  BY <1>6, <1>9, <1>10 DEF Apart
<1>12. TokenRange(a, b).start = a /\ TokenRange(a, b).end = b
  BY DEF TokenRange
<1>13. contains(RangeFrom(s, i), t) <=> IF i = n THEN t > s[n] \/ t <= s[1] ELSE s[i] < t /\ t <= s[i + 1]
  BY <1>4, <1>7, <1>8, <1>11 DEF a
<1> QED
  BY <1>4, <1>6, <1>12, <1>13 DEF n, a, b, j

\* Every token is in the range that ends with the token closest to it, and in no other.
LEMMA OneRange ==
    ASSUME NEW s, Increasing(s), Len(s) > 1, NEW t \in Tokens
    PROVE  \E i \in 1 .. Len(s) :
               /\ contains(RangeFrom(s, i), t) /\ RangeFrom(s, i).end = s[ClosestIndex(s, t)]
               /\ \A j \in 1 .. Len(s) : contains(RangeFrom(s, j), t) => j = i
<1> DEFINE n == Len(s)
           after == {i \in DOMAIN s : s[i] >= t}
           c == ClosestIndex(s, t)
           Has(i) == contains(RangeFrom(s, i), t)
<1>1. s \in Seq(Tokens) /\ \A k, l \in 1 .. n : k < l => s[k] < s[l]
  BY DEF Increasing
<1>2. n \in Nat /\ n > 1 /\ DOMAIN s = 1 .. n /\ \A k \in 1 .. n : s[k] \in Tokens
  BY <1>1
<1>3. t \in Nat /\ \A k \in 1 .. n : s[k] \in Nat
  BY <1>2, RingAssumption DEF Tokens
<1>4. \A i \in 1 .. n : /\ Has(i) <=> IF i = n THEN t > s[n] \/ t <= s[1] ELSE s[i] < t /\ t <= s[i + 1]
                        /\ RangeFrom(s, i).end = s[IF i = n THEN 1 ELSE i + 1]
  BY RangeHas
<1>5. \A k, l \in 1 .. n : k <= l => s[k] <= s[l]
  <2> SUFFICES ASSUME NEW k \in 1 .. n, NEW l \in 1 .. n, k <= l PROVE s[k] <= s[l]
    OBVIOUS
  <2>1. k = l \/ k < l
    OBVIOUS
  <2> QED
    BY <1>1, <1>3, <2>1
<1>6. c = IF after = {} THEN 1 ELSE CHOOSE i \in after : \A j \in after : i <= j
  BY DEF ClosestIndex
<1>7. after \in SUBSET (1 .. n) /\ after \in SUBSET Nat /\ \A k \in 1 .. n : k \in after <=> s[k] >= t
  BY <1>2
<1> HIDE DEF n, after, Has, c
<1>8. 1 \in 1 .. n /\ n \in 1 .. n
  BY <1>2
<1>9. CASE after = {} \/ c = 1
  <2>1. c = 1
    BY <1>6, <1>9
  <2>2. t > s[n] \/ t <= s[1]
    <3>1. CASE after = {}
      BY <1>3, <1>7, <1>8, <3>1
    <3>2. CASE after # {}
      <4>1. \E i \in after : \A j \in after : i <= j
        BY <1>7, <3>2, LeastOf
      <4>2. c \in after
        BY <1>6, <3>2, <4>1
      <4> QED
        BY <1>3, <1>7, <1>8, <2>1, <4>2
    <3> QED
      BY <3>1, <3>2
  <2>3. Has(n) /\ RangeFrom(s, n).end = s[c]
    BY <1>4, <1>8, <2>1, <2>2
  <2>4. ASSUME NEW j \in 1 .. n, Has(j), j # n PROVE FALSE
    <3>1. s[j] < t /\ t <= s[j + 1] /\ j + 1 \in 1 .. n
      BY <1>2, <1>4, <2>4
    <3>2. s[1] <= s[j] /\ s[j + 1] <= s[n]
      BY <1>2, <1>5, <1>8, <3>1
    <3> QED
      BY <1>3, <1>8, <2>2, <3>1, <3>2
  <2> QED
    BY <1>8, <2>3, <2>4 DEF Has, n, c
<1>10. CASE after # {} /\ c # 1
  <2>1. \E i \in after : \A j \in after : i <= j
    BY <1>7, <1>10, LeastOf
  <2>2. c \in after /\ \A j \in after : c <= j
    BY <1>6, <1>10, <2>1
  <2> DEFINE i == c - 1
  <2>3. c \in 1 .. n /\ i \in 1 .. n /\ i # n /\ i + 1 = c
    BY <1>2, <1>7, <1>10, <2>2
  <2>4. s[i] < t /\ t <= s[c]
    <3>1. i \notin after
      BY <1>7, <2>2, <2>3
    <3> QED
      BY <1>3, <1>7, <2>2, <2>3, <3>1
  <2> HIDE DEF i
  <2>5. Has(i) /\ RangeFrom(s, i).end = s[c]
    BY <1>4, <2>3, <2>4
  <2>6. ASSUME NEW j \in 1 .. n, Has(j), j # i PROVE FALSE
    <3>1. CASE j = n
      <4>1. s[1] <= s[i] /\ s[c] <= s[n]
        BY <1>2, <1>5, <1>8, <2>3
      <4>2. t > s[n] \/ t <= s[1]
        BY <1>4, <2>6, <3>1
      <4> QED
        BY <1>3, <1>8, <2>3, <2>4, <4>1, <4>2
    <3>2. CASE j # n
      <4>1. s[j] < t /\ t <= s[j + 1] /\ j + 1 \in 1 .. n
        BY <1>2, <1>4, <2>6, <3>2
      <4>2. CASE j < i
        <5>1. s[j + 1] <= s[i]
          BY <1>2, <1>5, <2>3, <4>1, <4>2
        <5> QED
          BY <1>3, <2>3, <2>4, <4>1, <5>1
      <4>3. CASE j > i
        <5>1. s[c] <= s[j]
          BY <1>2, <1>5, <2>3, <4>3
        <5> QED
          BY <1>3, <2>3, <2>4, <4>1, <5>1
      <4>4. j < i \/ j > i
        BY <1>2, <2>3, <2>6
      <4> QED
        BY <4>2, <4>3, <4>4
    <3> QED
      BY <3>1, <3>2
  <2> QED
    BY <2>3, <2>5, <2>6 DEF Has, n, c
<1> QED
  BY <1>9, <1>10

\* Two pieces that have no token in common share out what either has.
LEMMA TwoPieces ==
    ASSUME NEW pieces, DOMAIN pieces = 1 .. 2, NEW t, ~(contains(pieces[1], t) /\ contains(pieces[2], t))
    PROVE  Cardinality({k \in DOMAIN pieces : contains(pieces[k], t)})
               = IF contains(pieces[1], t) \/ contains(pieces[2], t) THEN 1 ELSE 0
<1> DEFINE In(k) == contains(pieces[k], t)
           K == {k \in DOMAIN pieces : In(k)}
<1>1. K = {k \in {1, 2} : In(k)}
  <2>1. 1 .. 2 = {1, 2}
    OBVIOUS
  <2> QED
    BY <2>1
<1> HIDE DEF In
<1>2. CASE In(1)
  <2>1. K = {1}
    BY <1>1, <1>2 DEF In
  <2> QED
    BY <1>2, <2>1, FS_Singleton DEF In
<1>3. CASE ~In(1) /\ In(2)
  <2>1. K = {2}
    BY <1>1, <1>3
  <2> QED
    BY <1>3, <2>1, FS_Singleton DEF In
<1>4. CASE ~In(1) /\ ~In(2)
  <2>1. K = {}
    BY <1>1, <1>4
  <2> QED
    BY <1>4, <2>1, FS_EmptySet DEF In
<1> QED
  BY <1>2, <1>3, <1>4

\* unwrap() shares out the tokens of a range among pieces that do not wrap around.
LEMMA UnwrapShares ==
    ASSUME NEW a \in Tokens, NEW b \in Tokens, a # b \/ a = MinToken
    PROVE  LET r == TokenRange(a, b)
           IN  (\A k \in DOMAIN unwrap(r) : ~isWrappedAround(unwrap(r)[k])) /\ ShareOut(unwrap(r), r)
<1> DEFINE r == TokenRange(a, b)
<1>1. MaxToken \in Nat /\ a \in 0 .. MaxToken /\ b \in 0 .. MaxToken /\ MinToken = 0 /\ MinToken \in Tokens
  BY RingAssumption DEF Tokens, MinToken
<1>2. r.start = a /\ r.end = b
  BY DEF TokenRange
<1>3. isWrappedAround(r) <=> a > b /\ b # 0
  BY <1>1, <1>2 DEF isWrappedAround
<1> HIDE DEF r
<1>4. CASE isWrappedAround(r)
  <2> DEFINE p == TokenRange(a, MinToken)
             q == TokenRange(MinToken, b)
  <2>1. unwrap(r) = <<p, q>>
    BY <1>2, <1>4 DEF unwrap
  <2>2. p.start = a /\ p.end = 0 /\ q.start = 0 /\ q.end = b
    BY <1>1 DEF TokenRange
  <2>3. ~isWrappedAround(p) /\ ~isWrappedAround(q)
    BY <1>1, <2>2 DEF isWrappedAround
  <2>4. ASSUME NEW t \in Tokens
        PROVE  /\ ~(contains(p, t) /\ contains(q, t))
               /\ contains(p, t) \/ contains(q, t) <=> contains(r, t)
    <3>1. contains(p, t) <=> Apart(a, t) <= Apart(a, 0)
      BY <1>1, <1>3, <1>4, ContainsNear
    <3>2. contains(q, t) <=> Apart(0, t) <= Apart(0, b)
      BY <1>1, <1>3, <1>4, ContainsNear
    <3>3. contains(r, t) <=> Apart(a, t) <= Apart(a, b)
      BY <1>1, <1>3, <1>4, ContainsNear DEF r
    <3>4. t \in 0 .. MaxToken /\ a > b /\ b > 0
      BY <1>1, <1>3, <1>4 DEF Tokens
    <3> HIDE DEF p, q
    <3> QED
      BY <1>1, <3>1, <3>2, <3>3, <3>4 DEF Apart
  <2> HIDE DEF p, q
  <2> DEFINE pieces == unwrap(r)
  <2>5. DOMAIN pieces = 1 .. 2 /\ pieces[1] = p /\ pieces[2] = q
    BY <2>1
  <2> HIDE DEF pieces
  <2>6. \A k \in DOMAIN pieces : ~isWrappedAround(pieces[k])
    <3>1. \A k \in 1 .. 2 : k = 1 \/ k = 2
      OBVIOUS
    <3> QED
      BY <2>3, <2>5, <3>1
  <2>7. ASSUME NEW t \in Tokens
        PROVE  Cardinality({k \in DOMAIN pieces : contains(pieces[k], t)}) = IF contains(r, t) THEN 1 ELSE 0
    <3>1. ~(contains(pieces[1], t) /\ contains(pieces[2], t))
      BY <2>4, <2>5
    <3>2. Cardinality({k \in DOMAIN pieces : contains(pieces[k], t)})
              = IF contains(pieces[1], t) \/ contains(pieces[2], t) THEN 1 ELSE 0
      BY <2>5, <3>1, TwoPieces
    <3> QED
      BY <2>4, <2>5, <3>2
  <2> QED
    BY <2>6, <2>7 DEF ShareOut, pieces, r
<1>5. CASE ~isWrappedAround(r)
  <2> DEFINE pieces == <<r>>
  <2>1. unwrap(r) = pieces /\ DOMAIN pieces = {1} /\ pieces[1] = r
    BY <1>5 DEF unwrap
  <2> HIDE DEF pieces
  <2>2. ASSUME NEW t \in Tokens
        PROVE  Cardinality({k \in DOMAIN pieces : contains(pieces[k], t)}) = IF contains(r, t) THEN 1 ELSE 0
    <3> DEFINE K == {k \in DOMAIN pieces : contains(pieces[k], t)}
    <3>1. K = IF contains(r, t) THEN {1} ELSE {}
      BY <2>1
    <3> QED
      BY <3>1, FS_Singleton, FS_EmptySet
  <2> QED
    BY <1>5, <2>1, <2>2 DEF ShareOut, r
<1> QED
  BY <1>4, <1>5

\* The distance is what the tokenizer splits.
LEMMA ApartIsLength ==
    ASSUME NEW a \in Tokens, NEW b \in Tokens
    PROVE  (IF a = b THEN MaxToken + 1 ELSE (b + (MaxToken + 1) - a) % (MaxToken + 1)) = Apart(a, b)
<1> DEFINE size == MaxToken + 1
<1>1. MaxToken \in Nat /\ a \in 0 .. MaxToken /\ b \in 0 .. MaxToken
  BY RingAssumption DEF Tokens
<1>2. size \in Nat \ {0} /\ size - 1 = MaxToken
  BY <1>1
<1>3. CASE a = b
  BY <1>1, <1>3 DEF Apart
<1>4. CASE b > a
  <2> DEFINE x == b - a
  <2>1. x \in 0 .. size - 1 /\ x + size = b + size - a
    BY <1>1, <1>4
  <2> HIDE DEF x, size
  <2>2. (x + size) % size = x
    BY <1>2, <2>1, Remainders
  <2>3. (b + size - a) % size = b - a /\ a # b
    BY <1>1, <1>4, <2>1, <2>2 DEF x
  <2> QED
    BY <1>4, <2>3 DEF Apart, size
<1>5. CASE b < a
  <2> DEFINE x == b + size - a
  <2>1. x \in 0 .. size - 1
    BY <1>1, <1>5
  <2> HIDE DEF x, size
  <2>2. x % size = x
    BY <1>2, <2>1, Remainders
  <2>3. (b + size - a) % size = b + size - a /\ a # b /\ ~(b > a)
    BY <1>1, <1>5, <2>2 DEF x
  <2>4. b + size - a = b - a + MaxToken + 1
    BY <1>1 DEF size
  <2> QED
    BY <2>3, <2>4 DEF Apart, size
<1> QED
  BY <1>1, <1>3, <1>4, <1>5

\* A range that has two tokens is longer than 1.
LEMMA LongEnough ==
    ASSUME NEW a \in Tokens, NEW b \in Tokens, a # b \/ a = MinToken,
           Cardinality({t \in Tokens : contains(TokenRange(a, b), t)}) > 1
    PROVE  Apart(a, b) > 1
<1> DEFINE r == TokenRange(a, b)
           T == {t \in Tokens : contains(r, t)}
<1>1. MaxToken \in Nat /\ a \in 0 .. MaxToken /\ b \in 0 .. MaxToken
  BY RingAssumption DEF Tokens
<1>2. Apart(a, b) \in Nat /\ Apart(a, b) >= 1
  BY <1>1 DEF Apart
<1> SUFFICES ASSUME Apart(a, b) = 1 PROVE FALSE
  BY <1>2
<1>3. ASSUME NEW t \in T PROVE t = b
  <2>1. t \in Tokens /\ contains(r, t)
    OBVIOUS
  <2>2. Apart(a, t) <= Apart(a, b)
    BY <2>1, ContainsNear
  <2>3. t \in 0 .. MaxToken
    BY <2>1 DEF Tokens
  <2> QED
    BY <1>1, <2>2, <2>3 DEF Apart
<1>4. T \in SUBSET {b}
  BY <1>3
<1>5. IsFiniteSet({b}) /\ Cardinality({b}) = 1
  BY FS_Singleton
<1> HIDE DEF T
<1>6. IsFiniteSet(T) /\ Cardinality(T) <= 1
  BY <1>4, <1>5, FS_Subset
<1>7. Cardinality(T) \in Nat
  BY <1>6, FS_CardinalityType
<1>8. Cardinality(T) > 1
  BY DEF T
<1> QED
  BY <1>6, <1>7, <1>8

\* splitEvenly() into two shares out the tokens of a range that has enough of them.
LEMMA SplitShares ==
    ASSUME NEW a \in Tokens, NEW b \in Tokens, a # b \/ a = MinToken,
           Cardinality({t \in Tokens : contains(TokenRange(a, b), t)}) > 1
    PROVE  ShareOut(splitEvenly(TokenRange(a, b), 2), TokenRange(a, b))
<1> DEFINE r == TokenRange(a, b)
           size == MaxToken + 1
           length == IF r.start = r.end THEN size ELSE (r.end + size - r.start) % size
           L == Apart(a, b)
           m == L \div 2
           p == (a + m) % size
           pieces == splitEvenly(r, 2)
<1>1. MaxToken \in Nat /\ a \in 0 .. MaxToken /\ b \in 0 .. MaxToken
  BY RingAssumption DEF Tokens
<1>2. L \in 1 .. size /\ L > 1
  <2>1. L > 1
    BY LongEnough
  <2> QED
    BY <1>1, <2>1 DEF Apart
<1>3. r.start = a /\ r.end = b
  BY DEF TokenRange
<1>4. length = L
  BY <1>3, ApartIsLength
<1> HIDE DEF L
<1>5. m \in Nat /\ 1 <= m /\ m < L
  BY <1>2
<1>6. SplitPoints(r, 2) = [k \in 1 .. 1 |-> (a + ((k * L) \div 2)) % size]
  BY <1>3, <1>4 DEF SplitPoints
<1>7. size \in Nat \ {0}
  BY <1>1
<1>8. p = IF a + m < size THEN a + m ELSE a + m - size
  <2>1. a + m \in Nat /\ a + m < size + size /\ size \in Int
    BY <1>1, <1>2, <1>5
  <2> HIDE DEF size, m
  <2>2. CASE a + m < size
    <3>1. a + m \in 0 .. size - 1
      BY <1>7, <2>1, <2>2
    <3> QED
      BY <1>7, <2>2, <3>1, Remainders
  <2>3. CASE ~(a + m < size)
    <3> DEFINE x == a + m - size
    <3>1. x \in 0 .. size - 1 /\ x + size = a + m
      <4>1. a \in Int /\ m \in Int
        BY <1>1, <1>5
      <4> QED
        BY <1>7, <2>1, <2>3, <4>1
    <3> HIDE DEF x
    <3>2. (x + size) % size = x
      BY <1>7, <3>1, Remainders
    <3> QED
      BY <2>3, <3>1, <3>2 DEF x
  <2> QED
    BY <2>2, <2>3
<1> HIDE DEF m, p, r
<1>9. p \in 0 .. MaxToken /\ p \in Tokens
  BY <1>1, <1>2, <1>5, <1>8 DEF Tokens
<1>10. DOMAIN pieces = 1 .. 2 /\ pieces[1] = TokenRange(a, p) /\ pieces[2] = TokenRange(p, b)
  <2> DEFINE points == SplitPoints(r, 2)
             ends == Append(points, b)
  <2>1. points = <<p>>
    <3>1. 1 .. 1 = {1} /\ (1 * L) \div 2 = m
      BY <1>2 DEF m
    <3>2. points = [k \in 1 .. 1 |-> p]
      BY <1>6, <3>1 DEF p
    <3> QED
      BY <3>2
  <2> HIDE DEF points
  <2>2. points \in Seq(Tokens) /\ Len(points) = 1 /\ points[1] = p
    BY <1>9, <2>1
  <2>3. pieces = [k \in DOMAIN ends |-> TokenRange(IF k = 1 THEN a ELSE ends[k - 1], ends[k])]
    BY <1>3 DEF splitEvenly, points
  <2>4. DOMAIN ends = 1 .. 2 /\ ends[1] = p /\ ends[2] = b
    <3>1. ends \in Seq(Tokens) /\ Len(ends) = Len(points) + 1
      BY <2>2
    <3>2. \A k \in 1 .. Len(points) : ends[k] = points[k]
      BY <2>2, AppendProperties
    <3>3. ends[Len(points) + 1] = b
      BY <2>2, AppendProperties
    <3> HIDE DEF ends
    <3> QED
      BY <2>2, <3>1, <3>2, <3>3
  <2> HIDE DEF ends
  <2> HIDE DEF pieces
  <2>5. DOMAIN pieces = 1 .. 2
    BY <2>3, <2>4
  <2>6. pieces[1] = TokenRange(a, p)
    BY <2>3, <2>4
  <2>7. pieces[2] = TokenRange(p, b)
    <3>1. 2 \in 1 .. 2 /\ 2 # 1 /\ 2 - 1 = 1
      OBVIOUS
    <3> QED
      BY <2>3, <2>4, <3>1
  <2> QED
    BY <2>5, <2>6, <2>7
<1> HIDE DEF pieces
<1>11. a # p /\ p # b
  BY <1>1, <1>2, <1>5, <1>8 DEF Apart, L
<1>12. ASSUME NEW t \in Tokens
       PROVE  Cardinality({k \in DOMAIN pieces : contains(pieces[k], t)}) = IF contains(r, t) THEN 1 ELSE 0
  <2> DEFINE first == contains(pieces[1], t)
             second == contains(pieces[2], t)
             whole == contains(r, t)
  <2>1. first <=> Apart(a, t) <= Apart(a, p)
    BY <1>9, <1>10, <1>11, ContainsNear
  <2>2. second <=> Apart(p, t) <= Apart(p, b)
    BY <1>9, <1>10, <1>11, ContainsNear
  <2>3. whole <=> Apart(a, t) <= L
    BY ContainsNear DEF r, L
  <2> HIDE DEF first, second, whole
  <2>4. t \in 0 .. MaxToken
    BY DEF Tokens
  <2>5. Apart(a, p) = m
    BY <1>1, <1>2, <1>5, <1>8 DEF Apart
  <2>6. Apart(p, b) = L - m
    BY <1>1, <1>2, <1>5, <1>8, <1>9 DEF Apart, L
  <2>7. Apart(p, t) = IF Apart(a, t) > m THEN Apart(a, t) - m ELSE Apart(a, t) - m + MaxToken + 1
    BY <1>1, <1>2, <1>5, <1>8, <1>9, <2>4 DEF Apart
  <2>8. Apart(a, t) \in 1 .. size
    BY <1>1, <2>4 DEF Apart
  <2>9. ~(first /\ second) /\ (first \/ second <=> whole)
    BY <1>1, <1>2, <1>5, <2>1, <2>2, <2>3, <2>5, <2>6, <2>7, <2>8
  <2>10. Cardinality({k \in DOMAIN pieces : contains(pieces[k], t)}) = IF first \/ second THEN 1 ELSE 0
    BY <1>10, <2>9, TwoPieces DEF first, second
  <2> QED
    BY <2>9, <2>10 DEF whole
<1> QED
  BY <1>12 DEF ShareOut, pieces, r

\* The ranges of a ring have tokens for their ends, and are not empty.
LEMMA RangesOfRing ==
    ASSUME NEW s, Increasing(s), s # << >>, NEW r \in TokenRanges(s)
    PROVE  \E a, b \in Tokens : r = TokenRange(a, b) /\ (a # b \/ a = MinToken)
<1> DEFINE n == Len(s)
<1>1. s \in Seq(Tokens) /\ n \in Nat /\ n # 0 /\ DOMAIN s = 1 .. n
  BY DEF Increasing
<1>2. CASE n = 1
  <2>1. r = TokenRange(MinToken, MinToken) /\ MinToken \in Tokens
    BY <1>2, RingAssumption DEF TokenRanges, Tokens, MinToken
  <2> QED
    BY <2>1
<1>3. CASE n # 1
  <2>1. n > 1
    BY <1>1, <1>3
  <2>2. PICK i \in 1 .. n : r = RangeFrom(s, i)
    BY <1>1, <1>3 DEF TokenRanges, RangeFrom
  <2>3. MinToken \in Tokens
    BY RingAssumption DEF Tokens, MinToken
  <2>4. r.start # r.end /\ r.start \in Tokens /\ r.end \in Tokens
    BY <2>1, <2>2, <2>3, RangeHas
  <2>5. r = TokenRange(r.start, r.end)
    BY <2>2 DEF RangeFrom, TokenRange
  <2> QED
    BY <2>4, <2>5
<1> QED
  BY <1>2, <1>3

\* The tokens of the ring increase, and an answer about an owner is about the ring as it is.
RingInv ==
    /\ Increasing(ring)
    /\ answer.of = "primary" =>
           /\ answer.token \in Tokens
           /\ answer.hosts = <<Owner(layout, ring[ClosestIndex(ring, answer.token)])>>

\* Building the tokens anew, and asking for them, keeps it.
THEOREM RingInvariant == RingSpec => []RingInv
<1>1. RingInit => RingInv
  <2> SUFFICES ASSUME RingInit PROVE RingInv
    OBVIOUS
  <2>1. ring = << >> /\ answer.of = "nothing"
    BY DEF RingInit, Nothing
  <2>2. Increasing(ring)
    BY <2>1 DEF Increasing
  <2> QED
    BY <2>1, <2>2 DEF RingInv
<1>2. RingInv /\ [RingNext]_ringVars => RingInv'
  <2> SUFFICES ASSUME RingInv, [RingNext]_ringVars PROVE RingInv'
    OBVIOUS
  <2>1. ASSUME NEW l \in Layouts, BuildTokens(l) PROVE RingInv'
    <3> DEFINE S == UNION {l[h].tokens : h \in DOMAIN l}
    <3>1. S \in SUBSET Tokens
      BY RingAssumption DEF Tokens
    <3>2. ring' = Ascending(S) /\ answer'.of = "nothing"
      BY <2>1 DEF BuildTokens, SortedTokens, Nothing
    <3> HIDE DEF S
    <3>3. Increasing(ring')
      BY <3>1, <3>2, AscendingIncreases
    <3> QED
      BY <3>2, <3>3 DEF RingInv
  <2>2. ASSUME NEW s \in Strategies, RereadKeyspace(s) PROVE RingInv'
    BY <2>2 DEF RereadKeyspace, RingInv, Nothing
  <2>3. ASSUME NEW t \in Tokens, GetPrimaryReplica(t) PROVE RingInv'
    <3> DEFINE owner == <<Owner(layout, ring[ClosestIndex(ring, t)])>>
    <3>1. ring' = ring /\ layout' = layout /\ answer' = [of |-> "primary", token |-> t, hosts |-> owner]
      BY <2>3 DEF GetPrimaryReplica
    <3>2. answer'.token = t /\ answer'.hosts = owner
      <4> HIDE DEF owner
      <4> QED
        BY <3>1
    <3> QED
      BY <3>1, <3>2 DEF RingInv
  <2>4. ASSUME NEW t \in Tokens, GetReplicas(t) PROVE RingInv'
    BY <2>4 DEF GetReplicas, RingInv
  <2>5. ASSUME NEW h \in DOMAIN layout, GetTokenRangesForHost(h) PROVE RingInv'
    <3>1. ring' = ring /\ layout' = layout
      BY <2>5 DEF GetTokenRangesForHost
    <3>2. answer'.of # "primary"
      BY <2>5 DEF GetTokenRangesForHost, Nothing
    <3> QED
      BY <3>1, <3>2 DEF RingInv
  <2>6. CASE UNCHANGED ringVars
    BY <2>6 DEF RingInv, ringVars
  <2> QED
    BY <2>1, <2>2, <2>3, <2>4, <2>5, <2>6 DEF RingNext
<1> QED
  BY <1>1, <1>2, PTL DEF RingSpec

\* Every token is in exactly one range of the ring, and the host that getReplicas() names for
\* it without a keyspace is the owner of the end of that range; unwrap() and splitEvenly()
\* share out the tokens of a range, for any hosts, any number of tokens of each and any size
\* of the ring (buildTokens, TokenRange).
THEOREM RangesDoPartition == RingSpec => []RangesPartition
<1>1. RingInv => RangesPartition
  <2> SUFFICES ASSUME RingInv PROVE RangesPartition
    OBVIOUS
  <2> DEFINE n == Len(ring)
  <2>1. Increasing(ring) /\ ring \in Seq(Tokens) /\ n \in Nat /\ DOMAIN ring = 1 .. n
    BY DEF RingInv, Increasing
  <2>2. MinToken \in Tokens /\ MaxToken \in Nat
    BY RingAssumption DEF Tokens, MinToken
  <2>3. n # 1 => TokenRanges(ring) = {RangeFrom(ring, i) : i \in 1 .. n}
    BY <2>1 DEF TokenRanges, RangeFrom
  <2>4. ASSUME NEW t \in Tokens, n > 1
        PROVE  \E r : RangesOf(t) = {r} /\ r.end = ring[ClosestIndex(ring, t)]
    <3>1. PICK i \in 1 .. n :
              /\ contains(RangeFrom(ring, i), t) /\ RangeFrom(ring, i).end = ring[ClosestIndex(ring, t)]
              /\ \A j \in 1 .. n : contains(RangeFrom(ring, j), t) => j = i
      BY <2>1, <2>4, OneRange
    <3>2. n # 1
      BY <2>1, <2>4
    <3>3. RangesOf(t) = {RangeFrom(ring, i)}
      BY <2>3, <3>1, <3>2 DEF RangesOf
    <3> QED
      BY <3>1, <3>3
  <2>5. ASSUME NEW t \in Tokens, ring # << >> PROVE Cardinality(RangesOf(t)) = 1
    <3>1. CASE n > 1
      BY <2>4, <3>1, FS_Singleton
    <3>2. CASE n = 1
      <4> DEFINE r == TokenRange(MinToken, MinToken)
      <4>1. TokenRanges(ring) = {r}
        BY <3>2 DEF TokenRanges
      <4>2. contains(r, t) <=> Apart(MinToken, t) <= Apart(MinToken, MinToken)
        BY <2>2, ContainsNear
      <4>3. t \in 0 .. MaxToken
        BY DEF Tokens
      <4>4. contains(r, t)
        BY <2>2, <4>2, <4>3 DEF Apart, MinToken
      <4>5. RangesOf(t) = {r}
        BY <4>1, <4>4 DEF RangesOf
      <4> QED
        BY <4>5, FS_Singleton
    <3>3. n # 0
      BY <2>1, <2>5
    <3> QED
      BY <2>1, <3>1, <3>2, <3>3
  <2>6. ASSUME ring # << >>, NEW r \in TokenRanges(ring)
        PROVE  /\ \A k \in DOMAIN unwrap(r) : ~isWrappedAround(unwrap(r)[k])
               /\ ShareOut(unwrap(r), r)
               /\ Cardinality({t \in Tokens : contains(r, t)}) > 1 => ShareOut(splitEvenly(r, 2), r)
    <3>1. PICK a \in Tokens, b \in Tokens : r = TokenRange(a, b) /\ (a # b \/ a = MinToken)
      BY <2>1, <2>6, RangesOfRing
    <3>2. (\A k \in DOMAIN unwrap(r) : ~isWrappedAround(unwrap(r)[k])) /\ ShareOut(unwrap(r), r)
      BY <3>1, UnwrapShares
    <3>3. Cardinality({t \in Tokens : contains(r, t)}) > 1 => ShareOut(splitEvenly(r, 2), r)
      BY <3>1, SplitShares
    <3> QED
      BY <3>2, <3>3
  <2>7. ASSUME answer.of = "primary", n > 1, NEW r \in RangesOf(answer.token)
        PROVE  answer.hosts = <<Owner(layout, r.end)>>
    <3>1. /\ answer.token \in Tokens
          /\ answer.hosts = <<Owner(layout, ring[ClosestIndex(ring, answer.token)])>>
      BY <2>7 DEF RingInv
    <3>2. r.end = ring[ClosestIndex(ring, answer.token)]
      BY <2>4, <2>7, <3>1
    <3> QED
      BY <3>1, <3>2
  <2> QED
    BY <2>5, <2>6, <2>7 DEF RangesPartition
<1> QED
  BY <1>1, RingInvariant, PTL
=============================================================================
