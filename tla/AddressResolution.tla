-------------------------- MODULE AddressResolution --------------------------
(***************************************************************************)
(* From names to addresses: AddressResolver of lib/utils.js, which shares  *)
(* one lookup between all that ask for a refresh, and                      *)
(* EC2MultiRegionTranslator of lib/policies/address-resolution.js, which   *)
(* looks a private address up twice.  DNS answers in any order, fails, or  *)
(* has no address; it is outside of the repository.                        *)
(***************************************************************************)
EXTENDS Integers, Sequences

CONSTANTS
    Askers,        \* the callers of init() and refresh()
    Answers,       \* the non-empty sequences of addresses that DNS may answer with
    Translations,  \* the calls of translate()
    MaxIp,         \* maxInt32: where the round robin starts again
    MaxIps         \* bound on the calls of getIp()

VARIABLES
    asker,         \* of each caller: "idle", "init", "refresh" (looking up), "waiting", "done" or "failed"
    addresses,     \* _addresses: << >> for null
    refreshing,    \* _refreshing is set
    ipIndex,       \* _index
    ips,           \* history: the addresses that getIp() returned
    translation    \* of each translate(): "idle", "reverse", "lookup", or the address it answered

addressVars == <<asker, addresses, refreshing, ipIndex, ips, translation>>

AddressInit ==
    /\ asker = [c \in Askers |-> "idle"]
    /\ addresses = << >>
    /\ refreshing = FALSE
    /\ ipIndex = 0
    /\ ips = << >>
    /\ translation = [t \in Translations |-> "idle"]

-----------------------------------------------------------------------------
\* init(): a lookup of its own, whose failure is the caller's.
AskInit(c) ==
    /\ asker[c] = "idle"
    /\ asker' = [asker EXCEPT ![c] = "init"]
    /\ UNCHANGED <<addresses, refreshing, ipIndex, ips, translation>>

\* refresh(): waits for the lookup under way, or starts one.
AskRefresh(c) ==
    /\ asker[c] = "idle"
    /\ asker' = [asker EXCEPT ![c] = IF refreshing THEN "waiting" ELSE "refresh"]
    /\ refreshing' = TRUE
    /\ UNCHANGED <<addresses, ipIndex, ips, translation>>

\* _resolve() with an answer; none is an error.
Resolved(answer) == addresses' = IF answer = << >> THEN addresses ELSE answer

InitAnswered(c, answer) ==
    /\ asker[c] = "init"
    /\ Resolved(answer)
    /\ asker' = [asker EXCEPT ![c] = IF answer = << >> THEN "failed" ELSE "done"]
    /\ UNCHANGED <<refreshing, ipIndex, ips, translation>>

\* Faulty: a failure leaves refresh() before "finished" is emitted.
RefreshAnswered_ErrorEscapes(c, answer) ==
    /\ asker[c] = "refresh"
    /\ Resolved(answer)
    /\ IF answer = << >>
       THEN /\ asker' = [asker EXCEPT ![c] = "failed"]
            /\ UNCHANGED refreshing
       ELSE /\ asker' = [d \in Askers |-> IF d = c \/ asker[d] = "waiting" THEN "done" ELSE asker[d]]
            /\ refreshing' = FALSE
    /\ UNCHANGED <<ipIndex, ips, translation>>

\* The lookup of refresh() ends, well or badly: "finished" wakes up the ones that wait.
RefreshAnswered(c, answer) ==
    /\ asker[c] = "refresh"
    /\ Resolved(answer)
    /\ asker' = [d \in Askers |-> IF d = c \/ asker[d] = "waiting" THEN "done" ELSE asker[d]]
    /\ refreshing' = FALSE
    /\ UNCHANGED <<ipIndex, ips, translation>>

\* getIp(): the addresses in turn.
GetIp ==
    /\ addresses # << >> /\ Len(ips) < MaxIps
    /\ ips' = Append(ips, addresses[(ipIndex % Len(addresses)) + 1])
    /\ ipIndex' = IF ipIndex # MaxIp THEN ipIndex + 1 ELSE 0
    /\ UNCHANGED <<asker, addresses, refreshing, translation>>

-----------------------------------------------------------------------------
Translating(t, to) ==
    /\ translation' = [translation EXCEPT ![t] = to]
    /\ UNCHANGED <<asker, addresses, refreshing, ipIndex, ips>>

Translate(t) == translation[t] = "idle" /\ Translating(t, "reverse")

\* dns.reverse() answers with names; or it has none or fails, and the address is kept.
ReverseAnswered(t, found) == translation[t] = "reverse" /\ Translating(t, IF found THEN "lookup" ELSE "private")

\* dns.lookup() answers with the address to use, or fails and the address is kept.
LookupAnswered(t, found) == translation[t] = "lookup" /\ Translating(t, IF found THEN "public" ELSE "private")

-----------------------------------------------------------------------------
DnsAnswers ==
    \/ \E c \in Askers, answer \in Answers \union {<< >>} : InitAnswered(c, answer) \/ RefreshAnswered(c, answer)
    \/ \E t \in Translations, found \in BOOLEAN : ReverseAnswered(t, found) \/ LookupAnswered(t, found)

AddressNext ==
    \/ \E c \in Askers : AskInit(c) \/ AskRefresh(c)
    \/ DnsAnswers
    \/ GetIp
    \/ \E t \in Translations : Translate(t)

-----------------------------------------------------------------------------
\* Whoever waits for a refresh that another one started, or for a translation, is answered,
\* also when DNS fails.
AddressesAnswered ==
    /\ \A c \in Askers : (asker[c] \in {"refresh", "waiting"}) ~> (asker[c] = "done")
    /\ \A t \in Translations : (translation[t] = "reverse") ~> (translation[t] \in {"private", "public"})
=============================================================================
