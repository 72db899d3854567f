------------------------------ MODULE InetType ------------------------------
(***************************************************************************)
(* InetAddress (lib/types/inet-address.js): the text of an IPv6 address    *)
(* and its reading.  An address is a sequence of groups of two bytes, a    *)
(* text the sequence of what stands between colons: nothing, one group, or *)
(* an embedded IPv4 address, which is worth two groups.                    *)
(***************************************************************************)
EXTENDS Integers, Sequences, SequencesExt

CONSTANT MaxGroup       \* the greatest value of a group, 0xffff

Groups == 8

Colon == <<"colon">>
Group(g) == <<"group", g>>

\* A group of zeros ends at i.
checkLongest(s, i) ==
    IF s.start >= 0 /\ i - s.start > s.length
    THEN [start |-> -1, length |-> i - s.start, from |-> s.start]
    ELSE s

\* The longest run of zeros as toString() finds it: a run that is not longer than the
\* one before leaves start as it is.
Longest(address) ==
    LET Scan(s, i) ==
            IF address[i + 1] # 0 THEN checkLongest(s, i)
            ELSE LET t == IF s.start < 0 THEN [s EXCEPT !.start = i] ELSE s
                 IN  IF i = Groups - 1 THEN checkLongest(t, i + 1) ELSE t
    IN  FoldLeft(Scan, [start |-> -1, length |-> 0, from |-> -1],
                 [i \in 1 .. Groups |-> i - 1])

\* Faulty: the end of the address is not marked when the zeros are last.
toString_NoFinalColon(address) ==
    LET longest == Longest(address)
        Write(text, h) ==
            CASE h = longest.from -> Append(text, Colon)
              [] h > longest.from /\ h < longest.from + longest.length -> text
              [] OTHER -> (IF text = << >> THEN text ELSE Append(text, Colon))
                            \o <<Group(address[h + 1])>>
    IN  FoldLeft(Write, << >>, [i \in 1 .. Groups |-> i - 1])

\* InetAddress.toString()
toString(address) ==
    LET longest == Longest(address)
        Write(text, h) ==
            CASE h = longest.from -> Append(text, Colon)
              [] h > longest.from /\ h < longest.from + longest.length -> text
              [] OTHER -> (IF text = << >> THEN text ELSE Append(text, Colon))
                            \o <<Group(address[h + 1])>>
        text == FoldLeft(Write, << >>, [i \in 1 .. Groups |-> i - 1])
    IN  IF Last(text) = Colon THEN Append(text, Colon) ELSE text

\* String.split(":")
split(text) ==
    FoldLeft(LAMBDA parts, t : IF t = Colon THEN Append(parts, << >>)
                               ELSE [parts EXCEPT ![Len(parts)] = <<t[2]>>],
             <<<< >>>>, text)

Invalid == [ok |-> FALSE]

isValidIPv4Mapped(address) ==
    (\A i \in 1 .. Groups - 3 : address[i] = 0) /\ address[Groups - 2] = MaxGroup

\* InetAddress.fromString() of a text with colons. The buffer is not initialized: groups
\* that are never written keep what was there, rest. Zeros past the end of the buffer
\* are dropped, a group past the end throws.
fromString(parts, rest) ==
    LET embeddedIp4 == Len(Last(parts)) = 2
        filling == Groups + 1 - Len(parts) - (IF embeddedIp4 THEN 1 ELSE 0)
        Item(s, item) ==
            IF item # << >>
            THEN [s EXCEPT !.out = @ \o item, !.ok = @ /\ Len(s.out) + Len(item) <= Groups]
            ELSE LET n == IF s.applied THEN 1 ELSE filling
                 IN  [s EXCEPT !.applied = TRUE, !.out = @ \o [i \in 1 .. n |-> 0]]
        done == FoldLeft(Item, [out |-> << >>, applied |-> FALSE, ok |-> TRUE], parts)
        address == [i \in 1 .. Groups |-> IF i <= Len(done.out) THEN done.out[i] ELSE rest]
    IN  IF Len(parts) < 3 \/ ~done.ok \/ (embeddedIp4 /\ ~isValidIPv4Mapped(address))
        THEN Invalid
        ELSE [ok |-> TRUE, address |-> address]

-----------------------------------------------------------------------------
\* Where the runs of zeros of an address begin and end
Runs(address) ==
    {r \in (1 .. Groups) \X (1 .. Groups) :
        /\ r[1] <= r[2]
        /\ \A i \in r[1] .. r[2] : address[i] = 0
        /\ r[1] > 1 => address[r[1] - 1] # 0
        /\ r[2] < Groups => address[r[2] + 1] # 0}

\* Every run of zeros is longer than those before it.
RunsGrow(address) ==
    \A r, s \in Runs(address) : r[2] < s[1] => r[2] - r[1] < s[2] - s[1]
=============================================================================
