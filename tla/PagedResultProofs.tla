-------------------------- MODULE PagedResultProofs --------------------------
(***************************************************************************)
(* For results of any size, cut into pages of any size: stream() and the   *)
(* async iterator keep every row in its place, ask for every page once and *)
(* implement RowDelivery.                                                  *)
(***************************************************************************)
EXTENDS PagedResult, TLAPS

-----------------------------------------------------------------------------
\* The async iterator.

\* The rows of the current page follow the ones before it, a page is awaited only at the end
\* of the page before, and without pages that are empty the iterator ends after the last row.
PageInPlace ==
    /\ pc = "first" => yielded = << >> /\ index = 0 /\ rows = << >>
    /\ Len(yielded) >= index
    /\ \A j \in 1 .. Len(rows) : rows[j] = Len(yielded) - index + j
    /\ pageState # Iterator!NoState => pageState <= total
    /\ pc = "fetching" => pageState # Iterator!NoState /\ index = Len(rows)
    /\ pc = "done" /\ IteratorEmptyPages = 0 => Len(yielded) = total

IteratorInv == Iterator!TypeOK /\ Iterator!PositionKept /\ PageInPlace

-----------------------------------------------------------------------------
\* stream().

Records ==
    [buffer : Seq(Nat), paused : BOOLEAN, readNext : BOOLEAN, pushed : Seq(Nat), closed : BOOLEAN,
     fetches : Nat]

\* How many rows the buffer of a ResultStream has, which has been told to end or not.
RowsIn(s, ending) == IF ending /\ ~s.closed THEN Len(s.buffer) - 1 ELSE Len(s.buffer)

\* The ResultStream s and the Readable have the rows after the row "from" up to the row "to",
\* in order, and the null behind them when it is ending.
Carries(s, from, to, ending) ==
    /\ s \in Records
    /\ s.closed => ending /\ s.buffer = << >>
    /\ RowsIn(s, ending) \in Nat /\ from + Len(s.pushed) + RowsIn(s, ending) = to
    /\ \A j \in 1 .. Len(s.pushed) : s.pushed[j] = from + j
    /\ \A j \in 1 .. RowsIn(s, ending) : s.buffer[j] = from + Len(s.pushed) + j
    /\ ending /\ ~s.closed => s.buffer[Len(s.buffer)] = Stream!EOF

\* What has been read and what is on its way; the next page is the one after these rows.
RowsInPlace ==
    /\ \A j \in 1 .. Len(consumed) : consumed[j] = j
    /\ Carries(rs, Len(consumed), rowLength, callbacks = 1)
    /\ rs.fetches = 0
    /\ rowLength <= total
    /\ rs.readNext => pagingState = rowLength /\ ~autoPage

\* Exactly one thing is to come next or has come last: the answer to a request, a request
\* that waits behind the valve, the failure of the options, or the callback.
OneTurn ==
    \/ /\ callbacks = 0 /\ ~refused /\ ~rs.readNext /\ requests = <<rowLength>>
       /\ ~autoPage => rs.buffer = << >>
    \/ callbacks = 0 /\ ~refused /\ rs.readNext /\ requests = << >>
    \/ callbacks = 0 /\ refused /\ ~rs.readNext /\ requests = << >>
    \/ callbacks = 1 /\ ~refused /\ ~rs.readNext /\ requests = << >>

\* The end of the stream.
EndInPlace ==
    /\ callbacks = 1 /\ ~failed => rowLength = total
    /\ failed => callbacks = 1
    /\ ended => rs.closed /\ rs.pushed = << >>

StreamInv == Stream!TypeOK /\ RowsInPlace /\ OneTurn /\ EndInPlace

IInv ==
    \/ reader = "stream" /\ StreamInv
    \/ reader = "iterator" /\ IteratorInv

-----------------------------------------------------------------------------
\* The steps of the iterator.

\* The page that answers a request: its rows, and the place of the page after it.
LEMMA PageServed ==
    ASSUME PagesAssumption, NEW from \in Nat, from <= total, total \in 0 .. MaxRows,
           emptyPages \in 0 .. IteratorEmptyPages, IteratorEmptyPages \in Nat,
           NEW n \in 0 .. PageSize, NEW more \in BOOLEAN, Iterator!Answer(from, n, more)
    PROVE  /\ rows' \in Seq(1 .. MaxRows) /\ Len(rows') = n
           /\ \A j \in 1 .. n : rows'[j] = from + j
           /\ from + n <= total
           /\ more => pageState' = from + n
           /\ ~more => pageState' = Iterator!NoState /\ from + n = total
           /\ pageState' \in 0 .. Iterator!NoState
           /\ emptyPages' \in 0 .. IteratorEmptyPages
           /\ n = 0 /\ IteratorEmptyPages = 0 => ~more
<1>1. /\ n \in Nat /\ PageSize \in Nat /\ MaxRows \in Nat /\ total \in Nat /\ total <= MaxRows
      /\ n <= (IF PageSize < total - from THEN PageSize ELSE total - from)
      /\ from + n < total => more
      /\ n = 0 /\ more => emptyPages < IteratorEmptyPages
  BY DEF PagesAssumption, Iterator!Answer, Iterator!MayServe, Iterator!Least
<1>2. from + n <= total /\ (~more => from + n = total)
  BY <1>1
<1>3. rows' = [j \in 1 .. n |-> from + j]
  BY DEF Iterator!Answer, Iterator!PageRows
<1>4. \A j \in 1 .. n : from + j \in 1 .. MaxRows
  BY <1>1, <1>2
<1>5. rows' \in Seq(1 .. MaxRows) /\ Len(rows') = n
  BY <1>1, <1>3, <1>4
<1>6. pageState' = IF more THEN from + n ELSE Iterator!NoState
  BY DEF Iterator!Answer
<1>7. Iterator!NoState = MaxRows + 1
  BY DEF Iterator!NoState
<1>8. emptyPages' = emptyPages + (IF n = 0 /\ more THEN 1 ELSE 0)
  BY DEF Iterator!Answer, Iterator!EmptyPages
<1>9. emptyPages' \in 0 .. IteratorEmptyPages
  BY <1>1, <1>8
<1> QED
  BY <1>1, <1>2, <1>3, <1>5, <1>6, <1>7, <1>9

\* An iterator starts before the first page.
LEMMA IteratorStarts ==
    ASSUME Iterator!Init
    PROVE  IteratorInv
<1>1. Iterator!NoState = MaxRows + 1 /\ MaxRows \in Nat
  BY PagesAssumption DEF Iterator!NoState
<1>2. Iterator!TypeOK
  <2>1. total \in 0 .. MaxRows /\ pageState \in 0 .. Iterator!NoState
    BY <1>1 DEF Iterator!Init
  <2>2. emptyPages \in 0 .. IteratorEmptyPages /\ failures \in 0 .. MaxFailures
    BY ReadersAssumption DEF Iterator!Init
  <2>3. rows \in Seq(1 .. MaxRows) /\ index \in 0 .. Len(rows) /\ yielded \in Seq(1 .. MaxRows)
    BY DEF Iterator!Init
  <2> QED
    BY <2>1, <2>2, <2>3 DEF Iterator!Init, Iterator!TypeOK
<1>3. Iterator!PositionKept /\ PageInPlace
  BY <1>1 DEF Iterator!Init, Iterator!PositionKept, PageInPlace
<1> QED
  BY <1>2, <1>3 DEF IteratorInv

\* next() that has to wait for nothing, or begins to wait, or fails.
LEMMA NextKeeps ==
    ASSUME IteratorInv, Iterator!Yield \/ Iterator!Fetch \/ Iterator!Done \/ Iterator!PageFails
    PROVE  IteratorInv'
<1>1. /\ Iterator!NoState = MaxRows + 1 /\ MaxRows \in Nat /\ IteratorEmptyPages \in Nat /\ MaxFailures \in Nat
      /\ Len(rows) \in Nat /\ Len(yielded) \in Nat /\ index \in Nat /\ index <= Len(rows)
      /\ total \in Nat /\ pageState \in Nat
  BY PagesAssumption, ReadersAssumption DEF Iterator!NoState, IteratorInv, Iterator!TypeOK
<1>6. /\ pc # "first" /\ pageState # Iterator!NoState => Len(yielded) + Len(rows) - index = pageState
      /\ pc # "first" /\ pageState = Iterator!NoState => Len(yielded) + Len(rows) - index = total
  BY DEF IteratorInv, Iterator!PositionKept
<1>2. CASE Iterator!Yield
  <2>1. /\ pc = "idle" /\ index < Len(rows) /\ yielded' = Append(yielded, rows[index + 1]) /\ index' = index + 1
        /\ UNCHANGED <<total, emptyPages, failures, rows, pageState, pc, failed>>
    BY <1>2 DEF Iterator!Yield
  <2>2. rows[index + 1] = Len(yielded) + 1 /\ rows[index + 1] \in 1 .. MaxRows
    BY <1>1, <2>1 DEF IteratorInv, PageInPlace, Iterator!TypeOK
  <2>3. /\ yielded' \in Seq(1 .. MaxRows) /\ Len(yielded') = Len(yielded) + 1
        /\ \A j \in 1 .. Len(yielded) : yielded'[j] = yielded[j]
        /\ yielded'[Len(yielded) + 1] = Len(yielded) + 1
    BY <2>1, <2>2 DEF IteratorInv, Iterator!TypeOK
  <2>4. Iterator!TypeOK'
    BY <1>1, <2>1, <2>3 DEF IteratorInv, Iterator!TypeOK, Iterator!NoState
  <2>5. /\ yielded = [j \in 1 .. Len(yielded) |-> j]
        /\ pageState # Iterator!NoState => Len(yielded) + Len(rows) - index = pageState
        /\ pageState = Iterator!NoState => Len(yielded) + Len(rows) - index = total
    BY <2>1 DEF IteratorInv, Iterator!PositionKept
  <2>6. yielded' = [j \in 1 .. Len(yielded') |-> j]
    <3>1. \A j \in 1 .. Len(yielded') : yielded'[j] = j
      BY <1>1, <2>3, <2>5
    <3> QED
      BY <2>3, <3>1
  <2>7. Iterator!PositionKept'
    <3>1. Len(yielded') + Len(rows') - index' = Len(yielded) + Len(rows) - index
      BY <1>1, <2>1, <2>3
    <3> QED
      BY <2>1, <2>5, <2>6, <3>1 DEF Iterator!PositionKept, Iterator!NoState
  <2>8. PageInPlace'
    BY <1>1, <2>1, <2>3 DEF IteratorInv, PageInPlace, Iterator!NoState
  <2> QED
    BY <2>4, <2>7, <2>8 DEF IteratorInv
<1>3. CASE Iterator!Fetch
  <2>1. Iterator!TypeOK' /\ PageInPlace'
    BY <1>1, <1>6, <1>3 DEF Iterator!Fetch, IteratorInv, Iterator!TypeOK, PageInPlace, Iterator!NoState
  <2>2. Iterator!PositionKept'
    BY <1>3 DEF Iterator!Fetch, IteratorInv, Iterator!PositionKept, Iterator!NoState
  <2> QED
    BY <2>1, <2>2 DEF IteratorInv
<1>4. CASE Iterator!Done
  <2>1. Iterator!TypeOK' /\ PageInPlace'
    BY <1>1, <1>6, <1>4 DEF Iterator!Done, IteratorInv, Iterator!TypeOK, PageInPlace, Iterator!NoState
  <2>2. Iterator!PositionKept'
    BY <1>4 DEF Iterator!Done, IteratorInv, Iterator!PositionKept, Iterator!NoState
  <2> QED
    BY <2>1, <2>2 DEF IteratorInv
<1>5. CASE Iterator!PageFails
  <2>1. Iterator!TypeOK' /\ PageInPlace'
    BY <1>1, <1>6, <1>5 DEF Iterator!PageFails, IteratorInv, Iterator!TypeOK, PageInPlace, Iterator!NoState
  <2>2. Iterator!PositionKept'
    BY <1>5 DEF Iterator!PageFails, IteratorInv, Iterator!PositionKept, Iterator!NoState
  <2> QED
    BY <2>1, <2>2 DEF IteratorInv
<1> QED
  BY <1>2, <1>3, <1>4, <1>5

\* A page arrives, the first one or one that next() awaits.
LEMMA PageKeeps ==
    ASSUME IteratorInv, NEW n \in 0 .. PageSize, NEW more \in BOOLEAN,
           Iterator!FirstPage(n, more) \/ Iterator!PageArrives(n, more)
    PROVE  IteratorInv'
<1>1. /\ Iterator!NoState = MaxRows + 1 /\ MaxRows \in Nat /\ IteratorEmptyPages \in Nat /\ MaxFailures \in Nat
      /\ Len(rows) \in Nat /\ Len(yielded) \in Nat /\ index \in Nat /\ index <= Len(rows)
      /\ total \in Nat /\ total <= MaxRows /\ pageState \in Nat /\ n \in Nat
      /\ emptyPages \in 0 .. IteratorEmptyPages
  BY PagesAssumption, ReadersAssumption DEF Iterator!NoState, IteratorInv, Iterator!TypeOK
<1>2. CASE Iterator!FirstPage(n, more)
  <2>1. /\ pc = "first" /\ Iterator!Answer(0, n, more) /\ pc' = (IF n = 0 THEN "done" ELSE "idle")
        /\ UNCHANGED <<total, failures, index, yielded, failed>>
    BY <1>2 DEF Iterator!FirstPage
  <2>2. yielded = << >> /\ index = 0 /\ Len(yielded) = 0
    BY <2>1 DEF IteratorInv, PageInPlace
  <2>3. /\ rows' \in Seq(1 .. MaxRows) /\ Len(rows') = n
        /\ \A j \in 1 .. n : rows'[j] = j
        /\ n <= total
        /\ more => pageState' = n
        /\ ~more => pageState' = Iterator!NoState /\ n = total
        /\ pageState' \in 0 .. Iterator!NoState
        /\ emptyPages' \in 0 .. IteratorEmptyPages
        /\ n = 0 /\ IteratorEmptyPages = 0 => ~more
    <3>1. 0 \in Nat /\ 0 <= total /\ total \in 0 .. MaxRows /\ 0 + n = n /\ \A j \in 1 .. n : 0 + j = j
      BY <1>1
    <3> QED
      BY <1>1, <2>1, <3>1, PageServed, PagesAssumption
  <2>4. Iterator!TypeOK'
    BY <1>1, <2>1, <2>2, <2>3 DEF IteratorInv, Iterator!TypeOK, Iterator!NoState
  <2>5. Iterator!PositionKept'
    BY <1>1, <2>1, <2>2, <2>3 DEF Iterator!PositionKept, Iterator!NoState
  <2>6. PageInPlace'
    BY <1>1, <2>1, <2>2, <2>3 DEF PageInPlace, Iterator!NoState
  <2> QED
    BY <2>4, <2>5, <2>6 DEF IteratorInv
<1>3. CASE Iterator!PageArrives(n, more)
  <2>1. /\ pc = "fetching" /\ Iterator!Answer(pageState, n, more)
        /\ UNCHANGED <<total, failures, failed>>
    BY <1>3 DEF Iterator!PageArrives
  <2>2. /\ pageState # Iterator!NoState /\ pageState <= total /\ index = Len(rows) /\ Len(yielded) = pageState
        /\ yielded = [j \in 1 .. Len(yielded) |-> j] /\ yielded \in Seq(1 .. MaxRows)
    <3>1. /\ yielded = [j \in 1 .. Len(yielded) |-> j]
          /\ pageState # Iterator!NoState => Len(yielded) + Len(rows) - index = pageState
      BY <2>1 DEF IteratorInv, Iterator!PositionKept
    <3>2. pageState # Iterator!NoState /\ pageState <= total /\ index = Len(rows)
      BY <2>1 DEF IteratorInv, PageInPlace
    <3>3. yielded \in Seq(1 .. MaxRows)
      BY DEF IteratorInv, Iterator!TypeOK
    <3>4. Len(yielded) = pageState
      BY <1>1, <3>1, <3>2
    <3> QED
      BY <3>1, <3>2, <3>3, <3>4
  <2>3. /\ rows' \in Seq(1 .. MaxRows) /\ Len(rows') = n
        /\ \A j \in 1 .. n : rows'[j] = pageState + j
        /\ pageState + n <= total
        /\ more => pageState' = pageState + n
        /\ ~more => pageState' = Iterator!NoState /\ pageState + n = total
        /\ pageState' \in 0 .. Iterator!NoState
        /\ emptyPages' \in 0 .. IteratorEmptyPages
        /\ n = 0 /\ IteratorEmptyPages = 0 => ~more
    <3>1. total \in 0 .. MaxRows
      BY <1>1
    <3> QED
      BY <1>1, <2>1, <2>2, <3>1, PageServed, PagesAssumption
  <2>4. CASE n > 0
    <3>1. yielded' = Append(yielded, Head(rows')) /\ index' = 1 /\ pc' = "idle"
      BY <1>3, <2>4 DEF Iterator!PageArrives
    <3>2. Head(rows') = pageState + 1 /\ Head(rows') \in 1 .. MaxRows
      <4>1. 1 \in 1 .. n /\ Head(rows') = rows'[1] /\ pageState + 1 <= MaxRows
        BY <1>1, <2>3, <2>4
      <4> QED
        BY <1>1, <2>3, <4>1
    <3>3. /\ yielded' \in Seq(1 .. MaxRows) /\ Len(yielded') = Len(yielded) + 1
          /\ \A j \in 1 .. Len(yielded) : yielded'[j] = yielded[j]
          /\ yielded'[Len(yielded) + 1] = Len(yielded) + 1
      BY <2>2, <3>1, <3>2
    <3>4. yielded' = [j \in 1 .. Len(yielded') |-> j]
      <4>1. \A j \in 1 .. Len(yielded') : yielded'[j] = j
        BY <1>1, <2>2, <3>3
      <4> QED
        BY <3>3, <4>1
    <3>5. Iterator!TypeOK'
      BY <1>1, <2>1, <2>3, <2>4, <3>1, <3>3 DEF IteratorInv, Iterator!TypeOK, Iterator!NoState
    <3>6. Iterator!PositionKept'
      <4>1. Len(yielded') + Len(rows') - index' = pageState + n
        <5>1. Len(yielded') = pageState + 1 /\ Len(rows') = n /\ index' = 1
          BY <2>2, <2>3, <3>1, <3>3
        <5>2. pageState \in Nat /\ n \in Nat
          BY <1>1
        <5> QED
          BY <5>1, <5>2
      <4>2. /\ pageState' # Iterator!NoState => more
            /\ pageState' = Iterator!NoState => ~more
        BY <1>1, <2>3
      <4> QED
        BY <2>1, <2>3, <3>4, <4>1, <4>2 DEF Iterator!PositionKept
    <3>7. PageInPlace'
      BY <1>1, <2>1, <2>2, <2>3, <3>1, <3>3 DEF PageInPlace, Iterator!NoState
    <3> QED
      BY <3>5, <3>6, <3>7 DEF IteratorInv
  <2>5. CASE n = 0
    <3>1. index' = 0 /\ pc' = "done" /\ UNCHANGED yielded
      BY <1>3, <2>5 DEF Iterator!PageArrives
    <3>2. Iterator!TypeOK'
      BY <1>1, <2>1, <2>3, <2>5, <3>1 DEF IteratorInv, Iterator!TypeOK, Iterator!NoState
    <3>3. Iterator!PositionKept'
      BY <1>1, <2>1, <2>2, <2>3, <2>5, <3>1 DEF Iterator!PositionKept, Iterator!NoState
    <3>4. PageInPlace'
      BY <1>1, <2>1, <2>2, <2>3, <2>5, <3>1 DEF PageInPlace, Iterator!NoState
    <3> QED
      BY <3>2, <3>3, <3>4 DEF IteratorInv
  <2> QED
    BY <1>1, <2>4, <2>5
<1> QED
  BY <1>2, <1>3

-----------------------------------------------------------------------------
\* What the operations of a ResultStream do to the rows it carries.

\* The operators that the stream takes from the library and from Pages.
LEMMA StreamNames ==
    /\ \A s : Stream!Last(s) = s[Len(s)] /\ Stream!Front(s) = SubSeq(s, 1, Len(s) - 1)
    /\ \A a, b : Stream!Least(a, b) = IF a < b THEN a ELSE b
    /\ \A s, i : Stream!RemoveAt(s, i) = SubSeq(s, 1, i - 1) \o SubSeq(s, i + 1, Len(s))
    /\ Stream!EOF = 0
  BY DEF Stream!Last, Stream!Front, Stream!Least, Stream!RemoveAt, Stream!EOF

\* The first k of a sequence of rows.
LEMMA Beginning ==
    ASSUME NEW s \in Seq(Nat), NEW k \in 0 .. Len(s), NEW t, t = SubSeq(s, 1, k)
    PROVE  t \in Seq(Nat) /\ Len(t) = k /\ \A j \in 1 .. k : t[j] = s[j]
  OBVIOUS

\* The end of a sequence of rows, behind its first k.
LEMMA Remainder ==
    ASSUME NEW s \in Seq(Nat), NEW k \in 0 .. Len(s), NEW t, t = SubSeq(s, k + 1, Len(s))
    PROVE  t \in Seq(Nat) /\ Len(t) = Len(s) - k /\ \A j \in 1 .. Len(s) - k : t[j] = s[k + j]
<1>1. Len(t) = Len(s) - k /\ t \in Seq(Nat)
  OBVIOUS
<1>2. \A j \in 1 .. Len(s) - k : t[j] = s[k + 1 + j - 1]
  OBVIOUS
<1>3. \A j \in 1 .. Len(s) - k : k + 1 + j - 1 = k + j
  OBVIOUS
<1> QED
  BY <1>1, <1>2, <1>3

\* Two sequences one after the other.
LEMMA Joined ==
    ASSUME NEW s \in Seq(Nat), NEW t \in Seq(Nat), NEW u, u = s \o t
    PROVE  /\ u \in Seq(Nat) /\ Len(u) = Len(s) + Len(t)
           /\ \A j \in 1 .. Len(s) : u[j] = s[j]
           /\ \A j \in 1 .. Len(t) : u[Len(s) + j] = t[j]
  OBVIOUS

\* s becomes t without a page being asked for, or with the stored function being called, and
\* that only when the buffer is empty.
Moved(s, t) ==
    \/ t.readNext = s.readNext /\ t.fetches = s.fetches /\ (s.buffer = << >> => t.buffer = << >>)
    \/ s.readNext /\ ~t.readNext /\ t.fetches = s.fetches + 1 /\ t.buffer = << >>

\* _read() pushes what there is room for: the rows stay in order, the null comes last. The
\* stored function is called only when the buffer is empty.
LEMMA DrainCarries ==
    ASSUME NEW s, NEW from \in Nat, NEW to \in Nat, NEW ending \in BOOLEAN,
           Carries(s, from, to, ending), ~s.closed
    PROVE  Carries(Stream!Drain(s), from, to, ending) /\ Moved(s, Stream!Drain(s))
<1> DEFINE room == IF Len(s.pushed) < HighWaterMark THEN HighWaterMark - Len(s.pushed) ELSE 1
           k == IF room < Len(s.buffer) THEN room ELSE Len(s.buffer)
           moved == SubSeq(s.buffer, 1, k)
           rest == SubSeq(s.buffer, Len(moved) + 1, Len(s.buffer))
           close == moved # << >> /\ moved[Len(moved)] = 0
           added == IF close THEN SubSeq(moved, 1, Len(moved) - 1) ELSE moved
           pushed == s.pushed \o added
           paused == moved # << >> /\ (close \/ Len(pushed) >= HighWaterMark)
           call == ~paused /\ rest = << >> /\ s.readNext
           drained == [buffer |-> rest, paused |-> paused, readNext |-> s.readNext /\ ~call,
                       pushed |-> pushed, closed |-> s.closed \/ close,
                       fetches |-> s.fetches + (IF call THEN 1 ELSE 0)]
<1>1. Stream!Drain(s) = drained
  BY StreamNames DEF Stream!Drain
<1>2. /\ s.buffer \in Seq(Nat) /\ s.pushed \in Seq(Nat) /\ s.paused \in BOOLEAN /\ s.readNext \in BOOLEAN
      /\ s.closed = FALSE /\ s.fetches \in Nat /\ Len(s.buffer) \in Nat /\ Len(s.pushed) \in Nat
  BY DEF Carries, Records
<1>3. HighWaterMark \in Nat \ {0}
  BY ReadersAssumption
<1>4. k \in 0 .. Len(s.buffer)
  BY <1>2, <1>3
<1> HIDE DEF k, room
<1>5. moved \in Seq(Nat) /\ Len(moved) = k /\ \A j \in 1 .. k : moved[j] = s.buffer[j]
  BY <1>2, <1>4, Beginning
<1>6. /\ rest \in Seq(Nat) /\ Len(rest) = Len(s.buffer) - k
      /\ \A j \in 1 .. Len(s.buffer) - k : rest[j] = s.buffer[k + j]
  <2>1. rest = SubSeq(s.buffer, k + 1, Len(s.buffer))
    BY <1>5
  <2> HIDE DEF rest
  <2> QED
    BY <1>2, <1>4, <2>1, Remainder
<1> HIDE DEF moved, rest
<1>7. close <=> ending /\ k = Len(s.buffer)
  <2>1. close <=> k # 0 /\ s.buffer[k] = 0
    BY <1>4, <1>5
  <2>2. CASE ~ending
    <3>1. RowsIn(s, ending) = Len(s.buffer)
      BY <2>2 DEF RowsIn
    <3>2. \A j \in 1 .. Len(s.buffer) : s.buffer[j] = from + Len(s.pushed) + j
      BY <3>1 DEF Carries
    <3>3. k # 0 => s.buffer[k] # 0
      BY <1>2, <1>4, <3>2
    <3> QED
      BY <2>1, <2>2, <3>3
  <2>3. CASE ending
    <3>1. RowsIn(s, ending) = Len(s.buffer) - 1 /\ s.buffer[Len(s.buffer)] = 0 /\ Len(s.buffer) - 1 \in Nat
      BY <1>2, <2>3, StreamNames DEF RowsIn, Carries
    <3>2. \A j \in 1 .. Len(s.buffer) - 1 : s.buffer[j] = from + Len(s.pushed) + j
      BY <3>1 DEF Carries
    <3>3. k # 0 /\ k # Len(s.buffer) => s.buffer[k] # 0
      <4>1. k # 0 /\ k # Len(s.buffer) => k \in 1 .. Len(s.buffer) - 1
        BY <1>2, <1>4
      <4>2. \A j \in 1 .. Len(s.buffer) - 1 : from + Len(s.pushed) + j # 0
        BY <1>2
      <4> QED
        BY <3>2, <4>1, <4>2
    <3>4. k # 0
      BY <1>2, <1>3, <3>1 DEF k, room
    <3> QED
      BY <2>1, <2>3, <3>1, <3>3, <3>4
  <2> QED
    BY <2>2, <2>3
<1> HIDE DEF close
<1>8. /\ added \in Seq(Nat) /\ Len(added) = (IF close THEN k - 1 ELSE k) /\ Len(added) \in Nat
      /\ \A j \in 1 .. Len(added) : added[j] = s.buffer[j]
  <2>1. CASE close
    <3>1. k # 0
      BY <1>5, <2>1 DEF close
    <3>2. k - 1 \in 0 .. Len(moved)
      BY <1>2, <1>4, <1>5, <3>1
    <3>3. added = SubSeq(moved, 1, k - 1)
      BY <1>5, <2>1
    <3>4. added \in Seq(Nat) /\ Len(added) = k - 1 /\ \A j \in 1 .. k - 1 : added[j] = moved[j]
      <4> HIDE DEF added
      <4> QED
        BY <1>5, <3>2, <3>3, Beginning
    <3> QED
      BY <1>4, <1>5, <2>1, <3>1, <3>4
  <2>2. CASE ~close
    BY <1>4, <1>5, <2>2
  <2> QED
    BY <2>1, <2>2
<1> HIDE DEF added
<1>9. /\ pushed \in Seq(Nat) /\ Len(pushed) = Len(s.pushed) + Len(added)
      /\ \A j \in 1 .. Len(s.pushed) : pushed[j] = s.pushed[j]
      /\ \A j \in 1 .. Len(added) : pushed[Len(s.pushed) + j] = added[j]
  <2>1. pushed = s.pushed \o added
    OBVIOUS
  <2>2. s.pushed \in Seq(Nat) /\ added \in Seq(Nat)
    BY <1>2, <1>8
  <2> HIDE DEF pushed
  <2> QED
    BY <2>1, <2>2, Joined
<1> HIDE DEF pushed, paused, call
<1>10. paused \in BOOLEAN /\ close \in BOOLEAN /\ call \in BOOLEAN
  BY DEF paused, close, call
<1>11. /\ drained \in Records /\ drained.buffer = rest /\ drained.pushed = pushed /\ drained.closed = close
       /\ drained.readNext = (s.readNext /\ ~call) /\ drained.fetches = s.fetches + (IF call THEN 1 ELSE 0)
  BY <1>2, <1>6, <1>9, <1>10 DEF Records
<1> HIDE DEF drained
<1>12. Len(added) <= RowsIn(s, ending) /\ RowsIn(s, ending) \in Nat
  BY <1>2, <1>4, <1>7, <1>8 DEF RowsIn, Carries
<1>13. \A j \in 1 .. Len(pushed) : pushed[j] = from + j
  <2>1. \A j \in 1 .. Len(s.pushed) : s.pushed[j] = from + j
    BY DEF Carries
  <2>2. \A j \in 1 .. Len(added) : added[j] = from + Len(s.pushed) + j
    BY <1>8, <1>12 DEF Carries
  <2> SUFFICES ASSUME NEW j \in 1 .. Len(pushed)
               PROVE  pushed[j] = from + j
    OBVIOUS
  <2>3. CASE j <= Len(s.pushed)
    BY <1>2, <1>9, <2>1, <2>3
  <2>4. CASE j > Len(s.pushed)
    <3> DEFINE i == j - Len(s.pushed)
    <3>1. i \in 1 .. Len(added) /\ j = Len(s.pushed) + i /\ from + Len(s.pushed) + i = from + j
      BY <1>2, <1>8, <1>9, <2>4
    <3> HIDE DEF i
    <3> QED
      BY <1>9, <2>2, <3>1
  <2> QED
    BY <1>2, <2>3, <2>4
<1>14. RowsIn(drained, ending) = RowsIn(s, ending) - Len(added)
  <2>1. RowsIn(drained, ending) = IF ending /\ ~close THEN Len(rest) - 1 ELSE Len(rest)
    BY <1>11 DEF RowsIn
  <2>2. RowsIn(s, ending) = IF ending THEN Len(s.buffer) - 1 ELSE Len(s.buffer)
    BY <1>2 DEF RowsIn
  <2> QED
    <3>1. Len(rest) = Len(s.buffer) - k /\ Len(s.buffer) \in Nat /\ k \in Nat
      BY <1>2, <1>4, <1>6
    <3>2. CASE close
      <4>1. ending /\ k = Len(s.buffer) /\ Len(added) = k - 1
        BY <1>7, <1>8, <3>2
      <4> QED
        BY <2>1, <2>2, <3>1, <3>2, <4>1
    <3>3. CASE ~close
      <4>1. Len(added) = k
        BY <1>8, <3>3
      <4> QED
        BY <2>1, <2>2, <3>1, <3>3, <4>1
    <3> QED
      BY <3>2, <3>3
<1>15. RowsIn(drained, ending) \in Nat /\ from + Len(pushed) + RowsIn(drained, ending) = to
  <2>1. from + Len(s.pushed) + RowsIn(s, ending) = to
    BY DEF Carries
  <2> QED
    BY <1>2, <1>8, <1>9, <1>12, <1>14, <2>1
<1>16. close => rest = << >>
  BY <1>6, <1>7, <1>2
<1>17. \A j \in 1 .. RowsIn(drained, ending) : rest[j] = from + Len(pushed) + j
  <2>1. CASE close
    <3>1. RowsIn(drained, ending) = 0
      BY <1>11, <1>16, <2>1 DEF RowsIn
    <3> QED
      BY <3>1
  <2>2. CASE ~close
    <3> SUFFICES ASSUME NEW j \in 1 .. RowsIn(drained, ending)
                 PROVE  rest[j] = from + Len(pushed) + j
      OBVIOUS
    <3>1. Len(added) = k /\ k \in Nat
      BY <1>4, <1>8, <2>2
    <3>2. j \in 1 .. Len(s.buffer) - k /\ k + j \in 1 .. RowsIn(s, ending)
      BY <1>2, <1>12, <1>14, <3>1 DEF RowsIn
    <3>3. rest[j] = from + Len(s.pushed) + (k + j)
      BY <1>6, <3>2 DEF Carries
    <3>5. j \in Nat /\ Len(pushed) = Len(s.pushed) + k /\ Len(pushed) \in Nat
      BY <1>9, <3>1
    <3>6. from + Len(s.pushed) + (k + j) = from + Len(pushed) + j
      <4> DEFINE p == Len(s.pushed)
                 q == Len(pushed)
      <4>1. p \in Nat /\ q \in Nat /\ k \in Nat /\ j \in Nat /\ from \in Nat /\ q = p + k
        BY <1>2, <3>1, <3>5
      <4> HIDE DEF p, q
      <4>2. from + p + (k + j) = from + q + j
        BY <4>1
      <4> QED
        BY <4>2 DEF p, q
    <3> QED
      BY <3>3, <3>6
  <2> QED
    BY <2>1, <2>2
<1>18. ending /\ ~close => rest[Len(rest)] = Stream!EOF
  <2> SUFFICES ASSUME ending, ~close
               PROVE  rest[Len(rest)] = Stream!EOF
    OBVIOUS
  <2>1. k # Len(s.buffer) /\ s.buffer[Len(s.buffer)] = Stream!EOF
    BY <1>2, <1>7 DEF Carries
  <2>2. Len(s.buffer) - k \in 1 .. Len(s.buffer) - k /\ k + (Len(s.buffer) - k) = Len(s.buffer)
    BY <1>2, <1>4, <2>1
  <2> QED
    BY <1>6, <2>1, <2>2
<1>19. Carries(drained, from, to, ending)
  BY <1>7, <1>11, <1>13, <1>15, <1>16, <1>17, <1>18 DEF Carries
<1>20. Moved(s, drained)
  <2>1. CASE call
    BY <1>11, <2>1 DEF call, Moved
  <2>2. CASE ~call
    <3>1. s.buffer = << >> => rest = << >>
      <4>1. s.buffer = << >> => Len(rest) = 0
        BY <1>2, <1>4, <1>6
      <4> QED
        BY <1>6, <4>1
    <3> QED
      BY <1>2, <1>11, <2>2, <3>1 DEF Moved
  <2> QED
    BY <2>1, <2>2
<1> QED
  BY <1>1, <1>19, <1>20

\* The rows that are carried depend on the buffers only, not on the valve.
LEMMA SameRows ==
    ASSUME NEW s, NEW from \in Nat, NEW to \in Nat, NEW ending \in BOOLEAN, Carries(s, from, to, ending),
           NEW t \in Records, t.buffer = s.buffer, t.pushed = s.pushed, t.closed = s.closed
    PROVE  Carries(t, from, to, ending)
<1>1. RowsIn(t, ending) = RowsIn(s, ending)
  BY DEF RowsIn
<1> QED
  BY <1>1 DEF Carries

\* The valve is opened or closed, and nextPage() is called or not: s becomes t.
Turned(s, t, readNext, fetches) ==
    /\ t \in Records /\ t.buffer = s.buffer /\ t.pushed = s.pushed /\ t.closed = s.closed
    /\ t.readNext = readNext /\ t.fetches = fetches

\* Nothing but the valve and the calls changes.
LEMMA ValveTurned ==
    ASSUME NEW s \in Records, NEW r \in BOOLEAN, NEW f \in Nat
    PROVE  /\ Turned(s, [s EXCEPT !.readNext = r], r, s.fetches)
           /\ Turned(s, [s EXCEPT !.fetches = f], s.readNext, f)
           /\ Turned(s, [s EXCEPT !.readNext = r, !.fetches = f], r, f)
<1>1. Turned(s, [s EXCEPT !.readNext = r], r, s.fetches)
  BY DEF Turned, Records
<1>2. ASSUME NEW t \in Records
      PROVE  Turned(t, [t EXCEPT !.fetches = f], t.readNext, f)
  BY DEF Turned, Records
<1>3. Turned(s, [s EXCEPT !.readNext = r, !.fetches = f], r, f)
  <2> DEFINE t == [s EXCEPT !.readNext = r]
  <2>1. Turned(s, t, r, s.fetches)
    BY <1>1
  <2>2. [s EXCEPT !.readNext = r, !.fetches = f] = [t EXCEPT !.fetches = f]
    BY Zenon
  <2> HIDE DEF t
  <2>3. Turned(t, [t EXCEPT !.fetches = f], t.readNext, f)
    BY <1>2, <2>1 DEF Turned
  <2>4. Turned(s, [t EXCEPT !.fetches = f], r, f)
    BY <2>1, <2>3, Zenon DEF Turned
  <2> QED
    BY <2>2, <2>4, Zenon
<1> QED
  BY <1>1, <1>2, <1>3

\* read(0) moves rows, or nothing.
LEMMA ReadZeroCarries ==
    ASSUME NEW s, NEW from \in Nat, NEW to \in Nat, NEW ending \in BOOLEAN, Carries(s, from, to, ending)
    PROVE  Carries(Stream!ReadZero(s), from, to, ending) /\ Moved(s, Stream!ReadZero(s))
<1>1. CASE ~s.closed /\ Len(s.pushed) < HighWaterMark
  <2>1. Stream!ReadZero(s) = Stream!Drain(s)
    BY <1>1 DEF Stream!ReadZero
  <2> QED
    BY <1>1, <2>1, DrainCarries
<1>2. CASE ~(~s.closed /\ Len(s.pushed) < HighWaterMark)
  <2>1. Stream!ReadZero(s) = s
    BY <1>2 DEF Stream!ReadZero
  <2> QED
    BY <2>1 DEF Moved
<1> QED
  BY <1>1, <1>2

\* The chunks are n rows after the row "to".
RowsAfter(chunks, to, n) ==
    /\ chunks \in Seq(Nat) /\ Len(chunks) = n
    /\ \A j \in 1 .. n : chunks[j] = to + j

\* s becomes t, which carries the rows up to the row "to", and no page is asked for.
Extended(s, t, from, to) ==
    Carries(t, from, to, FALSE) /\ t.readNext = FALSE /\ t.fetches = s.fetches

\* add() puts the rows of the next page behind the others.
LEMMA AddCarries ==
    ASSUME NEW s, NEW from \in Nat, NEW to \in Nat, Carries(s, from, to, FALSE), s.readNext = FALSE,
           NEW n \in Nat, NEW chunks, RowsAfter(chunks, to, n)
    PROVE  Extended(s, Stream!Add(s, chunks), from, to + n)
<1>1. chunks \in Seq(Nat) /\ Len(chunks) = n /\ \A j \in 1 .. n : chunks[j] = to + j
  BY DEF RowsAfter
<1>2. CASE n = 0
  <2>1. Stream!Add(s, chunks) = s /\ to + n = to
    BY <1>1, <1>2 DEF Stream!Add
  <2> QED
    BY <2>1 DEF Extended
<1>3. CASE n # 0
  <2> DEFINE buffer == s.buffer \o chunks
             t == [s EXCEPT !.buffer = buffer]
  <2>1. Stream!Add(s, chunks) = Stream!ReadZero(t)
    BY <1>1, <1>3 DEF Stream!Add
  <2>2. /\ s \in Records /\ s.buffer \in Seq(Nat) /\ s.pushed \in Seq(Nat) /\ s.closed = FALSE
        /\ Len(s.buffer) \in Nat /\ Len(s.pushed) \in Nat
    BY DEF Carries, Records
  <2>3. /\ buffer \in Seq(Nat) /\ Len(buffer) = Len(s.buffer) + n
        /\ \A j \in 1 .. Len(s.buffer) : buffer[j] = s.buffer[j]
        /\ \A j \in 1 .. n : buffer[Len(s.buffer) + j] = chunks[j]
    <3>1. buffer = s.buffer \o chunks /\ s.buffer \in Seq(Nat) /\ chunks \in Seq(Nat)
      BY <1>1, <2>2
    <3> HIDE DEF buffer
    <3>2. /\ buffer \in Seq(Nat) /\ Len(buffer) = Len(s.buffer) + Len(chunks)
          /\ \A j \in 1 .. Len(s.buffer) : buffer[j] = s.buffer[j]
          /\ \A j \in 1 .. Len(chunks) : buffer[Len(s.buffer) + j] = chunks[j]
      BY <3>1, Joined
    <3> QED
      BY <1>1, <3>2
  <2> HIDE DEF buffer
  <2>4. /\ t \in Records /\ t.buffer = buffer /\ t.pushed = s.pushed /\ t.closed = FALSE
        /\ t.readNext = FALSE /\ t.fetches = s.fetches
    BY <2>2, <2>3 DEF Records
  <2> HIDE DEF t
  <2>5. RowsIn(s, FALSE) = Len(s.buffer) /\ RowsIn(t, FALSE) = Len(s.buffer) + n
    BY <2>3, <2>4 DEF RowsIn
  <2>6. /\ from + Len(s.pushed) + Len(s.buffer) = to
        /\ \A j \in 1 .. Len(s.pushed) : s.pushed[j] = from + j
        /\ \A j \in 1 .. Len(s.buffer) : s.buffer[j] = from + Len(s.pushed) + j
    BY <2>5 DEF Carries
  <2> DEFINE p == Len(s.pushed)
             b == Len(s.buffer)
  <2>12. p \in Nat /\ b \in Nat /\ from + p + b = to
    BY <2>2, <2>6
  <2> HIDE DEF p, b
  <2>13. from + p + (b + n) = to + n /\ b + n \in Nat
    BY <2>12
  <2>7. from + Len(s.pushed) + (Len(s.buffer) + n) = to + n /\ Len(s.buffer) + n \in Nat
    BY <2>13 DEF p, b
  <2>8. \A j \in 1 .. Len(s.buffer) + n : buffer[j] = from + Len(s.pushed) + j
    <3> SUFFICES ASSUME NEW j \in 1 .. Len(s.buffer) + n
                 PROVE  buffer[j] = from + Len(s.pushed) + j
      OBVIOUS
    <3>1. CASE j <= Len(s.buffer)
      BY <2>2, <2>3, <2>6, <3>1
    <3>2. CASE j > Len(s.buffer)
      <4> DEFINE i == j - Len(s.buffer)
      <4>1. j \in Nat /\ j > b /\ j <= b + n
        BY <2>2, <3>2 DEF b
      <4>2. i \in 1 .. n /\ j = Len(s.buffer) + i
        BY <2>2, <3>2
      <4>3. to + (j - b) = from + p + j
        BY <2>12, <4>1
      <4>4. to + i = from + Len(s.pushed) + j
        BY <4>3 DEF p, b
      <4> HIDE DEF i
      <4> QED
        BY <1>1, <2>3, <4>2, <4>4
    <3> QED
      BY <2>2, <3>1, <3>2
  <2>9. Carries(t, from, to + n, FALSE)
    <3>1. RowsIn(t, FALSE) \in Nat /\ from + Len(t.pushed) + RowsIn(t, FALSE) = to + n
      BY <2>4, <2>5, <2>7
    <3>2. \A j \in 1 .. Len(t.pushed) : t.pushed[j] = from + j
      BY <2>4, <2>6
    <3>3. \A j \in 1 .. RowsIn(t, FALSE) : t.buffer[j] = from + Len(t.pushed) + j
      BY <2>4, <2>5, <2>8
    <3> QED
      BY <2>4, <3>1, <3>2, <3>3 DEF Carries
  <2>10. to + n \in Nat
    OBVIOUS
  <2>11. /\ Carries(Stream!ReadZero(t), from, to + n, FALSE)
         /\ \/ Stream!ReadZero(t).readNext = t.readNext /\ Stream!ReadZero(t).fetches = t.fetches
            \/ t.readNext
    BY <2>9, <2>10, ReadZeroCarries DEF Moved
  <2> QED
    BY <2>1, <2>4, <2>11 DEF Extended
<1> QED
  BY <1>2, <1>3

\* The end of onFinish(): the null goes behind the rows, and nothing is fetched any more.
LEMMA CloseCarries ==
    ASSUME NEW s, NEW from \in Nat, NEW to \in Nat, Carries(s, from, to, FALSE)
    PROVE  /\ Carries(Stream!Close(s), from, to, TRUE)
           /\ Stream!Close(s).readNext = FALSE /\ Stream!Close(s).fetches = s.fetches
<1> DEFINE buffer == s.buffer \o <<0>>
           t == [[s EXCEPT !.readNext = FALSE] EXCEPT !.buffer = buffer]
<1>1. Stream!Close(s) = Stream!ReadZero(t)
  <2>1. Stream!DropValve(s) = [s EXCEPT !.readNext = FALSE] /\ <<Stream!EOF>> = <<0>> /\ <<0>> # << >>
    BY StreamNames DEF Stream!DropValve
  <2>2. s \in Records
    BY DEF Carries
  <2>3. [s EXCEPT !.readNext = FALSE].buffer = s.buffer
    BY <2>2 DEF Records
  <2> QED
    BY <2>1, <2>3 DEF Stream!Close, Stream!Add
<1>2. /\ s \in Records /\ s.buffer \in Seq(Nat) /\ s.pushed \in Seq(Nat) /\ s.closed = FALSE
      /\ Len(s.buffer) \in Nat /\ Len(s.pushed) \in Nat
  BY DEF Carries, Records
<1>3. /\ buffer \in Seq(Nat) /\ Len(buffer) = Len(s.buffer) + 1
      /\ \A j \in 1 .. Len(s.buffer) : buffer[j] = s.buffer[j]
      /\ buffer[Len(s.buffer) + 1] = 0
  BY <1>2
<1> HIDE DEF buffer
<1>4. /\ t \in Records /\ t.buffer = buffer /\ t.pushed = s.pushed /\ t.closed = FALSE
      /\ t.readNext = FALSE /\ t.fetches = s.fetches
  BY <1>2, <1>3 DEF Records
<1> HIDE DEF t
<1>5. RowsIn(s, FALSE) = Len(s.buffer) /\ RowsIn(t, TRUE) = Len(s.buffer)
  BY <1>2, <1>3, <1>4 DEF RowsIn
<1>6. /\ from + Len(s.pushed) + Len(s.buffer) = to
      /\ \A j \in 1 .. Len(s.pushed) : s.pushed[j] = from + j
      /\ \A j \in 1 .. Len(s.buffer) : s.buffer[j] = from + Len(s.pushed) + j
  BY <1>5 DEF Carries
<1>7. \A j \in 1 .. Len(s.buffer) : buffer[j] = from + Len(s.pushed) + j
  BY <1>3, <1>6
<1>8. buffer[Len(buffer)] = Stream!EOF
  BY <1>3, StreamNames
<1>9. Carries(t, from, to, TRUE)
  BY <1>2, <1>4, <1>5, <1>6, <1>7, <1>8 DEF Carries
<1>10. /\ Carries(Stream!ReadZero(t), from, to, TRUE)
       /\ \/ Stream!ReadZero(t).readNext = t.readNext /\ Stream!ReadZero(t).fetches = t.fetches
          \/ t.readNext
  BY <1>9, ReadZeroCarries DEF Moved
<1> QED
  BY <1>1, <1>4, <1>10

\* s becomes t, which carries the rows behind the row "from".
Took(s, t, from, to, ending) ==
    /\ Carries(t, from, to, ending) /\ t.readNext = s.readNext /\ t.fetches = s.fetches
    /\ t.buffer = s.buffer /\ t.closed = s.closed
    /\ Head(s.pushed) = from

\* read() takes the first row out of the Readable.
LEMMA TakeCarries ==
    ASSUME NEW s, NEW from \in Nat, NEW to \in Nat, NEW ending \in BOOLEAN, Carries(s, from, to, ending),
           s.pushed # << >>, NEW t, t = [s EXCEPT !.pushed = SubSeq(s.pushed, 2, Len(s.pushed))]
    PROVE  Took(s, t, from + 1, to, ending)
<1> DEFINE pushed == SubSeq(s.pushed, 2, Len(s.pushed))
<1>1. s \in Records /\ s.pushed \in Seq(Nat) /\ Len(s.pushed) \in Nat \ {0}
  BY DEF Carries, Records
<1>2. /\ pushed \in Seq(Nat) /\ Len(pushed) = Len(s.pushed) - 1
      /\ \A j \in 1 .. Len(s.pushed) - 1 : pushed[j] = s.pushed[1 + j]
  <2>1. 1 \in 0 .. Len(s.pushed) /\ s.pushed \in Seq(Nat)
    BY <1>1
  <2>2. pushed = SubSeq(s.pushed, 1 + 1, Len(s.pushed))
    <3>1. 1 + 1 = 2
      OBVIOUS
    <3> QED
      BY <3>1, Zenon
  <2> HIDE DEF pushed
  <2> QED
    BY <2>1, <2>2, Remainder, Zenon
<1>3. t = [s EXCEPT !.pushed = pushed]
  OBVIOUS
<1> HIDE DEF pushed
<1>4. /\ t \in Records /\ t.pushed = pushed /\ t.buffer = s.buffer /\ t.closed = s.closed
      /\ t.readNext = s.readNext /\ t.fetches = s.fetches
  BY <1>1, <1>2, <1>3 DEF Records
<1>5. RowsIn(t, ending) = RowsIn(s, ending)
  BY <1>4 DEF RowsIn
<1>6. /\ s.closed => ending /\ s.buffer = << >>
      /\ RowsIn(s, ending) \in Nat /\ from + Len(s.pushed) + RowsIn(s, ending) = to
      /\ ending /\ ~s.closed => s.buffer[Len(s.buffer)] = Stream!EOF
  BY DEF Carries
<1>7. \A j \in 1 .. Len(s.pushed) : s.pushed[j] = from + j
  BY DEF Carries
<1>8. \A j \in 1 .. RowsIn(s, ending) : s.buffer[j] = from + Len(s.pushed) + j
  BY DEF Carries
<1>9. from + Len(s.pushed) = from + 1 + Len(pushed)
  BY <1>1, <1>2
<1>10. from + 1 + Len(pushed) + RowsIn(s, ending) = to
  BY <1>6, <1>9
<1>11. \A j \in 1 .. Len(pushed) : pushed[j] = from + 1 + j
  <2> SUFFICES ASSUME NEW j \in 1 .. Len(pushed)
               PROVE  pushed[j] = from + 1 + j
    OBVIOUS
  <2> DEFINE p == Len(s.pushed)
  <2>2. p \in Nat \ {0} /\ j \in 1 .. p - 1
    <3>1. p \in Nat \ {0} /\ Len(pushed) = p - 1
      BY <1>1, <1>2
    <3> QED
      BY <3>1
  <2> HIDE DEF p
  <2>3. 1 + j \in 1 .. p /\ from + (1 + j) = from + 1 + j
    BY <2>2
  <2>1. 1 + j \in 1 .. Len(s.pushed) /\ from + (1 + j) = from + 1 + j /\ j \in 1 .. Len(s.pushed) - 1
    BY <2>2, <2>3 DEF p
  <2> QED
    BY <1>2, <1>7, <2>1
<1>12. \A j \in 1 .. RowsIn(s, ending) : s.buffer[j] = from + 1 + Len(pushed) + j
  BY <1>8, <1>9
<1>13. Carries(t, from + 1, to, ending)
  BY <1>4, <1>5, <1>6, <1>10, <1>11, <1>12 DEF Carries
<1>14. Head(s.pushed) = from + 1
  BY <1>1, <1>7
<1> QED
  BY <1>4, <1>13, <1>14 DEF Took

\* Sequences whose elements are known.
LEMMA Retyped ==
    ASSUME NEW s \in Seq(Nat), NEW S, \A j \in 1 .. Len(s) : s[j] \in S
    PROVE  s \in Seq(S)
  OBVIOUS

\* The rows that are carried are rows of the result, and the null is no row.
LEMMA RecordTyped ==
    ASSUME NEW s, NEW from \in Nat, NEW to \in Nat, NEW ending \in BOOLEAN, Carries(s, from, to, ending),
           to <= MaxRows, s.fetches = 0
    PROVE  s \in [buffer : Seq(0 .. MaxRows), paused : BOOLEAN, readNext : BOOLEAN,
                  pushed : Seq((0 .. MaxRows) \ {0}), closed : BOOLEAN, fetches : {0}]
<1>1. /\ s \in Records /\ s.buffer \in Seq(Nat) /\ s.pushed \in Seq(Nat)
      /\ Len(s.buffer) \in Nat /\ Len(s.pushed) \in Nat
  BY DEF Carries, Records
<1>2. MaxRows \in Nat
  BY PagesAssumption
<1>3. /\ RowsIn(s, ending) \in Nat /\ from + Len(s.pushed) + RowsIn(s, ending) = to
      /\ s.closed => s.buffer = << >>
      /\ ending /\ ~s.closed => s.buffer[Len(s.buffer)] = 0
  BY StreamNames DEF Carries
<1>4. \A j \in 1 .. Len(s.pushed) : s.pushed[j] \in (0 .. MaxRows) \ {0}
  <2>1. \A j \in 1 .. Len(s.pushed) : s.pushed[j] = from + j
    BY DEF Carries
  <2>2. \A j \in 1 .. Len(s.pushed) : from + j \in (0 .. MaxRows) \ {0}
    BY <1>1, <1>2, <1>3
  <2> QED
    BY <2>1, <2>2
<1>5. \A j \in 1 .. Len(s.buffer) : s.buffer[j] \in 0 .. MaxRows
  <2>1. \A j \in 1 .. RowsIn(s, ending) : s.buffer[j] = from + Len(s.pushed) + j
    BY DEF Carries
  <2>2. \A j \in 1 .. RowsIn(s, ending) : from + Len(s.pushed) + j \in 0 .. MaxRows
    BY <1>1, <1>2, <1>3
  <2>3. CASE ending /\ ~s.closed
    <3>1. RowsIn(s, ending) = Len(s.buffer) - 1 /\ s.buffer[Len(s.buffer)] = 0
      BY <1>3, <2>3 DEF RowsIn
    <3>2. \A j \in 1 .. Len(s.buffer) : j \in 1 .. RowsIn(s, ending) \/ j = Len(s.buffer)
      BY <1>1, <3>1
    <3>3. 0 \in 0 .. MaxRows
      BY <1>2
    <3> QED
      BY <2>1, <2>2, <3>1, <3>2, <3>3
  <2>4. CASE ~(ending /\ ~s.closed)
    <3>1. RowsIn(s, ending) = Len(s.buffer)
      BY <2>4 DEF RowsIn
    <3> QED
      BY <2>1, <2>2, <3>1
  <2> QED
    BY <2>3, <2>4
<1>6. s.buffer \in Seq(0 .. MaxRows)
  <2>1. s.buffer \in Seq(Nat)
    BY <1>1
  <2> QED
    BY <1>5, <2>1, Retyped, Zenon
<1>7. s.pushed \in Seq((0 .. MaxRows) \ {0})
  <2>1. s.pushed \in Seq(Nat)
    BY <1>1
  <2> QED
    BY <1>4, <2>1, Retyped, Zenon
<1> QED
  BY <1>1, <1>6, <1>7 DEF Records

-----------------------------------------------------------------------------
\* The steps of stream().

\* The types follow from the places of the rows.
LEMMA StreamTyped ==
    ASSUME total' \in 0 .. MaxRows, autoPage' \in BOOLEAN, emptyPages' \in Nat, refused' \in BOOLEAN,
           requests' \in {<< >>, <<rowLength'>>}, pagingState' \in 0 .. MaxRows, rowLength' \in Nat,
           awake' \in BOOLEAN, failed' \in BOOLEAN, ended' \in BOOLEAN, callbacks' \in {0, 1},
           consumed' \in Seq(Nat), RowsInPlace', OneTurn', EndInPlace'
    PROVE  StreamInv'
<1>1. MaxRows \in Nat /\ total' \in Nat /\ total' <= MaxRows /\ Len(consumed') \in Nat
  BY PagesAssumption
<1>2. /\ \A j \in 1 .. Len(consumed') : consumed'[j] = j
      /\ Carries(rs', Len(consumed'), rowLength', callbacks' = 1) /\ rs'.fetches = 0 /\ rowLength' <= total'
  BY DEF RowsInPlace
<1>3. rowLength' <= MaxRows
  BY <1>1, <1>2
<1>4. rs' \in [buffer : Seq(0 .. MaxRows), paused : BOOLEAN, readNext : BOOLEAN,
               pushed : Seq((0 .. MaxRows) \ {0}), closed : BOOLEAN, fetches : {0}]
  <2>1. (callbacks' = 1) \in BOOLEAN
    OBVIOUS
  <2> QED
    BY <1>1, <1>2, <1>3, <2>1, RecordTyped
<1>5. Len(consumed') <= rowLength'
  <2>1. /\ rs'.pushed \in Seq(Nat) /\ RowsIn(rs', callbacks' = 1) \in Nat
        /\ Len(consumed') + Len(rs'.pushed) + RowsIn(rs', callbacks' = 1) = rowLength'
    BY <1>2 DEF Carries, Records
  <2> QED
    BY <1>1, <2>1
<1>6. \A j \in 1 .. Len(consumed') : consumed'[j] \in (0 .. MaxRows) \ {0}
  BY <1>1, <1>2, <1>3, <1>5
<1>7. consumed' \in Seq((0 .. MaxRows) \ {0})
  BY <1>6
<1>8. requests' \in Seq(0 .. MaxRows)
  <2>1. rowLength' \in 0 .. MaxRows
    BY <1>1, <1>3
  <2>2. << >> \in Seq(0 .. MaxRows) /\ \A r \in 0 .. MaxRows : <<r>> \in Seq(0 .. MaxRows)
    OBVIOUS
  <2> QED
    BY <2>1, <2>2
<1>9. Stream!TypeOK'
  <2>1. Stream!Chunk = 0 .. MaxRows /\ Stream!Chunk \ {Stream!EOF} = (0 .. MaxRows) \ {0}
    BY DEF Stream!Chunk, Stream!EOF
  <2>2. consumed' \in Seq(Stream!Chunk \ {Stream!EOF})
    BY <1>7, <2>1, Zenon
  <2>3. rs' \in [buffer : Seq(Stream!Chunk), paused : BOOLEAN, readNext : BOOLEAN,
                 pushed : Seq(Stream!Chunk \ {Stream!EOF}), closed : BOOLEAN, fetches : {0}]
    BY <1>4, <2>1, Zenon
  <2>4. callbacks' \in Nat
    OBVIOUS
  <2> QED
    BY <1>8, <2>2, <2>3, <2>4, Zenon DEF Stream!TypeOK
<1> QED
  BY <1>9 DEF StreamInv

\* What StreamInv says when the records are taken apart.
LEMMA StreamFacts ==
    ASSUME StreamInv
    PROVE  /\ total \in Nat /\ total <= MaxRows /\ MaxRows \in Nat /\ autoPage \in BOOLEAN /\ emptyPages \in Nat
           /\ refused \in BOOLEAN /\ pagingState \in 0 .. MaxRows /\ rowLength \in Nat /\ rowLength <= total
           /\ awake \in BOOLEAN /\ failed \in BOOLEAN /\ ended \in BOOLEAN /\ callbacks \in {0, 1}
           /\ consumed \in Seq(Nat) /\ Len(consumed) \in Nat /\ \A j \in 1 .. Len(consumed) : consumed[j] = j
           /\ Carries(rs, Len(consumed), rowLength, callbacks = 1)
           /\ rs.fetches = 0 /\ rs \in Records /\ rs.readNext \in BOOLEAN
           /\ requests \in {<< >>, <<rowLength>>}
           /\ rs.readNext => pagingState = rowLength /\ ~autoPage
<1>1. /\ total \in 0 .. MaxRows /\ autoPage \in BOOLEAN /\ emptyPages \in Nat /\ refused \in BOOLEAN
      /\ requests \in Seq(0 .. MaxRows) /\ pagingState \in 0 .. MaxRows /\ rowLength \in Nat
      /\ awake \in BOOLEAN /\ failed \in BOOLEAN /\ ended \in BOOLEAN
      /\ consumed \in Seq(Stream!Chunk \ {Stream!EOF})
  BY DEF StreamInv, Stream!TypeOK
<1>2. MaxRows \in Nat /\ total \in Nat /\ total <= MaxRows
  BY <1>1, PagesAssumption
<1>3. consumed \in Seq(Nat) /\ Len(consumed) \in Nat
  <2>1. Stream!Chunk \ {Stream!EOF} \subseteq Nat
    BY <1>2 DEF Stream!Chunk
  <2> DEFINE S == Stream!Chunk \ {Stream!EOF}
  <2>2. consumed \in Seq(S) /\ S \subseteq Nat
    BY <1>1, <2>1
  <2> HIDE DEF S
  <2>3. consumed \in [1 .. Len(consumed) -> S] /\ Len(consumed) \in Nat
    BY <2>2
  <2>4. consumed \in [1 .. Len(consumed) -> Nat]
    BY <2>2, <2>3
  <2> QED
    BY <2>3, <2>4
<1>4. /\ \A j \in 1 .. Len(consumed) : consumed[j] = j
      /\ Carries(rs, Len(consumed), rowLength, callbacks = 1) /\ rs.fetches = 0 /\ rowLength <= total
      /\ rs.readNext => pagingState = rowLength /\ ~autoPage
  BY DEF StreamInv, RowsInPlace
<1>5. rs \in Records /\ rs.readNext \in BOOLEAN
  BY <1>4 DEF Carries, Records
<1>6. callbacks \in {0, 1} /\ requests \in {<< >>, <<rowLength>>}
  BY DEF StreamInv, OneTurn
<1> QED
  BY <1>1, <1>2, <1>3, <1>4, <1>5, <1>6

\* A stream starts with the first request, or with the failure of the options to come.
LEMMA StreamStarts ==
    ASSUME Stream!Init
    PROVE  StreamInv
<1>1. /\ rs = [buffer |-> << >>, paused |-> TRUE, readNext |-> FALSE,
               pushed |-> << >>, closed |-> FALSE, fetches |-> 0]
      /\ total \in 0 .. MaxRows /\ autoPage \in BOOLEAN /\ emptyPages = 0 /\ refused \in BOOLEAN
      /\ requests = (IF refused THEN << >> ELSE <<0>>) /\ pagingState = 0 /\ rowLength = 0 /\ awake = TRUE
      /\ consumed = << >> /\ failed = FALSE /\ ended = FALSE /\ callbacks = 0
  BY DEF Stream!Init, Stream!Fresh
<1>2. rs.buffer = << >> /\ rs.readNext = FALSE /\ rs.pushed = << >> /\ rs.closed = FALSE /\ rs.fetches = 0
  BY <1>1
<1>3. MaxRows \in Nat /\ total \in Nat
  BY <1>1, PagesAssumption
<1>4. << >> \in Seq(Nat) /\ \A S : << >> \in Seq(S)
  OBVIOUS
<1>5. rs \in Records
  BY <1>1, <1>4 DEF Records
<1>6. RowsIn(rs, FALSE) = 0
  BY <1>2 DEF RowsIn
<1>7. Carries(rs, 0, 0, FALSE)
  <2>1. Len(rs.pushed) = 0 /\ 0 + 0 + 0 = 0
    BY <1>2
  <2>2. 1 .. Len(rs.pushed) = {} /\ 1 .. RowsIn(rs, FALSE) = {}
    <3>1. 1 .. 0 = {}
      OBVIOUS
    <3> QED
      BY <1>6, <2>1, <3>1, Zenon
  <2>3. 0 \in Nat
    OBVIOUS
  <2>4. RowsIn(rs, FALSE) \in Nat /\ 0 + Len(rs.pushed) + RowsIn(rs, FALSE) = 0
    BY <1>6, <2>1, <2>3, Zenon
  <2> QED
    BY <1>2, <1>5, <2>2, <2>4, Zenon DEF Carries
<1>8. RowsInPlace
  <2>1. Len(consumed) = 0 /\ (callbacks = 1) = FALSE
    BY <1>1
  <2>3. Carries(rs, Len(consumed), rowLength, callbacks = 1)
    <3>1. rowLength = 0
      BY <1>1
    <3> QED
      BY <1>7, <2>1, <3>1, Zenon
  <2>4. rowLength <= total /\ ~rs.readNext
    BY <1>1, <1>2, <1>3
  <2> QED
    BY <1>2, <2>1, <2>3, <2>4 DEF RowsInPlace
<1>9. OneTurn /\ EndInPlace
  BY <1>1, <1>2 DEF OneTurn, EndInPlace
<1>10. Stream!TypeOK
  <2>1. rs \in [buffer : Seq(Stream!Chunk), paused : BOOLEAN, readNext : BOOLEAN,
                pushed : Seq(Stream!Chunk \ {Stream!EOF}), closed : BOOLEAN, fetches : {0}]
    BY <1>1, <1>4
  <2>2. requests \in Seq(0 .. MaxRows) /\ 0 \in 0 .. MaxRows
    <3>1. 0 \in 0 .. MaxRows
      BY <1>3
    <3>2. <<0>> \in Seq(0 .. MaxRows)
      BY <3>1
    <3>3. requests = << >> \/ requests = <<0>>
      BY <1>1
    <3> QED
      BY <1>4, <3>1, <3>2, <3>3
  <2>3. consumed \in Seq(Stream!Chunk \ {Stream!EOF})
    BY <1>1, <1>4
  <2> QED
    BY <1>1, <2>1, <2>2, <2>3 DEF Stream!TypeOK
<1> QED
  BY <1>8, <1>9, <1>10 DEF StreamInv

\* What is left of the requests when one of them is answered, and the calls of nextPage() that
\* the ResultStream has made since.
LEMMA RequestsMade ==
    ASSUME NEW r \in Nat, NEW state \in Nat
    PROVE  /\ Stream!RemoveAt(<<r>>, 1) = << >>
           /\ << >> \o [j \in 1 .. 0 |-> state] = << >> /\ << >> \o [j \in 1 .. 1 |-> state] = <<state>>
           /\ <<r>> \o [j \in 1 .. 0 |-> state] = <<r>>
<1>1. Stream!RemoveAt(<<r>>, 1) = << >>
  <2>1. Stream!RemoveAt(<<r>>, 1) = SubSeq(<<r>>, 1, 0) \o SubSeq(<<r>>, 2, 1)
    <3>1. Stream!RemoveAt(<<r>>, 1) = SubSeq(<<r>>, 1, 1 - 1) \o SubSeq(<<r>>, 1 + 1, Len(<<r>>))
      BY StreamNames, Zenon
    <3>2. 1 - 1 = 0 /\ 1 + 1 = 2 /\ Len(<<r>>) = 1
      OBVIOUS
    <3> QED
      BY <3>1, <3>2, Zenon
  <2>2. SubSeq(<<r>>, 1, 0) = << >> /\ SubSeq(<<r>>, 2, 1) = << >>
    OBVIOUS
  <2> QED
    BY <2>1, <2>2
<1>2. [j \in 1 .. 0 |-> state] = << >> /\ [j \in 1 .. 1 |-> state] = <<state>>
  OBVIOUS
<1> QED
  BY <1>1, <1>2

\* A page: its rows go behind the others, and what follows it is the next request, a request
\* behind the valve, or the end.
LEMMA PageArrivesKeeps ==
    ASSUME StreamInv, NEW i \in DOMAIN requests, NEW n \in 0 .. PageSize, NEW more \in BOOLEAN,
           Stream!PageArrives(i, n, more)
    PROVE  StreamInv'
<1> DEFINE chunks == [j \in 1 .. n |-> rowLength + j]
           added == Stream!Add(rs, chunks)
           after == Stream!After(added, more)
           state == IF more THEN rowLength + n ELSE pagingState
<1>1. /\ total \in Nat /\ total <= MaxRows /\ MaxRows \in Nat /\ autoPage \in BOOLEAN /\ emptyPages \in Nat
      /\ refused \in BOOLEAN /\ pagingState \in 0 .. MaxRows /\ rowLength \in Nat /\ rowLength <= total
      /\ awake \in BOOLEAN /\ failed \in BOOLEAN /\ ended \in BOOLEAN
      /\ consumed \in Seq(Nat) /\ Len(consumed) \in Nat /\ \A j \in 1 .. Len(consumed) : consumed[j] = j
      /\ Carries(rs, Len(consumed), rowLength, callbacks = 1)
      /\ rs.fetches = 0 /\ requests \in {<< >>, <<rowLength>>}
  BY StreamFacts
<1>2. requests = <<rowLength>> /\ i = 1 /\ requests[i] = rowLength
  <2>1. requests # << >>
    OBVIOUS
  <2> QED
    BY <1>1, <2>1
<1>3. callbacks = 0 /\ refused = FALSE /\ rs.readNext = FALSE
  <2>1. callbacks = 0 /\ ~refused /\ ~rs.readNext
    BY <1>2 DEF StreamInv, OneTurn
  <2>2. rs.readNext \in BOOLEAN
    BY StreamFacts
  <2> QED
    BY <1>1, <2>1, <2>2
<1>4. n \in Nat /\ rowLength + n <= total /\ (~more => rowLength + n = total)
  <2>1. /\ n <= (IF PageSize < total - rowLength THEN PageSize ELSE total - rowLength)
        /\ rowLength + n < total => more
    BY <1>2 DEF Stream!PageArrives, Stream!MayServe, Stream!Least
  <2>2. n \in Nat /\ PageSize \in Nat
    BY PagesAssumption
  <2> QED
    BY <1>1, <2>1, <2>2
<1>5. /\ emptyPages' = emptyPages + (IF n = 0 /\ more THEN 1 ELSE 0)
      /\ rowLength' = rowLength + n /\ pagingState' = state
      /\ rs' = [after EXCEPT !.fetches = 0]
      /\ requests' = Stream!RemoveAt(requests, i) \o [j \in 1 .. after.fetches |-> state]
      /\ callbacks' = callbacks + (IF more THEN 0 ELSE 1)
      /\ awake' = (awake \/ rs'.pushed # << >>)
      /\ UNCHANGED <<total, autoPage, refused, consumed, failed, ended>>
  BY <1>2 DEF Stream!PageArrives, Stream!PageRows, Stream!EmptyPages, Stream!Commit, Stream!Wake, Stream!input
<1>6. RowsAfter(chunks, rowLength, n)
  BY <1>1, <1>4 DEF RowsAfter
<1> HIDE DEF chunks
<1>7. /\ Carries(added, Len(consumed), rowLength + n, FALSE) /\ added.readNext = FALSE /\ added.fetches = 0
  <2>1. Carries(rs, Len(consumed), rowLength, FALSE)
    <3>1. (callbacks = 1) = FALSE
      BY <1>3
    <3> QED
      BY <1>1, <3>1, Zenon
  <2>2. rs.readNext = FALSE /\ n \in Nat /\ rowLength \in Nat /\ Len(consumed) \in Nat /\ rs.fetches = 0
    BY <1>1, <1>3, <1>4
  <2>3. Extended(rs, Stream!Add(rs, chunks), Len(consumed), rowLength + n)
    BY <1>6, <2>1, <2>2, AddCarries
  <2> QED
    BY <2>2, <2>3, Zenon DEF Extended
<1>8. added \in Records
  BY <1>7 DEF Carries
<1> HIDE DEF added
<1>9. rowLength + n \in Nat /\ state \in 0 .. MaxRows
  BY <1>1, <1>4
<1>10. /\ Carries(after, Len(consumed), rowLength + n, ~more)
       /\ \/ ~more /\ after.readNext = FALSE /\ after.fetches = 0
          \/ more /\ after.readNext = FALSE /\ after.fetches = 1 /\ (~autoPage => after.buffer = << >>)
          \/ more /\ ~autoPage /\ after.readNext = TRUE /\ after.fetches = 0
  <2>1. CASE ~more
    <3>1. after = Stream!Close(added)
      BY <2>1 DEF Stream!After
    <3>2. (~more) = TRUE
      BY <2>1
    <3> QED
      BY <1>1, <1>7, <1>9, <2>1, <3>1, <3>2, CloseCarries
  <2>2. CASE more /\ autoPage
    <3>1. after = [added EXCEPT !.fetches = 1]
      <4>1. added.fetches + 1 = 1
        BY <1>7
      <4> QED
        BY <2>2, <4>1 DEF Stream!After
    <3>2. /\ after \in Records /\ after.buffer = added.buffer /\ after.pushed = added.pushed
          /\ after.closed = added.closed /\ after.readNext = FALSE /\ after.fetches = 1
      <4>1. added.readNext = FALSE /\ FALSE \in BOOLEAN /\ 1 \in Nat
        BY <1>7
      <4> HIDE DEF after
      <4>2. Turned(added, [added EXCEPT !.fetches = 1], added.readNext, 1)
        BY <1>8, <4>1, ValveTurned, Zenon
      <4>3. Turned(added, after, FALSE, 1)
        BY <3>1, <4>1, <4>2, Zenon
      <4> QED
        BY <4>3, Zenon DEF Turned
    <3>3. (~more) = FALSE
      BY <2>2
    <3> QED
      BY <1>1, <1>7, <1>9, <2>2, <3>2, <3>3, SameRows
  <2>3. CASE more /\ ~autoPage /\ (added.paused \/ added.buffer # << >>)
    <3>1. after = [added EXCEPT !.readNext = TRUE]
      BY <2>3 DEF Stream!After, Stream!Valve
    <3>2. /\ after \in Records /\ after.buffer = added.buffer /\ after.pushed = added.pushed
          /\ after.closed = added.closed /\ after.readNext = TRUE /\ after.fetches = 0
      BY <1>7, <1>8, <3>1 DEF Records
    <3>3. (~more) = FALSE
      BY <2>3
    <3> QED
      BY <1>1, <1>7, <1>9, <2>3, <3>2, <3>3, SameRows
  <2>4. CASE more /\ ~autoPage /\ ~(added.paused \/ added.buffer # << >>)
    <3>1. after = [added EXCEPT !.readNext = FALSE, !.fetches = 1]
      <4>1. added.fetches + 1 = 1
        BY <1>7
      <4> QED
        BY <2>4, <4>1 DEF Stream!After, Stream!Valve
    <3>2. /\ after \in Records /\ after.buffer = added.buffer /\ after.pushed = added.pushed
          /\ after.closed = added.closed /\ after.readNext = FALSE /\ after.fetches = 1
      <4>1. FALSE \in BOOLEAN /\ 1 \in Nat
        OBVIOUS
      <4> HIDE DEF after
      <4>2. Turned(added, [added EXCEPT !.readNext = FALSE, !.fetches = 1], FALSE, 1)
        BY <1>8, <4>1, ValveTurned, Zenon
      <4>3. Turned(added, after, FALSE, 1)
        BY <3>1, <4>2, Zenon
      <4> QED
        BY <4>3, Zenon DEF Turned
    <3>3. (~more) = FALSE
      BY <2>4
    <3> QED
      BY <1>1, <1>7, <1>9, <2>4, <3>2, <3>3, SameRows
  <2> QED
    BY <2>1, <2>2, <2>3, <2>4
<1>11. after \in Records
  BY <1>10 DEF Carries
<1> HIDE DEF after
<1>12. /\ rs' \in Records /\ rs'.buffer = after.buffer /\ rs'.pushed = after.pushed
       /\ rs'.closed = after.closed /\ rs'.readNext = after.readNext /\ rs'.fetches = 0
  BY <1>5, <1>11 DEF Records
<1>13. Carries(rs', Len(consumed), rowLength + n, ~more)
  BY <1>1, <1>9, <1>10, <1>12, SameRows
<1>14. (callbacks' = 1) = (~more) /\ callbacks' \in {0, 1} /\ callbacks' = (IF more THEN 0 ELSE 1)
  BY <1>3, <1>5
<1>15. requests' = (IF after.fetches = 0 THEN << >> ELSE <<state>>)
  <2>1. requests' = Stream!RemoveAt(<<rowLength>>, 1) \o [j \in 1 .. after.fetches |-> state]
    BY <1>2, <1>5
  <2>2. rowLength \in Nat /\ state \in Nat
    BY <1>1, <1>9
  <2> HIDE DEF state
  <2>3. after.fetches = 0 \/ after.fetches = 1
    BY <1>10
  <2>4. CASE after.fetches = 0
    BY <2>1, <2>2, <2>4, RequestsMade, Zenon
  <2>5. CASE after.fetches = 1
    <3>1. 1 # 0
      OBVIOUS
    <3> QED
      BY <2>1, <2>2, <2>5, <3>1, RequestsMade, Zenon
  <2> QED
    BY <2>3, <2>4, <2>5
<1>16. more => state = rowLength'
  BY <1>5
<1>17. requests' \in {<< >>, <<rowLength'>>}
  BY <1>10, <1>15, <1>16
<1>18. RowsInPlace'
  <2>1. Carries(rs', Len(consumed'), rowLength', callbacks' = 1)
    BY <1>5, <1>13, <1>14
  <2>2. rs'.readNext => pagingState' = rowLength' /\ ~autoPage'
    BY <1>5, <1>10, <1>12, <1>16
  <2>3. rowLength' <= total' /\ \A j \in 1 .. Len(consumed') : consumed'[j] = j
    BY <1>1, <1>4, <1>5
  <2> QED
    BY <1>12, <2>1, <2>2, <2>3 DEF RowsInPlace
<1>19. OneTurn'
  <2>1. refused' = FALSE /\ autoPage' = autoPage
    BY <1>3, <1>5
  <2> QED
    BY <1>10, <1>12, <1>14, <1>15, <1>16, <2>1 DEF OneTurn
<1>20. EndInPlace'
  <2>1. callbacks' = 1 => rowLength' = total'
    BY <1>4, <1>5, <1>14
  <2>2. ~failed'
    BY <1>3, <1>5 DEF StreamInv, EndInPlace
  <2>3. ~ended'
    BY <1>1, <1>3, <1>5 DEF StreamInv, EndInPlace, Carries
  <2> QED
    BY <2>1, <2>2, <2>3 DEF EndInPlace
<1>21. /\ total' \in 0 .. MaxRows /\ autoPage' \in BOOLEAN /\ emptyPages' \in Nat /\ refused' \in BOOLEAN
       /\ pagingState' \in 0 .. MaxRows /\ rowLength' \in Nat
       /\ awake' \in BOOLEAN /\ failed' \in BOOLEAN /\ ended' \in BOOLEAN /\ consumed' \in Seq(Nat)
  <2>1. emptyPages' \in Nat /\ awake' \in BOOLEAN
    BY <1>1, <1>5
  <2>2. total' \in 0 .. MaxRows /\ rowLength' \in Nat /\ pagingState' \in 0 .. MaxRows
    BY <1>1, <1>5, <1>9
  <2> QED
    BY <1>1, <1>5, <2>1, <2>2
<1> QED
  BY <1>14, <1>17, <1>18, <1>19, <1>20, <1>21, StreamTyped

\* onFinish() with an error: the callback is called, and the rows that are on their way stay.
LEMMA FailKeeps ==
    ASSUME StreamInv, callbacks = 0, refused' = FALSE, Stream!Fail(<< >>)
    PROVE  StreamInv'
<1> DEFINE closed == Stream!Close(rs)
<1>1. /\ total \in Nat /\ total <= MaxRows /\ MaxRows \in Nat /\ autoPage \in BOOLEAN /\ emptyPages \in Nat
      /\ pagingState \in 0 .. MaxRows /\ rowLength \in Nat /\ rowLength <= total
      /\ awake \in BOOLEAN /\ failed \in BOOLEAN /\ ended \in BOOLEAN
      /\ consumed \in Seq(Nat) /\ Len(consumed) \in Nat /\ \A j \in 1 .. Len(consumed) : consumed[j] = j
      /\ Carries(rs, Len(consumed), rowLength, callbacks = 1) /\ rs.fetches = 0
  BY StreamFacts
<1>2. Carries(rs, Len(consumed), rowLength, FALSE)
  <2>1. (callbacks = 1) = FALSE
    OBVIOUS
  <2> QED
    BY <1>1, <2>1, Zenon
<1>3. /\ failed' = TRUE /\ rs' = [closed EXCEPT !.fetches = 0]
      /\ requests' = << >> \o [j \in 1 .. closed.fetches |-> pagingState]
      /\ callbacks' = callbacks + 1 /\ awake' = (awake \/ rs'.pushed # << >>)
      /\ UNCHANGED <<total, autoPage, emptyPages, pagingState, rowLength, consumed, ended>>
  BY DEF Stream!Fail, Stream!Commit, Stream!Wake, Stream!input
<1>4. /\ Carries(closed, Len(consumed), rowLength, TRUE)
      /\ closed.readNext = FALSE /\ closed.fetches = 0
  BY <1>1, <1>2, CloseCarries
<1>5. closed \in Records
  BY <1>4 DEF Carries
<1> HIDE DEF closed
<1>6. /\ rs' \in Records /\ rs'.buffer = closed.buffer /\ rs'.pushed = closed.pushed
      /\ rs'.closed = closed.closed /\ rs'.readNext = FALSE /\ rs'.fetches = 0
  BY <1>3, <1>4, <1>5 DEF Records
<1>7. Carries(rs', Len(consumed), rowLength, TRUE)
  BY <1>1, <1>4, <1>6, SameRows
<1>8. requests' = << >>
  <2>1. requests' = << >> \o [j \in 1 .. 0 |-> pagingState] /\ pagingState \in Nat /\ 0 \in Nat
    BY <1>1, <1>3, <1>4
  <2> QED
    BY <2>1, RequestsMade, Zenon
<1>9. callbacks' = 1 /\ (callbacks' = 1) = TRUE
  BY <1>3
<1>10. RowsInPlace'
  <2>1. Carries(rs', Len(consumed'), rowLength', callbacks' = 1)
    BY <1>3, <1>7, <1>9
  <2>2. ~rs'.readNext /\ rs'.fetches = 0
    BY <1>6
  <2> QED
    BY <1>1, <1>3, <2>1, <2>2 DEF RowsInPlace
<1>11. OneTurn'
  BY <1>6, <1>8, <1>9 DEF OneTurn
<1>12. EndInPlace'
  <2>1. ~ended
    BY <1>2 DEF StreamInv, EndInPlace, Carries
  <2> QED
    BY <1>3, <1>9, <2>1 DEF EndInPlace
<1>13. /\ total' \in 0 .. MaxRows /\ autoPage' \in BOOLEAN /\ emptyPages' \in Nat /\ refused' \in BOOLEAN
       /\ pagingState' \in 0 .. MaxRows /\ rowLength' \in Nat
       /\ awake' \in BOOLEAN /\ failed' \in BOOLEAN /\ ended' \in BOOLEAN /\ consumed' \in Seq(Nat)
  <2>1. awake' \in BOOLEAN
    BY <1>1, <1>3
  <2>2. total' \in 0 .. MaxRows /\ rowLength' \in Nat /\ pagingState' \in 0 .. MaxRows
    BY <1>1, <1>3
  <2> QED
    BY <1>1, <1>3, <2>1, <2>2
<1> QED
  BY <1>8, <1>9, <1>10, <1>11, <1>12, <1>13, StreamTyped

\* A page request fails, or the options were refused.
LEMMA ErrorKeeps ==
    ASSUME StreamInv, Stream!OptionsRefused \/ \E i \in DOMAIN requests : Stream!PageFails(i)
    PROVE  StreamInv'
<1>1. CASE Stream!OptionsRefused
  <2>1. refused /\ refused' = FALSE /\ Stream!Fail(requests)
    BY <1>1 DEF Stream!OptionsRefused
  <2>2. callbacks = 0 /\ requests = << >>
    BY <2>1 DEF StreamInv, OneTurn
  <2> QED
    BY <2>1, <2>2, FailKeeps
<1>2. ASSUME NEW i \in DOMAIN requests, Stream!PageFails(i)
      PROVE  StreamInv'
  <2>1. Stream!Fail(Stream!RemoveAt(requests, i)) /\ refused' = refused
    BY <1>2 DEF Stream!PageFails
  <2>2. requests = <<rowLength>> /\ i = 1 /\ rowLength \in Nat
    <3>1. requests # << >> /\ requests \in {<< >>, <<rowLength>>} /\ rowLength \in Nat
      BY StreamFacts
    <3> QED
      BY <3>1
  <2>3. callbacks = 0 /\ refused = FALSE
    <3>1. callbacks = 0 /\ ~refused
      BY <2>2 DEF StreamInv, OneTurn
    <3>2. refused \in BOOLEAN
      BY StreamFacts
    <3> QED
      BY <3>1, <3>2
  <2>4. Stream!RemoveAt(<<rowLength>>, 1) = << >>
    <3>1. 0 \in Nat
      OBVIOUS
    <3> QED
      BY <2>2, <3>1, RequestsMade
  <2> QED
    BY <2>1, <2>2, <2>3, <2>4, FailKeeps
<1> QED
  BY <1>1, <1>2

\* Rows move from the ResultStream to the consumer, and a stored function may be called.
LEMMA MovedKeeps ==
    ASSUME StreamInv, NEW s, NEW taken \in Seq(Nat),
           Carries(s, Len(taken), rowLength, callbacks = 1), Moved(rs, s),
           \A j \in 1 .. Len(taken) : taken[j] = j, ended => s.closed /\ s.pushed = << >>,
           consumed' = taken, Stream!Commit(s, requests, pagingState), awake' \in BOOLEAN,
           UNCHANGED <<total, autoPage, emptyPages, refused, pagingState, rowLength, failed, ended, callbacks>>
    PROVE  StreamInv'
<1>1. /\ total \in Nat /\ total <= MaxRows /\ MaxRows \in Nat /\ autoPage \in BOOLEAN /\ emptyPages \in Nat
      /\ refused \in BOOLEAN /\ pagingState \in 0 .. MaxRows /\ rowLength \in Nat /\ rowLength <= total
      /\ failed \in BOOLEAN /\ ended \in BOOLEAN /\ callbacks \in {0, 1}
      /\ rs.fetches = 0 /\ rs.readNext \in BOOLEAN /\ requests \in {<< >>, <<rowLength>>}
      /\ rs.readNext => pagingState = rowLength /\ ~autoPage
  BY StreamFacts
<1>2. s \in Records
  BY DEF Carries
<1>3. /\ rs' = [s EXCEPT !.fetches = 0]
      /\ requests' = requests \o [j \in 1 .. s.fetches |-> pagingState]
  BY DEF Stream!Commit
<1>4. /\ rs' \in Records /\ rs'.buffer = s.buffer /\ rs'.pushed = s.pushed
      /\ rs'.closed = s.closed /\ rs'.readNext = s.readNext /\ rs'.fetches = 0
  BY <1>2, <1>3 DEF Records
<1>5. Carries(rs', Len(taken), rowLength, callbacks = 1)
  <2>1. Len(taken) \in Nat /\ (callbacks = 1) \in BOOLEAN
    OBVIOUS
  <2> QED
    BY <1>1, <1>4, <2>1, SameRows
<1>6. \/ s.readNext = rs.readNext /\ s.fetches = 0 /\ (rs.buffer = << >> => s.buffer = << >>)
      \/ rs.readNext /\ s.readNext = FALSE /\ s.fetches = 1 /\ s.buffer = << >>
  <2>1. s.readNext \in BOOLEAN
    BY <1>2 DEF Records
  <2>2. 0 + 1 = 1
    OBVIOUS
  <2> QED
    BY <1>1, <2>1, <2>2 DEF Moved
<1>7. pagingState \in Nat /\ rowLength \in Nat
  BY <1>1
<1>8. RowsInPlace' /\ EndInPlace'
  <2>1. Carries(rs', Len(consumed'), rowLength', callbacks' = 1)
    BY <1>5
  <2>2. rs'.readNext => pagingState' = rowLength' /\ ~autoPage'
    BY <1>1, <1>4, <1>6
  <2>3. RowsInPlace'
    BY <1>1, <1>4, <2>1, <2>2 DEF RowsInPlace
  <2>4. EndInPlace'
    BY <1>4 DEF StreamInv, EndInPlace
  <2> QED
    BY <2>3, <2>4
<1>9. OneTurn' /\ requests' \in {<< >>, <<rowLength'>>}
  <2>1. CASE s.readNext = rs.readNext /\ s.fetches = 0 /\ (rs.buffer = << >> => s.buffer = << >>)
    <3>1. requests' = requests
      <4>1. requests' = requests \o [j \in 1 .. 0 |-> pagingState]
        BY <1>3, <2>1
      <4>2. requests = << >> \/ requests = <<rowLength>>
        BY <1>1
      <4> QED
        BY <1>7, <4>1, <4>2, RequestsMade, Zenon
    <3> QED
      BY <1>1, <1>4, <2>1, <3>1 DEF StreamInv, OneTurn
  <2>2. CASE rs.readNext /\ s.readNext = FALSE /\ s.fetches = 1 /\ s.buffer = << >>
    <3>1. callbacks = 0 /\ ~refused /\ requests = << >>
      BY <2>2 DEF StreamInv, OneTurn
    <3>2. requests' = <<pagingState>>
      <4>1. requests' = << >> \o [j \in 1 .. 1 |-> pagingState]
        BY <1>3, <2>2, <3>1
      <4> QED
        BY <1>7, <4>1, RequestsMade, Zenon
    <3>3. requests' = <<rowLength'>>
      BY <1>1, <2>2, <3>2
    <3> QED
      BY <1>4, <2>2, <3>1, <3>3 DEF OneTurn
  <2> QED
    BY <1>6, <2>1, <2>2
<1>10. /\ total' \in 0 .. MaxRows /\ autoPage' \in BOOLEAN /\ emptyPages' \in Nat /\ refused' \in BOOLEAN
       /\ pagingState' \in 0 .. MaxRows /\ rowLength' \in Nat /\ callbacks' \in {0, 1}
       /\ awake' \in BOOLEAN /\ failed' \in BOOLEAN /\ ended' \in BOOLEAN /\ consumed' \in Seq(Nat)
  <2>1. total' \in 0 .. MaxRows
    BY <1>1
  <2> QED
    BY <1>1, <2>1
<1> QED
  BY <1>8, <1>9, <1>10, StreamTyped

\* Readable reads ahead.
LEMMA ReadMoreKeeps ==
    ASSUME StreamInv, Stream!ReadMore
    PROVE  StreamInv'
<1> DEFINE s == Stream!ReadZero(rs)
<1>1. /\ rs # s /\ Stream!Commit(s, requests, pagingState) /\ awake' = (awake \/ rs'.pushed # << >>)
      /\ UNCHANGED <<total, autoPage, emptyPages, refused, pagingState, rowLength, consumed, failed, ended, callbacks>>
  BY DEF Stream!ReadMore, Stream!Wake, Stream!input
<1>2. /\ awake \in BOOLEAN /\ consumed \in Seq(Nat) /\ Len(consumed) \in Nat
      /\ \A j \in 1 .. Len(consumed) : consumed[j] = j /\ rowLength \in Nat
      /\ Carries(rs, Len(consumed), rowLength, callbacks = 1)
  BY StreamFacts
<1>3. Carries(s, Len(consumed), rowLength, callbacks = 1) /\ Moved(rs, s)
  <2>1. (callbacks = 1) \in BOOLEAN /\ rowLength \in Nat
    BY StreamFacts
  <2> QED
    BY <1>2, <2>1, ReadZeroCarries
<1>4. ended => s.closed /\ s.pushed = << >>
  BY <1>1 DEF StreamInv, EndInPlace, Stream!ReadZero
<1>5. awake' \in BOOLEAN
  BY <1>1, <1>2
<1>6. \A j \in 1 .. Len(consumed) : consumed[j] = j
  BY <1>2
<1> HIDE DEF s
<1> QED
  BY <1>1, <1>2, <1>3, <1>4, <1>5, <1>6, MovedKeeps

\* "end" comes when null was pushed and everything was read.
LEMMA EndKeeps ==
    ASSUME StreamInv, Stream!End
    PROVE  StreamInv'
<1>1. /\ rs.closed /\ rs.pushed = << >> /\ ended' = TRUE
      /\ UNCHANGED <<total, autoPage, emptyPages, refused, requests, pagingState, rowLength, rs,
                     awake, consumed, failed, callbacks>>
  BY DEF Stream!End, Stream!input
<1>2. Stream!TypeOK'
  BY <1>1 DEF StreamInv, Stream!TypeOK, Stream!Chunk, Stream!EOF
<1>3. RowsInPlace' /\ OneTurn' /\ EndInPlace'
  BY <1>1 DEF StreamInv, RowsInPlace, OneTurn, EndInPlace
<1> QED
  BY <1>2, <1>3 DEF StreamInv

\* read() takes the next row of the result, or finds none.
LEMMA ReadKeeps ==
    ASSUME StreamInv, Stream!Read
    PROVE  /\ StreamInv'
           /\ consumed' = consumed \/ (consumed' = Append(consumed, Len(consumed) + 1) /\ ~ended)
<1> DEFINE s == IF ~rs.closed /\ Len(rs.pushed) <= HighWaterMark THEN Stream!Drain(rs) ELSE rs
           row == SubSeq(s.pushed, 1, IF 1 < Len(s.pushed) THEN 1 ELSE Len(s.pushed))
           t == [s EXCEPT !.pushed = SubSeq(s.pushed, 2, Len(s.pushed))]
<1>1. /\ consumed' = consumed \o row /\ Stream!Commit(t, requests, pagingState) /\ awake' = (row # << >>)
      /\ UNCHANGED <<total, autoPage, emptyPages, refused, pagingState, rowLength, failed, ended, callbacks>>
  BY DEF Stream!Read, Stream!input, Stream!Least
<1>2. /\ consumed \in Seq(Nat) /\ Len(consumed) \in Nat /\ rowLength \in Nat
      /\ Carries(rs, Len(consumed), rowLength, callbacks = 1)
  BY StreamFacts
<1>3. \A j \in 1 .. Len(consumed) : consumed[j] = j
  BY StreamFacts
<1>4. (callbacks = 1) \in BOOLEAN
  OBVIOUS
<1>5. Carries(s, Len(consumed), rowLength, callbacks = 1) /\ Moved(rs, s) /\ (rs.closed => s = rs)
  <2>1. CASE ~rs.closed /\ Len(rs.pushed) <= HighWaterMark
    <3>1. s = Stream!Drain(rs)
      BY <2>1
    <3> HIDE DEF s
    <3> QED
      BY <1>2, <1>4, <2>1, <3>1, DrainCarries
  <2>2. CASE ~(~rs.closed /\ Len(rs.pushed) <= HighWaterMark)
    <3>1. s = rs
      BY <2>2
    <3> HIDE DEF s
    <3> QED
      BY <1>2, <3>1 DEF Moved
  <2> QED
    BY <2>1, <2>2
<1>6. ended => s.closed /\ s.pushed = << >>
  BY <1>5 DEF StreamInv, EndInPlace
<1> HIDE DEF s
<1>7. s \in Records /\ s.pushed \in Seq(Nat) /\ Len(s.pushed) \in Nat
  BY <1>5 DEF Carries, Records
<1>8. awake' \in BOOLEAN
  BY <1>1
<1>9. CASE s.pushed = << >>
  <2>1. row = << >> /\ SubSeq(s.pushed, 2, Len(s.pushed)) = << >>
    BY <1>9
  <2>2. consumed' = consumed
    <3>1. \A c \in Seq(Nat) : c \o << >> = c
      OBVIOUS
    <3> QED
      BY <1>1, <1>2, <2>1, <3>1, Zenon
  <2>3. t = [s EXCEPT !.pushed = << >>]
    BY <2>1
  <2> HIDE DEF row, t
  <2>4. /\ t \in Records /\ t.buffer = s.buffer /\ t.pushed = s.pushed /\ t.closed = s.closed
        /\ t.readNext = s.readNext /\ t.fetches = s.fetches
    BY <1>7, <1>9, <2>3 DEF Records
  <2>5. Carries(t, Len(consumed), rowLength, callbacks = 1)
    BY <1>2, <1>4, <1>5, <2>4, SameRows
  <2>6. Moved(rs, t)
    BY <1>5, <2>4 DEF Moved
  <2>7. ended => t.closed /\ t.pushed = << >>
    BY <1>6, <2>4
  <2> QED
    BY <1>1, <1>2, <1>3, <1>8, <2>2, <2>5, <2>6, <2>7, MovedKeeps
<1>10. CASE s.pushed # << >>
  <2>1. row = <<Head(s.pushed)>>
    <3>1. Len(s.pushed) \in Nat \ {0} /\ s.pushed \in Seq(Nat)
      BY <1>7, <1>10
    <3>2. (IF 1 < Len(s.pushed) THEN 1 ELSE Len(s.pushed)) = 1 /\ 1 \in 0 .. Len(s.pushed)
      <4>1. \A l \in Nat \ {0} : (IF 1 < l THEN 1 ELSE l) = 1 /\ 1 \in 0 .. l
        OBVIOUS
      <4> QED
        BY <3>1, <4>1, Zenon
    <3>3. row = SubSeq(s.pushed, 1, 1)
      BY <3>2, Zenon
    <3> HIDE DEF row
    <3>4. row \in Seq(Nat) /\ Len(row) = 1 /\ \A j \in 1 .. 1 : row[j] = s.pushed[j]
      BY <3>1, <3>2, <3>3, Beginning
    <3>5. row[1] = Head(s.pushed)
      BY <3>1, <3>4
    <3> QED
      BY <3>4, <3>5
  <2>2. t = [s EXCEPT !.pushed = SubSeq(s.pushed, 2, Len(s.pushed))]
    OBVIOUS
  <2> HIDE DEF row, t
  <2>3. /\ Carries(t, Len(consumed) + 1, rowLength, callbacks = 1) /\ t.readNext = s.readNext
        /\ t.fetches = s.fetches /\ t.buffer = s.buffer /\ t.closed = s.closed
        /\ Head(s.pushed) = Len(consumed) + 1
    <3>1. Took(s, t, Len(consumed) + 1, rowLength, callbacks = 1)
      BY <1>2, <1>4, <1>5, <1>10, <2>2, TakeCarries
    <3> QED
      BY <3>1, Zenon DEF Took
  <2> DEFINE taken == Append(consumed, Len(consumed) + 1)
  <2>4. /\ taken \in Seq(Nat) /\ Len(taken) = Len(consumed) + 1
        /\ \A j \in 1 .. Len(consumed) : taken[j] = consumed[j]
        /\ taken[Len(consumed) + 1] = Len(consumed) + 1
    BY <1>2
  <2>5. consumed' = taken
    <3>1. consumed' = consumed \o <<Len(consumed) + 1>>
      BY <1>1, <2>1, <2>3
    <3> QED
      BY <1>2, <3>1
  <2>6. consumed' = Append(consumed, Len(consumed) + 1)
    BY <2>5
  <2> HIDE DEF taken
  <2>7. \A j \in 1 .. Len(taken) : taken[j] = j
    BY <1>2, <1>3, <2>4
  <2>8. Carries(t, Len(taken), rowLength, callbacks = 1)
    BY <2>3, <2>4
  <2>9. Moved(rs, t)
    BY <1>5, <2>3 DEF Moved
  <2>10. ~ended
    BY <1>6, <1>10
  <2>11. StreamInv'
    BY <1>1, <1>8, <2>4, <2>5, <2>7, <2>8, <2>9, <2>10, MovedKeeps
  <2> QED
    BY <2>6, <2>10, <2>11
<1> QED
  BY <1>9, <1>10

-----------------------------------------------------------------------------
\* What the invariant says of the rows.

\* The buffer of a ResultStream without the null at its end.
LEMMA RowsOfBuffer ==
    ASSUME NEW s, NEW from \in Nat, NEW to \in Nat, NEW ending \in BOOLEAN, Carries(s, from, to, ending)
    PROVE  /\ Stream!Rows(s.buffer) \in Seq(Nat) /\ Len(Stream!Rows(s.buffer)) = RowsIn(s, ending)
           /\ \A j \in 1 .. RowsIn(s, ending) : Stream!Rows(s.buffer)[j] = from + Len(s.pushed) + j
<1>1. /\ s.buffer \in Seq(Nat) /\ s.pushed \in Seq(Nat) /\ s.closed \in BOOLEAN
      /\ Len(s.buffer) \in Nat /\ Len(s.pushed) \in Nat
  BY DEF Carries, Records
<1>2. \A j \in 1 .. RowsIn(s, ending) : s.buffer[j] = from + Len(s.pushed) + j
  BY DEF Carries
<1>3. Stream!Rows(s.buffer) = IF s.buffer # << >> /\ s.buffer[Len(s.buffer)] = 0
                              THEN SubSeq(s.buffer, 1, Len(s.buffer) - 1) ELSE s.buffer
  BY StreamNames, Zenon DEF Stream!Rows
<1>4. CASE ending /\ ~s.closed
  <2>1. RowsIn(s, ending) = Len(s.buffer) - 1 /\ s.buffer[Len(s.buffer)] = 0 /\ Len(s.buffer) - 1 \in Nat
    BY <1>4, StreamNames DEF RowsIn, Carries
  <2>2. Len(s.buffer) - 1 \in 0 .. Len(s.buffer) /\ s.buffer # << >>
    BY <1>1, <2>1
  <2> DEFINE b == SubSeq(s.buffer, 1, Len(s.buffer) - 1)
  <2>3. Stream!Rows(s.buffer) = b
    BY <1>3, <2>1, <2>2
  <2>4. b \in Seq(Nat) /\ Len(b) = Len(s.buffer) - 1 /\ \A j \in 1 .. Len(s.buffer) - 1 : b[j] = s.buffer[j]
    <3>1. b = SubSeq(s.buffer, 1, Len(s.buffer) - 1)
      OBVIOUS
    <3> HIDE DEF b
    <3> QED
      BY <1>1, <2>2, <3>1, Beginning
  <2> HIDE DEF b
  <2> QED
    BY <1>2, <2>1, <2>3, <2>4
<1>5. CASE ~(ending /\ ~s.closed)
  <2>1. RowsIn(s, ending) = Len(s.buffer)
    BY <1>5 DEF RowsIn
  <2>2. s.buffer # << >> => s.buffer[Len(s.buffer)] # 0
    <3>1. s.buffer # << >> => Len(s.buffer) \in 1 .. Len(s.buffer)
      BY <1>1
    <3>2. \A j \in 1 .. Len(s.buffer) : from + Len(s.pushed) + j # 0
      BY <1>1
    <3> QED
      BY <1>2, <2>1, <3>1, <3>2, Zenon
  <2>3. Stream!Rows(s.buffer) = s.buffer
    BY <1>3, <2>2, Zenon
  <2> QED
    BY <1>1, <1>2, <2>1, <2>3
<1> QED
  BY <1>4, <1>5

\* The rows are the first ones of the result.
FirstRows(read) == \A j \in 1 .. Len(read) : read[j] = j

\* The rows that were read, the rows in the Readable and those in the ResultStream are the
\* rows up to the row "to".
LEMMA AllRows ==
    ASSUME NEW s, NEW read \in Seq(Nat), NEW to \in Nat, NEW ending \in BOOLEAN,
           FirstRows(read), Carries(s, Len(read), to, ending)
    PROVE  read \o s.pushed \o Stream!Rows(s.buffer) = [j \in 1 .. to |-> j]
<1> DEFINE b == Stream!Rows(s.buffer)
           u == read \o s.pushed
           w == u \o b
<1>1. s.pushed \in Seq(Nat) /\ Len(s.pushed) \in Nat /\ Len(read) \in Nat
  BY DEF Carries, Records
<1>2. RowsIn(s, ending) \in Nat /\ Len(read) + Len(s.pushed) + RowsIn(s, ending) = to
  BY DEF Carries
<1>3. \A j \in 1 .. Len(s.pushed) : s.pushed[j] = Len(read) + j
  BY DEF Carries
<1>4. /\ b \in Seq(Nat) /\ Len(b) = RowsIn(s, ending)
      /\ \A j \in 1 .. Len(b) : b[j] = Len(read) + Len(s.pushed) + j
  BY <1>1, RowsOfBuffer
<1> HIDE DEF b
<1>5. /\ u \in Seq(Nat) /\ Len(u) = Len(read) + Len(s.pushed)
      /\ \A j \in 1 .. Len(read) : u[j] = read[j]
      /\ \A j \in 1 .. Len(s.pushed) : u[Len(read) + j] = s.pushed[j]
  <2>1. u = read \o s.pushed
    OBVIOUS
  <2> HIDE DEF u
  <2> QED
    BY <1>1, <2>1, Joined
<1> HIDE DEF u
<1>6. \A j \in 1 .. Len(u) : u[j] = j
  <2> SUFFICES ASSUME NEW j \in 1 .. Len(u)
               PROVE  u[j] = j
    OBVIOUS
  <2>1. CASE j <= Len(read)
    <3>1. j \in 1 .. Len(read)
      BY <1>1, <1>5, <2>1
    <3>2. read[j] = j
      BY <3>1, Zenon DEF FirstRows
    <3> QED
      BY <1>5, <3>1, <3>2, Zenon
  <2>2. CASE j > Len(read)
    <3> DEFINE i == j - Len(read)
    <3>1. i \in 1 .. Len(s.pushed) /\ j = Len(read) + i
      BY <1>1, <1>5, <2>2
    <3> HIDE DEF i
    <3> QED
      BY <1>3, <1>5, <3>1
  <2> QED
    BY <1>1, <1>5, <2>1, <2>2
<1>7. /\ w \in Seq(Nat) /\ Len(w) = Len(u) + Len(b)
      /\ \A j \in 1 .. Len(u) : w[j] = u[j]
      /\ \A j \in 1 .. Len(b) : w[Len(u) + j] = b[j]
  <2>1. w = u \o b
    OBVIOUS
  <2>2. u \in Seq(Nat) /\ b \in Seq(Nat)
    BY <1>4, <1>5
  <2> HIDE DEF w
  <2> QED
    BY <2>1, <2>2, Joined
<1> HIDE DEF w
<1>8. Len(w) = to /\ Len(u) \in Nat /\ Len(b) \in Nat
  BY <1>1, <1>2, <1>4, <1>5, <1>7
<1>9. \A j \in 1 .. to : w[j] = j
  <2> SUFFICES ASSUME NEW j \in 1 .. to
               PROVE  w[j] = j
    OBVIOUS
  <2>1. CASE j <= Len(u)
    <3>1. j \in 1 .. Len(u)
      BY <1>8, <2>1
    <3> QED
      BY <1>6, <1>7, <3>1, Zenon
  <2>2. CASE j > Len(u)
    <3> DEFINE i == j - Len(u)
    <3>1. i \in 1 .. Len(b) /\ j = Len(u) + i
      BY <1>7, <1>8, <2>2
    <3> HIDE DEF i
    <3> QED
      BY <1>4, <1>5, <1>7, <3>1
  <2> QED
    BY <1>8, <2>1, <2>2
<1>10. w = [j \in 1 .. to |-> j]
  BY <1>7, <1>8, <1>9
<1> QED
  BY <1>10 DEF w, u, b

-----------------------------------------------------------------------------
\* The invariant.

\* A step of stream() keeps its invariant.
LEMMA StreamKeeps ==
    ASSUME StreamInv, Stream!Next
    PROVE  StreamInv'
<1>1. ASSUME NEW i \in DOMAIN requests, NEW n \in 0 .. PageSize, NEW more \in BOOLEAN,
             Stream!PageArrives(i, n, more)
      PROVE  StreamInv'
  BY <1>1, PageArrivesKeeps
<1>2. CASE Stream!OptionsRefused \/ \E i \in DOMAIN requests : Stream!PageFails(i)
  BY <1>2, ErrorKeeps
<1>3. CASE Stream!Read
  BY <1>3, ReadKeeps
<1>4. CASE Stream!End
  BY <1>4, EndKeeps
<1>5. CASE Stream!ReadMore
  BY <1>5, ReadMoreKeeps
<1> QED
  BY <1>1, <1>2, <1>3, <1>4, <1>5 DEF Stream!Next, Stream!Progress, Stream!Page

\* A step of the iterator keeps its invariant.
LEMMA IteratorKeeps ==
    ASSUME IteratorInv, Iterator!Next
    PROVE  IteratorInv'
<1>1. ASSUME NEW n \in 0 .. PageSize, NEW more \in BOOLEAN,
             Iterator!FirstPage(n, more) \/ Iterator!PageArrives(n, more)
      PROVE  IteratorInv'
  BY <1>1, PageKeeps
<1>2. CASE Iterator!Yield \/ Iterator!Fetch \/ Iterator!Done \/ Iterator!PageFails
  BY <1>2, NextKeeps
<1> QED
  BY <1>1, <1>2 DEF Iterator!Next

\* Where the rows are and what is to come next is known in every state, for results, pages and
\* buffers of every size, whenever the pages arrive, fail and are read.
THEOREM InvariantHolds == Spec => []IInv
<1>1. Init => IInv
  BY StreamStarts, IteratorStarts DEF Init, IInv
<1>2. IInv /\ [Next]_vars => IInv'
  <2> SUFFICES ASSUME IInv, [Next]_vars
               PROVE  IInv'
    OBVIOUS
  <2>1. CASE StreamStep
    <3>1. reader = "stream" /\ reader' = "stream" /\ Stream!Next
      BY <2>1 DEF StreamStep
    <3>2. StreamInv
      BY <3>1 DEF IInv
    <3>3. StreamInv'
      BY <3>1, <3>2, StreamKeeps
    <3> QED
      BY <3>1, <3>3 DEF IInv
  <2>2. CASE IteratorStep
    <3>1. reader = "iterator" /\ reader' = "iterator" /\ Iterator!Next
      BY <2>2 DEF IteratorStep
    <3>2. IteratorInv
      BY <3>1 DEF IInv
    <3>3. IteratorInv'
      BY <3>1, <3>2, IteratorKeeps
    <3> QED
      BY <3>1, <3>3 DEF IInv
  <2>3. CASE UNCHANGED vars
    <3>1. UNCHANGED <<reader, total, emptyPages, failed, autoPage, refused, requests, pagingState, rowLength,
                      rs, awake, consumed, ended, callbacks, failures, rows, index, pageState, pc, yielded>>
      BY <2>3 DEF vars, streamVars, iteratorVars
    <3>2. CASE reader = "stream" /\ StreamInv
      <4>1. Stream!TypeOK'
        BY <3>1, <3>2 DEF StreamInv, Stream!TypeOK, Stream!Chunk, Stream!EOF
      <4>2. RowsInPlace' /\ OneTurn' /\ EndInPlace'
        BY <3>1, <3>2 DEF StreamInv, RowsInPlace, OneTurn, EndInPlace
      <4> QED
        BY <3>1, <3>2, <4>1, <4>2 DEF IInv, StreamInv
    <3>3. CASE reader = "iterator" /\ IteratorInv
      <4>1. Iterator!TypeOK' /\ PageInPlace'
        BY <3>1, <3>3 DEF IteratorInv, Iterator!TypeOK, PageInPlace, Iterator!NoState
      <4>2. Iterator!PositionKept'
        BY <3>1, <3>3 DEF IteratorInv, Iterator!PositionKept, Iterator!NoState
      <4> QED
        BY <3>1, <3>3, <4>1, <4>2 DEF IInv, IteratorInv
    <3> QED
      BY <3>2, <3>3 DEF IInv
  <2> QED
    BY <2>1, <2>2, <2>3 DEF Next
<1> QED
  BY <1>1, <1>2, PTL DEF Spec

\* Every page is asked for once and when its rows can be taken, every row stays in its place,
\* and the callback of stream() is called once: FetchesOnce for results and pages of every size.
THEOREM PagesFetchedOnce == Spec => []FetchesOnce
<1>1. ASSUME reader = "stream", StreamInv
      PROVE  FetchesOnce
  <2>1. Stream!TypeOK
    BY <1>1 DEF StreamInv
  <2>2. Stream!RowsConserved
    <3>1. /\ consumed \in Seq(Nat) /\ rowLength \in Nat
          /\ Carries(rs, Len(consumed), rowLength, callbacks = 1)
      BY <1>1, StreamFacts
    <3>2. FirstRows(consumed)
      BY <1>1, StreamFacts DEF FirstRows
    <3> DEFINE ending == callbacks = 1
    <3>3. ending \in BOOLEAN /\ Carries(rs, Len(consumed), rowLength, ending)
      BY <3>1
    <3>5. consumed \in Seq(Nat) /\ rowLength \in Nat
      BY <3>1
    <3> HIDE DEF ending
    <3>4. consumed \o rs.pushed \o Stream!Rows(rs.buffer) = [j \in 1 .. rowLength |-> j]
      BY <3>2, <3>3, <3>5, AllRows
    <3> QED
      BY <3>4, Zenon DEF Stream!RowsConserved
  <2>3. Stream!OnePageAtATime
    <3>1. CASE requests = << >>
      <4>1. Len(requests) = 0
        BY <3>1
      <4> QED
        BY <3>1, <4>1 DEF Stream!OnePageAtATime
    <3>2. CASE requests = <<rowLength>> /\ ~rs.readNext /\ (~autoPage => rs.buffer = << >>)
      <4>1. Len(requests) = 1
        BY <3>2
      <4> QED
        BY <3>2, <4>1 DEF Stream!OnePageAtATime
    <3> QED
      BY <1>1, <3>1, <3>2 DEF StreamInv, OneTurn
  <2>4. Stream!CallbackOnce
    BY <1>1 DEF StreamInv, OneTurn, Stream!CallbackOnce
  <2> QED
    BY <1>1, <2>1, <2>2, <2>3, <2>4 DEF FetchesOnce, TypeOK, RowsConserved, OnePageAtATime, CallbackOnce
<1>2. ASSUME reader = "iterator", IteratorInv
      PROVE  FetchesOnce
  BY <1>2 DEF IteratorInv, FetchesOnce, TypeOK, RowsConserved, OnePageAtATime, CallbackOnce
<1>3. IInv => FetchesOnce
  BY <1>1, <1>2 DEF IInv
<1> QED
  BY <1>3, InvariantHolds, PTL

-----------------------------------------------------------------------------
\* The readers implement RowDelivery.

\* A step of stream() delivers the next row, reports the error, reports the end, or is not seen.
LEMMA StreamDelivers ==
    ASSUME reader = "stream", reader' = "stream", StreamInv, StreamInv', Stream!Next
    PROVE  [Delivery!Next]_(Delivery!vars)
<1>1. Delivered = consumed /\ Delivered' = consumed' /\ Finished = ended /\ Finished' = ended'
  BY DEF Delivered, Finished
<1>2. /\ callbacks \in {0, 1} /\ consumed \in Seq(Nat) /\ Len(consumed) \in Nat /\ total \in Nat
      /\ rowLength \in Nat /\ rowLength <= total /\ ended \in BOOLEAN
      /\ Carries(rs, Len(consumed), rowLength, callbacks = 1)
  BY StreamFacts
<1>3. callbacks = 0 => ~ended
  BY DEF StreamInv, EndInPlace, RowsInPlace, Carries
<1>4. ASSUME NEW i \in DOMAIN requests, NEW n \in 0 .. PageSize, NEW more \in BOOLEAN,
             Stream!PageArrives(i, n, more)
      PROVE  [Delivery!Next]_(Delivery!vars)
  <2>1. UNCHANGED <<total, consumed, failed, ended>>
    BY <1>4 DEF Stream!PageArrives, Stream!input
  <2> QED
    BY <1>1, <2>1 DEF Delivery!vars
<1>5. CASE Stream!OptionsRefused \/ \E i \in DOMAIN requests : Stream!PageFails(i)
  <2>1. failed' = TRUE /\ callbacks' = callbacks + 1 /\ UNCHANGED <<total, consumed, ended>>
    BY <1>5 DEF Stream!OptionsRefused, Stream!PageFails, Stream!Fail, Stream!input
  <2>2. callbacks = 0
    <3>1. callbacks' \in {0, 1}
      BY DEF StreamInv, OneTurn
    <3> QED
      BY <1>2, <2>1, <3>1
  <2>3. Delivery!Fail
    BY <1>1, <1>3, <2>1, <2>2 DEF Delivery!Fail
  <2> QED
    BY <2>3 DEF Delivery!Next
<1>6. CASE Stream!Read
  <2>1. UNCHANGED <<total, failed, ended, rowLength>>
    BY <1>6 DEF Stream!Read, Stream!input
  <2>2. CASE consumed' = consumed
    BY <1>1, <2>1, <2>2 DEF Delivery!vars
  <2>3. CASE consumed' = Append(consumed, Len(consumed) + 1) /\ ~ended
    <3>1. Len(consumed') <= rowLength'
      <4>1. /\ rs'.pushed \in Seq(Nat) /\ RowsIn(rs', callbacks' = 1) \in Nat
            /\ Len(consumed') + Len(rs'.pushed) + RowsIn(rs', callbacks' = 1) = rowLength'
        BY DEF StreamInv, RowsInPlace, Carries, Records
      <4>2. Len(consumed') \in Nat /\ Len(rs'.pushed) \in Nat
        BY <1>2, <2>3, <4>1
      <4> QED
        BY <4>1, <4>2
    <3>2. Len(consumed') = Len(consumed) + 1
      BY <1>2, <2>3
    <3>3. Len(consumed) < total
      BY <1>2, <2>1, <3>1, <3>2
    <3>4. Delivery!Deliver
      BY <1>1, <2>1, <2>3, <3>3 DEF Delivery!Deliver
    <3> QED
      BY <3>4 DEF Delivery!Next
  <2> QED
    BY <1>6, <2>2, <2>3, ReadKeeps
<1>7. CASE Stream!End
  <2>1. /\ rs.closed /\ rs.pushed = << >> /\ ~ended /\ ended' = TRUE
        /\ UNCHANGED <<total, consumed, failed>>
    BY <1>7 DEF Stream!End, Stream!input
  <2>2. callbacks = 1 /\ RowsIn(rs, callbacks = 1) = 0
    BY <1>2, <2>1 DEF Carries, RowsIn
  <2>3. Len(consumed) = rowLength
    <3>1. Len(consumed) + Len(rs.pushed) + RowsIn(rs, callbacks = 1) = rowLength
      BY <1>2 DEF Carries
    <3>2. Len(rs.pushed) = 0
      BY <2>1
    <3> QED
      BY <1>2, <2>2, <3>1, <3>2
  <2>4. Len(consumed) = total \/ failed
    BY <2>2, <2>3 DEF StreamInv, EndInPlace
  <2>5. Delivery!Finish
    BY <1>1, <2>1, <2>4 DEF Delivery!Finish
  <2> QED
    BY <2>5 DEF Delivery!Next
<1>8. CASE Stream!ReadMore
  <2>1. UNCHANGED <<total, consumed, failed, ended>>
    BY <1>8 DEF Stream!ReadMore, Stream!input
  <2> QED
    BY <1>1, <2>1 DEF Delivery!vars
<1> QED
  BY <1>4, <1>5, <1>6, <1>7, <1>8 DEF Stream!Next, Stream!Progress, Stream!Page

\* So does a step of the iterator, when no page is empty.
LEMMA IteratorDelivers ==
    ASSUME IteratorEmptyPages = 0, reader = "iterator", reader' = "iterator",
           IteratorInv, IteratorInv', Iterator!Next
    PROVE  [Delivery!Next]_(Delivery!vars)
<1>1. Delivered = yielded /\ Delivered' = yielded' /\ Finished = (pc = "done") /\ Finished' = (pc' = "done")
  BY DEF Delivered, Finished
<1>2. /\ yielded \in Seq(1 .. MaxRows) /\ Len(yielded) \in Nat /\ total \in Nat
      /\ pc' = "done" => Len(yielded') = total'
  BY DEF IteratorInv, Iterator!TypeOK, PageInPlace
<1>3. ASSUME NEW row, yielded' = Append(yielded, row), pc # "done", pc' = "idle", UNCHANGED <<total, failed>>
      PROVE  [Delivery!Next]_(Delivery!vars)
  <2>1. Len(yielded') = Len(yielded) + 1 /\ yielded'[Len(yielded) + 1] = row
    BY <1>2, <1>3
  <2>2. yielded' = [j \in 1 .. Len(yielded') |-> j]
    BY <1>3 DEF IteratorInv, Iterator!PositionKept
  <2>3. row = Len(yielded) + 1
    BY <1>2, <2>1, <2>2
  <2>4. Len(yielded') <= total'
    <3>1. /\ Len(yielded') + Len(rows') - index' = pageState' \/ Len(yielded') + Len(rows') - index' = total'
          /\ pageState' = Iterator!NoState => Len(yielded') + Len(rows') - index' = total'
      BY <1>3 DEF IteratorInv, Iterator!PositionKept, Iterator!NoState
    <3>2. /\ Len(rows') \in Nat /\ index' \in 0 .. Len(rows') /\ pageState' \in Nat /\ total' \in Nat
          /\ pageState' # Iterator!NoState => pageState' <= total'
      BY PagesAssumption DEF IteratorInv, Iterator!TypeOK, PageInPlace, Iterator!NoState
    <3> QED
      BY <1>2, <2>1, <3>1, <3>2
  <2>5. Delivery!Deliver
    <3>1. Len(yielded) < total
      BY <1>2, <1>3, <2>1, <2>4
    <3> QED
      BY <1>1, <1>3, <2>3, <3>1 DEF Delivery!Deliver
  <2> QED
    BY <2>5 DEF Delivery!Next
<1>4. ASSUME pc # "done", pc' = "done", UNCHANGED <<total, yielded, failed>>
      PROVE  [Delivery!Next]_(Delivery!vars)
  <2>1. Delivery!Finish
    BY <1>1, <1>2, <1>4 DEF Delivery!Finish
  <2> QED
    BY <2>1 DEF Delivery!Next
<1>5. ASSUME pc # "done", pc' # "done", UNCHANGED <<total, yielded, failed>>
      PROVE  [Delivery!Next]_(Delivery!vars)
  BY <1>1, <1>5 DEF Delivery!vars
<1>6. ASSUME NEW n \in 0 .. PageSize, NEW more \in BOOLEAN, Iterator!FirstPage(n, more)
      PROVE  [Delivery!Next]_(Delivery!vars)
  BY <1>4, <1>5, <1>6 DEF Iterator!FirstPage
<1>7. ASSUME NEW n \in 0 .. PageSize, NEW more \in BOOLEAN, Iterator!PageArrives(n, more)
      PROVE  [Delivery!Next]_(Delivery!vars)
  BY <1>3, <1>4, <1>7 DEF Iterator!PageArrives
<1>8. CASE Iterator!Yield
  BY <1>3, <1>8 DEF Iterator!Yield
<1>9. CASE Iterator!Fetch
  BY <1>5, <1>9 DEF Iterator!Fetch
<1>10. CASE Iterator!Done
  BY <1>4, <1>10 DEF Iterator!Done
<1>11. CASE Iterator!PageFails
  <2>1. Delivery!Fail
    BY <1>1, <1>11 DEF Iterator!PageFails, Delivery!Fail
  <2> QED
    BY <2>1 DEF Delivery!Next
<1> QED
  BY <1>6, <1>7, <1>8, <1>9, <1>10, <1>11 DEF Iterator!Next

\* stream() on any pages and the iterator on pages that have rows deliver the result row by
\* row and in order, and the end comes only after every row or after an error.
THEOREM DeliveryIsImplemented ==
    ASSUME IteratorEmptyPages = 0
    PROVE  Spec => ImplementsDelivery
<1>1. Init => Delivery!Init
  <2> SUFFICES ASSUME Init
               PROVE  Delivery!Init
    OBVIOUS
  <2>1. total \in Nat /\ failed = FALSE
    BY PagesAssumption DEF Init, Stream!Init, Iterator!Init
  <2>2. Delivered = << >> /\ Finished = FALSE
    BY DEF Init, Stream!Init, Iterator!Init, Delivered, Finished
  <2> QED
    BY <2>1, <2>2 DEF Delivery!Init
<1>2. IInv /\ IInv' /\ [Next]_vars => [Delivery!Next]_(Delivery!vars)
  <2> SUFFICES ASSUME IInv, IInv', [Next]_vars
               PROVE  [Delivery!Next]_(Delivery!vars)
    OBVIOUS
  <2>1. CASE StreamStep
    <3>1. reader = "stream" /\ reader' = "stream" /\ Stream!Next
      BY <2>1 DEF StreamStep
    <3>2. StreamInv /\ StreamInv'
      BY <3>1 DEF IInv
    <3> QED
      BY <3>1, <3>2, StreamDelivers
  <2>2. CASE IteratorStep
    <3>1. reader = "iterator" /\ reader' = "iterator" /\ Iterator!Next
      BY <2>2 DEF IteratorStep
    <3>2. IteratorInv /\ IteratorInv'
      BY <3>1 DEF IInv
    <3> QED
      BY <3>1, <3>2, IteratorDelivers
  <2>3. CASE UNCHANGED vars
    BY <2>3 DEF vars, streamVars, iteratorVars, Delivery!vars, Delivered, Finished
  <2> QED
    BY <2>1, <2>2, <2>3 DEF Next
<1> QED
  BY <1>1, <1>2, InvariantHolds, PTL DEF Spec, ImplementsDelivery, Delivery!Spec
=============================================================================
