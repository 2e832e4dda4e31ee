----------------------- MODULE FlightHtmlStreamProofs -----------------------
(***************************************************************************)
(* Proofs about the document response, for every document, every way to    *)
(* split it into chunks, every number of Flight chunks and every order of  *)
(* timers, reads and failures.                                             *)
(***************************************************************************)
EXTENDS FlightHtmlStream, SequenceTheorems, TLAPS

Items == [byte : Bytes \cup {"script"}, at : Nat]

-----------------------------------------------------------------------------
(* The parts of the invariant, as predicates of values, so that they can   *)
(* be said of a state and of its successor.                                *)

HtmlOf(out) == {i \in DOMAIN out : ~IsScript(out[i])}
ScriptsOf(out) == {i \in DOMAIN out : IsScript(out[i])}

FirstOf(items, n) == SubSeq(items, 1, n)
RestOf(items, n) == SubSeq(items, n + 1, Len(items))

(* InOrder, of any output.                                                 *)
Ordered(out, places, n) ==
  /\ {out[i].at : i \in places} = 1..n
  /\ \A i, j \in places : i < j => out[i].at < out[j].at

(* The items are the bytes of the document after its first from ones.      *)
Placed(doc, items, from) ==
  \A i \in 1..Len(items) :
    /\ from + i \in 1..Len(doc)
    /\ items[i] = Item(doc[from + i].byte, from + i)

(* The first m bytes end with the first k bytes of the trailer.            *)
EndsAt(doc, m, k) ==
  k <= m /\ \A i \in 1..k : doc[m - k + i].byte = Trailer[i]

(* And k is as large as it can be: that much is held back.                 *)
Held(doc, m, k) ==
  /\ k <= Len(Trailer)
  /\ EndsAt(doc, m, k)
  /\ \A l \in 0..Len(Trailer) : EndsAt(doc, m, l) => l <= k

(* The HTML of the output is the first w bytes of the document.            *)
Written(doc, out, w) ==
  /\ Ordered(out, HtmlOf(out), w)
  /\ \A i \in HtmlOf(out) : out[i].byte = doc[out[i].at].byte

(* No batch has text on both sides of place w.                             *)
Apart(doc, w) ==
  \A i, j \in 1..Len(doc) :
    /\ i <= w /\ w < j
    /\ doc[i].byte = "text" /\ doc[j].byte = "text"
    => doc[i].batch # doc[j].batch

-----------------------------------------------------------------------------
(* Sequences, the trailer and documents.                                   *)

LEMMA FunctionIsSequence ==
  ASSUME NEW S, NEW n \in Nat, NEW f \in [1..n -> S]
  PROVE  f \in Seq(S) /\ Len(f) = n
<1>1. f \in Seq(S)
  BY SeqDef
<1>2. Len(f) \in Nat /\ DOMAIN f = 1..Len(f)
  BY <1>1, LenProperties
<1> QED
  BY <1>1, <1>2

LEMMA TrailerFacts ==
  /\ Len(Trailer) = 4
  /\ \A i \in 1..Len(Trailer) : Trailer[i] \in Bytes /\ Trailer[i] # "text"
BY DEF Trailer, Bytes

LEMMA DocumentFacts ==
  ASSUME NEW doc \in Documents
  PROVE  /\ doc \in Seq([byte : Bytes, batch : Nat])
         /\ Len(doc) \in Nat
         /\ DOMAIN doc = 1..Len(doc)
         /\ \A i \in 1..Len(doc) : doc[i].byte \in Bytes /\ doc[i].batch \in Nat
         /\ \A i, j \in 1..Len(doc) : i <= j => doc[i].batch <= doc[j].batch
<1>1. doc \in Seq([byte : Bytes, batch : Nat])
  BY StreamAssumption
<1>2. Len(doc) \in Nat /\ DOMAIN doc = 1..Len(doc)
  BY <1>1, LenProperties
<1>3. \A i \in 1..Len(doc) : doc[i] \in [byte : Bytes, batch : Nat]
  BY <1>1, ElementOfSeq
<1>4. \A i, j \in DOMAIN doc : i <= j => doc[i].batch <= doc[j].batch
  BY StreamAssumption
<1> QED
  BY <1>1, <1>2, <1>3, <1>4

LEMMA HtmlIsPlaced ==
  ASSUME document \in Documents,
         NEW from \in 0..Len(document), NEW to \in from..Len(document)
  PROVE  /\ Html(from, to) \in Seq(Items)
         /\ Len(Html(from, to)) = to - from
         /\ Placed(document, Html(from, to), from)
<1>1. Len(document) \in Nat
      /\ \A i \in 1..Len(document) : document[i].byte \in Bytes
  BY DocumentFacts
<1>2. from \in Nat /\ to \in Nat /\ to - from \in Nat
  BY <1>1
<1>3. \A i \in 1..(to - from) : from + i \in 1..Len(document)
  BY <1>1, <1>2
<1>4. Html(from, to) \in [1..(to - from) -> Items]
  BY <1>1, <1>2, <1>3 DEF Html, Item, Items
<1>5. Html(from, to) \in Seq(Items) /\ Len(Html(from, to)) = to - from
  BY <1>2, <1>4, FunctionIsSequence
<1>6. Placed(document, Html(from, to), from)
  BY <1>3, <1>5 DEF Placed, Html
<1> QED
  BY <1>5, <1>6

LEMMA PlacedParts ==
  ASSUME NEW doc \in Documents, NEW items \in Seq(Items), NEW from \in Nat,
         NEW n \in 0..Len(items), Placed(doc, items, from)
  PROVE  /\ FirstOf(items, n) \in Seq(Items)
         /\ Len(FirstOf(items, n)) = n
         /\ Placed(doc, FirstOf(items, n), from)
         /\ RestOf(items, n) \in Seq(Items)
         /\ Len(RestOf(items, n)) = Len(items) - n
         /\ Placed(doc, RestOf(items, n), from + n)
<1> DEFINE first == FirstOf(items, n)
           rest == RestOf(items, n)
<1>1. Len(items) \in Nat /\ \A i \in 1..Len(items) : items[i] \in Items
  BY LenProperties, ElementOfSeq
<1>2. n \in Nat /\ n <= Len(items)
  BY <1>1
<1>3. first \in Seq(Items) /\ Len(first) = n /\ \A i \in 1..n : first[i] = items[i]
  <2>1. \A i \in 1..n : items[i] \in Items
    BY <1>1, <1>2
  <2>2. /\ first \in Seq(Items)
        /\ Len(first) = IF 1 <= n THEN n - 1 + 1 ELSE 0
        /\ \A i \in 1..(n - 1 + 1) : first[i] = items[1 + i - 1]
    BY <1>2, <2>1, SubSeqProperties DEF FirstOf
  <2> QED
    BY <1>2, <2>2
<1>4. /\ rest \in Seq(Items) /\ Len(rest) = Len(items) - n
      /\ \A i \in 1..Len(rest) : rest[i] = items[n + i]
  <2>1. \A i \in (n + 1)..Len(items) : items[i] \in Items
    BY <1>1, <1>2
  <2>2. /\ rest \in Seq(Items)
        /\ Len(rest) = IF n + 1 <= Len(items) THEN Len(items) - (n + 1) + 1 ELSE 0
        /\ \A i \in 1..(Len(items) - (n + 1) + 1) : rest[i] = items[n + 1 + i - 1]
    BY <1>1, <1>2, <2>1, SubSeqProperties DEF RestOf
  <2> QED
    BY <1>1, <1>2, <2>2
<1>5. Placed(doc, first, from)
  BY <1>2, <1>3, <1>1 DEF Placed
<1>6. ASSUME NEW i \in 1..Len(rest)
      PROVE  (from + n) + i \in 1..Len(doc) /\ rest[i] = Item(doc[(from + n) + i].byte, (from + n) + i)
  <2>1. n + i \in 1..Len(items) /\ rest[i] = items[n + i]
    BY <1>1, <1>2, <1>4
  <2>2. from + (n + i) = (from + n) + i
    BY <1>1, <1>2, <1>4
  <2> QED
    BY <2>1, <2>2 DEF Placed
<1>7. Placed(doc, rest, from + n)
  BY <1>6 DEF Placed
<1> QED
  BY <1>3, <1>4, <1>5, <1>7

LEMMA PlacedJoin ==
  ASSUME NEW doc \in Documents, NEW s \in Seq(Items), NEW t \in Seq(Items),
         NEW from \in Nat, Placed(doc, s, from), Placed(doc, t, from + Len(s))
  PROVE  /\ s \o t \in Seq(Items)
         /\ Len(s \o t) = Len(s) + Len(t)
         /\ Placed(doc, s \o t, from)
<1>1. Len(s) \in Nat /\ Len(t) \in Nat
  BY LenProperties
<1>2. /\ s \o t \in Seq(Items)
      /\ Len(s \o t) = Len(s) + Len(t)
      /\ \A i \in 1..Len(s) + Len(t) :
           (s \o t)[i] = IF i <= Len(s) THEN s[i] ELSE t[i - Len(s)]
  BY ConcatProperties
<1>3. ASSUME NEW i \in 1..Len(s \o t)
      PROVE  from + i \in 1..Len(doc) /\ (s \o t)[i] = Item(doc[from + i].byte, from + i)
  <2>1. CASE i <= Len(s)
    BY <1>1, <1>2, <2>1 DEF Placed
  <2>2. CASE i > Len(s)
    <3>1. i - Len(s) \in 1..Len(t)
      BY <1>1, <1>2, <2>2
    <3>2. (s \o t)[i] = t[i - Len(s)]
      BY <1>1, <1>2, <2>2
    <3>3. (from + Len(s)) + (i - Len(s)) = from + i
      BY <1>1
    <3> QED
      BY <3>1, <3>2, <3>3 DEF Placed
  <2> QED
    BY <1>1, <1>2, <2>1, <2>2
<1> QED
  BY <1>2, <1>3 DEF Placed

LEMMA LongestEnd ==
  ASSUME NEW items \in Seq(Items)
  PROVE  /\ TrailerPrefixLength(items) \in 0..Len(Trailer)
         /\ TrailerPrefixLength(items) <= Len(items)
         /\ Ends(items, TrailerPrefixLength(items))
         /\ \A m \in 0..Len(Trailer) : Ends(items, m) => m <= TrailerPrefixLength(items)
<1> DEFINE E(n) == Ends(items, n)
<1>1. Len(items) \in Nat
  BY LenProperties
<1>2. E(0)
  BY <1>1 DEF Ends
<1>3. \E n \in 0..4 : E(n) /\ \A m \in 0..4 : E(m) => m <= n
  <2> HIDE DEF E
  <2>1. 0..4 = {0, 1, 2, 3, 4}
    OBVIOUS
  <2> QED
    BY <1>2, <2>1
<1>4. \E n \in 0..Len(Trailer) :
        /\ Ends(items, n)
        /\ \A m \in 0..Len(Trailer) : Ends(items, m) => m <= n
  BY <1>3, TrailerFacts
<1>5. /\ TrailerPrefixLength(items) \in 0..Len(Trailer)
      /\ Ends(items, TrailerPrefixLength(items))
      /\ \A m \in 0..Len(Trailer) : Ends(items, m) => m <= TrailerPrefixLength(items)
  BY <1>4 DEF TrailerPrefixLength
<1>6. TrailerPrefixLength(items) <= Len(items)
  BY <1>5 DEF Ends
<1> QED
  BY <1>5, <1>6

(* The end of placed items is the end of that part of the document.        *)
LEMMA EndsOfPlaced ==
  ASSUME NEW doc \in Documents, NEW items \in Seq(Items), NEW from \in Nat,
         Placed(doc, items, from), NEW l \in 0..Len(items)
  PROVE  Ends(items, l) <=> EndsAt(doc, from + Len(items), l)
<1>1. Len(items) \in Nat /\ l \in Nat /\ l <= Len(items)
  BY LenProperties
<1>2. ASSUME NEW i \in 1..l
      PROVE  items[Len(items) - l + i].byte = doc[from + Len(items) - l + i].byte
  <2>1. Len(items) - l + i \in 1..Len(items)
    BY <1>1
  <2>2. from + (Len(items) - l + i) = from + Len(items) - l + i
    BY <1>1
  <2>3. items[Len(items) - l + i] = Item(doc[from + Len(items) - l + i].byte, from + Len(items) - l + i)
    BY <2>1, <2>2 DEF Placed
  <2> QED
    BY <2>3 DEF Item
<1>3. l <= from + Len(items)
  BY <1>1
<1>4. Ends(items, l) <=> \A i \in 1..l : items[Len(items) - l + i].byte = Trailer[i]
  BY <1>1 DEF Ends
<1>5. EndsAt(doc, from + Len(items), l)
        <=> \A i \in 1..l : doc[from + Len(items) - l + i].byte = Trailer[i]
  BY <1>3 DEF EndsAt
<1> QED
  BY <1>2, <1>4, <1>5

(* What FlushHtml does with the tail and the buffer: a part goes out, and  *)
(* the longest beginning of the trailer is held back again, however the    *)
(* trailer and the bytes before it overlap.                                *)
LEMMA FlushedParts ==
  ASSUME NEW doc \in Documents, NEW tl \in Seq(Items), NEW buf \in Seq(Items),
         NEW w \in Nat, Placed(doc, tl, w), Placed(doc, buf, w + Len(tl)),
         Held(doc, w + Len(tl), Len(tl))
  PROVE  LET all == tl \o buf
             b == Len(all) - TrailerPrefixLength(all)
             first == FirstOf(all, b)
             rest == RestOf(all, b)
         IN /\ b \in Nat
            /\ first \in Seq(Items) /\ Len(first) = b
            /\ rest \in Seq(Items)
            /\ Placed(doc, first, w)
            /\ Placed(doc, rest, w + b)
            /\ (w + b) + Len(rest) = w + Len(tl) + Len(buf)
            /\ Held(doc, (w + b) + Len(rest), Len(rest))
<1> DEFINE all == tl \o buf
           k == TrailerPrefixLength(all)
           b == Len(all) - k
           first == FirstOf(all, b)
           rest == RestOf(all, b)
<1>1. all \in Seq(Items) /\ Len(all) = Len(tl) + Len(buf) /\ Placed(doc, all, w)
  BY PlacedJoin
<1>2. Len(tl) \in Nat /\ Len(buf) \in Nat
  BY LenProperties
<1>3. /\ k \in 0..Len(Trailer) /\ k <= Len(all)
      /\ Ends(all, k) /\ \A l \in 0..Len(Trailer) : Ends(all, l) => l <= k
  BY <1>1, LongestEnd
<1>4. k \in Nat /\ Len(all) \in Nat /\ b \in 0..Len(all)
  BY <1>1, <1>2, <1>3, TrailerFacts
<1> HIDE DEF k, all
<1>5. b = Len(all) - k
  OBVIOUS
<1> HIDE DEF b
<1>11. /\ first \in Seq(Items) /\ Len(first) = b
      /\ rest \in Seq(Items) /\ Len(rest) = Len(all) - b
      /\ Placed(doc, first, w) /\ Placed(doc, rest, w + b)
  <2>1. b \in 0..Len(all) /\ all \in Seq(Items) /\ Placed(doc, all, w)
    BY <1>1, <1>4
  <2>2. first \in Seq(Items) /\ Len(first) = b
    BY <2>1, PlacedParts
  <2>3. rest \in Seq(Items)
    BY <2>1, PlacedParts
  <2>4. Len(rest) = Len(all) - b
    BY <2>1, PlacedParts
  <2>5. Placed(doc, first, w)
    BY <2>1, PlacedParts
  <2>6. Placed(doc, rest, w + b)
    BY <2>1, PlacedParts
  <2> QED
    BY <2>2, <2>3, <2>4, <2>5, <2>6
<1> HIDE DEF first, rest
<1>6. Len(rest) = k /\ (w + b) + Len(rest) = w + Len(all)
  <2>1. Len(rest) = Len(all) - b
    BY <1>11
  <2>2. k \in Nat /\ Len(all) \in Nat /\ b \in Nat
    BY <1>4
  <2> QED
    BY <1>5, <2>1, <2>2
<1>7. EndsAt(doc, w + Len(all), k)
  <2>1. k \in 0..Len(all)
    BY <1>3, <1>4
  <2> QED
    BY <1>1, <1>3, <2>1, EndsOfPlaced
<1>8. ASSUME NEW l \in 0..Len(Trailer), EndsAt(doc, w + Len(all), l), ~(l <= k)
      PROVE  FALSE
  <2>1. l \in Nat
    BY TrailerFacts
  <2>2. CASE l <= Len(all)
    <3>1. Ends(all, l)
      <4>1. l \in 0..Len(all)
        BY <1>4, <2>1, <2>2
      <4> QED
        BY <1>1, <1>8, <4>1, EndsOfPlaced
    <3> QED
      BY <1>3, <1>8, <3>1
  <2>3. CASE l > Len(all)
    <3> DEFINE p == l - Len(buf)
    <3>1. p \in Nat /\ p > Len(tl) /\ p <= l
      BY <1>1, <1>2, <2>1, <2>3
    <3>2. p \in 0..Len(Trailer)
      BY <3>1, <2>1, TrailerFacts
    <3>3. p <= w + Len(tl)
      <4>1. l <= w + Len(all)
        BY <1>8 DEF EndsAt
      <4> QED
        BY <4>1, <1>1, <1>2, <2>1
    <3>4. ASSUME NEW i \in 1..p
          PROVE  doc[w + Len(tl) - p + i].byte = Trailer[i]
      <4>1. i \in 1..l
        BY <3>1, <2>1
      <4>2. doc[w + Len(all) - l + i].byte = Trailer[i]
        BY <4>1, <1>8 DEF EndsAt
      <4>3. w + Len(tl) - p + i = w + Len(all) - l + i
        BY <1>1, <1>2, <2>1
      <4> QED
        BY <4>2, <4>3
    <3>5. EndsAt(doc, w + Len(tl), p)
      BY <3>3, <3>4 DEF EndsAt
    <3>6. p <= Len(tl)
      BY <3>2, <3>5 DEF Held
    <3> QED
      BY <3>1, <3>6, <1>2
  <2> QED
    BY <2>1, <2>2, <2>3, <1>4
<1>9. Held(doc, w + Len(all), k)
  <2>1. k <= Len(Trailer)
    BY <1>3, TrailerFacts
  <2> QED
    BY <1>7, <1>8, <2>1 DEF Held
<1>10. w + Len(all) = w + Len(tl) + Len(buf)
  BY <1>1, <1>2
<1>12. /\ b \in Nat
       /\ (w + b) + Len(rest) = w + Len(tl) + Len(buf)
       /\ Held(doc, (w + b) + Len(rest), Len(rest))
  BY <1>4, <1>6, <1>9, <1>10
<1> QED
  BY <1>11, <1>12 DEF k, all, b, first, rest

(* The items that are appended to the output have the next places.         *)
LEMMA OrderedAppend ==
  ASSUME NEW out \in Seq(Items), NEW more \in Seq(Items), NEW n \in Nat,
         NEW places \in SUBSET (1..Len(out)), Ordered(out, places, n),
         \A i \in 1..Len(more) : more[i].at = n + i
  PROVE  /\ Ordered(out \o more, places, n)
         /\ Ordered(out \o more, places \cup ((Len(out) + 1)..(Len(out) + Len(more))), n + Len(more))
<1> DEFINE new == (Len(out) + 1)..(Len(out) + Len(more))
           next == out \o more
<1>1. Len(out) \in Nat /\ Len(more) \in Nat
  BY LenProperties
<1>2. \A i \in 1..Len(out) + Len(more) :
        next[i] = IF i <= Len(out) THEN out[i] ELSE more[i - Len(out)]
  BY ConcatProperties
<1>3. \A i \in places : next[i] = out[i]
  BY <1>1, <1>2
<1>4. \A i \in new : next[i].at = n + (i - Len(out))
  <2>1. SUFFICES ASSUME NEW i \in new
                 PROVE  next[i].at = n + (i - Len(out))
    OBVIOUS
  <2>2. i - Len(out) \in 1..Len(more) /\ next[i] = more[i - Len(out)]
    BY <1>1, <1>2
  <2> QED
    BY <2>2
<1> HIDE DEF next
<1>5. {next[i].at : i \in places} = 1..n
  BY <1>3 DEF Ordered
<1>6. {next[i].at : i \in new} = (n + 1)..(n + Len(more))
  <2>1. ASSUME NEW i \in new
        PROVE  next[i].at \in (n + 1)..(n + Len(more))
    BY <1>1, <1>4
  <2>2. ASSUME NEW p \in (n + 1)..(n + Len(more))
        PROVE  \E i \in new : next[i].at = p
    <3>1. Len(out) + (p - n) \in new
      BY <1>1
    <3>2. next[Len(out) + (p - n)].at = n + ((Len(out) + (p - n)) - Len(out))
      BY <3>1, <1>4
    <3>3. n + ((Len(out) + (p - n)) - Len(out)) = p
      BY <1>1
    <3> QED
      BY <3>1, <3>2, <3>3
  <2> QED
    BY <2>1, <2>2
<1>7. {next[i].at : i \in places \cup new} = 1..(n + Len(more))
  <2>1. 1..(n + Len(more)) = (1..n) \cup ((n + 1)..(n + Len(more)))
    BY <1>1
  <2>2. {next[i].at : i \in places \cup new}
          = {next[i].at : i \in places} \cup {next[i].at : i \in new}
    OBVIOUS
  <2> QED
    BY <1>5, <1>6, <2>1, <2>2
<1>8. \A i, j \in places : i < j => next[i].at < next[j].at
  BY <1>3 DEF Ordered
<1>9. ASSUME NEW i \in places \cup new, NEW j \in places \cup new, i < j
      PROVE  next[i].at < next[j].at
  <2>1. CASE j \in places
    <3>1. i \in places
      BY <1>1, <1>9, <2>1
    <3> QED
      BY <1>8, <1>9, <2>1, <3>1
  <2>2. CASE i \in places /\ j \in new
    <3>1. next[i].at \in 1..n
      BY <2>2, <1>5
    <3>2. next[j].at \in (n + 1)..(n + Len(more))
      BY <2>2, <1>6
    <3> QED
      BY <3>1, <3>2, <1>1
  <2>3. CASE i \in new /\ j \in new
    <3>1. next[i].at = n + (i - Len(out)) /\ next[j].at = n + (j - Len(out))
      BY <2>3, <1>4
    <3> QED
      BY <3>1, <2>3, <1>9, <1>1
  <2> QED
    BY <2>1, <2>2, <2>3
<1> QED
  BY <1>5, <1>7, <1>8, <1>9 DEF Ordered, next

LEMMA AppendedItems ==
  ASSUME NEW out \in Seq(Items), NEW more \in Seq(Items)
  PROVE  /\ out \o more \in Seq(Items)
         /\ Len(out \o more) = Len(out) + Len(more)
         /\ DOMAIN (out \o more) = 1..(Len(out) + Len(more))
         /\ \A i \in 1..Len(out) : (out \o more)[i] = out[i]
         /\ \A i \in 1..Len(more) : (out \o more)[Len(out) + i] = more[i]
<1>1. Len(out) \in Nat /\ Len(more) \in Nat
  BY LenProperties
<1>2. /\ out \o more \in Seq(Items)
      /\ Len(out \o more) = Len(out) + Len(more)
      /\ \A i \in 1..Len(out) + Len(more) :
           (out \o more)[i] = IF i <= Len(out) THEN out[i] ELSE more[i - Len(out)]
  BY ConcatProperties
<1>3. DOMAIN (out \o more) = 1..(Len(out) + Len(more))
  BY <1>2, LenProperties
<1>4. ASSUME NEW i \in 1..Len(more)
      PROVE  (out \o more)[Len(out) + i] = more[i]
  <2>1. Len(out) + i \in 1..Len(out) + Len(more) /\ ~(Len(out) + i <= Len(out))
    BY <1>1
  <2>2. (Len(out) + i) - Len(out) = i
    BY <1>1
  <2> QED
    BY <1>2, <2>1, <2>2
<1>5. \A i \in 1..Len(out) : (out \o more)[i] = out[i]
  BY <1>1, <1>2
<1> QED
  BY <1>2, <1>3, <1>4, <1>5

(* HTML goes behind the HTML that was written, and leaves the scripts      *)
(* where they are.                                                         *)
LEMMA AppendHtml ==
  ASSUME NEW out \in Seq(Items), NEW more \in Seq(Items), NEW n \in Nat,
         Ordered(out, HtmlOf(out), n),
         \A i \in 1..Len(more) : more[i].at = n + i /\ ~IsScript(more[i])
  PROVE  /\ Ordered(out \o more, HtmlOf(out \o more), n + Len(more))
         /\ ScriptsOf(out \o more) = ScriptsOf(out)
         /\ HtmlOf(out \o more) = HtmlOf(out) \cup ((Len(out) + 1)..(Len(out) + Len(more)))
<1> DEFINE new == (Len(out) + 1)..(Len(out) + Len(more))
           next == out \o more
<1>1. Len(out) \in Nat /\ Len(more) \in Nat /\ DOMAIN out = 1..Len(out)
  BY LenProperties
<1>2. /\ DOMAIN next = 1..(Len(out) + Len(more))
      /\ \A i \in 1..Len(out) : next[i] = out[i]
      /\ \A i \in 1..Len(more) : next[Len(out) + i] = more[i]
  BY AppendedItems
<1> HIDE DEF next
<1>3. \A i \in new : ~IsScript(next[i])
  <2>1. SUFFICES ASSUME NEW i \in new
                 PROVE  ~IsScript(next[i])
    OBVIOUS
  <2>2. i - Len(out) \in 1..Len(more) /\ Len(out) + (i - Len(out)) = i
    BY <1>1
  <2> QED
    BY <1>2, <2>2
<1>4. DOMAIN next = (1..Len(out)) \cup new
  BY <1>1, <1>2
<1>5. HtmlOf(next) = HtmlOf(out) \cup new
  BY <1>1, <1>2, <1>3, <1>4 DEF HtmlOf
<1>6. ScriptsOf(next) = ScriptsOf(out)
  BY <1>1, <1>2, <1>3, <1>4 DEF ScriptsOf
<1>7. HtmlOf(out) \in SUBSET (1..Len(out))
  BY <1>1 DEF HtmlOf
<1>8. Ordered(out \o more, HtmlOf(out) \cup new, n + Len(more))
  BY <1>7, OrderedAppend
<1> QED
  BY <1>5, <1>6, <1>8 DEF next

(* The scripts keep their order when HTML is written.                      *)
LEMMA ScriptsStay ==
  ASSUME NEW out \in Seq(Items), NEW more \in Seq(Items), NEW c \in Nat,
         Ordered(out, ScriptsOf(out), c), ScriptsOf(out \o more) = ScriptsOf(out)
  PROVE  Ordered(out \o more, ScriptsOf(out \o more), c)
<1>1. Len(out) \in Nat /\ DOMAIN out = 1..Len(out)
  BY LenProperties
<1>2. \A i \in ScriptsOf(out) : (out \o more)[i] = out[i]
  BY <1>1, AppendedItems DEF ScriptsOf
<1>3. {(out \o more)[i].at : i \in ScriptsOf(out)} = {out[i].at : i \in ScriptsOf(out)}
  BY <1>2
<1>4. \A i, j \in ScriptsOf(out) :
        i < j => (out \o more)[i].at < (out \o more)[j].at
  BY <1>2 DEF Ordered
<1> QED
  BY <1>3, <1>4 DEF Ordered

(* A script goes behind the scripts, and leaves the HTML as it is.         *)
LEMMA AppendScript ==
  ASSUME NEW out \in Seq(Items), NEW n \in Nat, NEW c \in Nat,
         Ordered(out, HtmlOf(out), n), Ordered(out, ScriptsOf(out), c)
  PROVE  LET next == Append(out, Script(c + 1))
         IN /\ next \in Seq(Items) /\ Len(next) = Len(out) + 1
            /\ \A i \in 1..Len(out) : next[i] = out[i]
            /\ next[Len(out) + 1] = Script(c + 1)
            /\ HtmlOf(next) = HtmlOf(out)
            /\ Ordered(next, HtmlOf(next), n)
            /\ Ordered(next, ScriptsOf(next), c + 1)
<1> DEFINE script == Script(c + 1)
           more == <<script>>
           next == out \o more
<1>1. script \in Items /\ IsScript(script) /\ script.at = c + 1
  BY DEF Script, Item, Items, IsScript
<1> HIDE DEF script
<1>2. more \in Seq(Items) /\ Len(more) = 1 /\ more[1] = script
  BY <1>1
<1>3. Append(out, script) = next
  BY <1>1, AppendIsConcat
<1>4. Len(out) \in Nat /\ DOMAIN out = 1..Len(out)
  BY LenProperties
<1> HIDE DEF more
<1>5. /\ next \in Seq(Items) /\ Len(next) = Len(out) + 1
      /\ DOMAIN next = 1..(Len(out) + 1)
      /\ \A i \in 1..Len(out) : next[i] = out[i]
      /\ next[Len(out) + 1] = script
  <2>1. /\ next \in Seq(Items) /\ Len(next) = Len(out) + Len(more)
        /\ DOMAIN next = 1..(Len(out) + Len(more))
        /\ \A i \in 1..Len(out) : next[i] = out[i]
        /\ \A i \in 1..Len(more) : next[Len(out) + i] = more[i]
    BY <1>2, AppendedItems
  <2>2. 1 \in 1..Len(more)
    BY <1>2
  <2>3. next[Len(out) + 1] = more[1]
    BY <2>1, <2>2
  <2> QED
    BY <1>2, <2>1, <2>3
<1> HIDE DEF next
<1>6. HtmlOf(next) = HtmlOf(out)
  BY <1>1, <1>4, <1>5 DEF HtmlOf
<1>7. ScriptsOf(next) = ScriptsOf(out) \cup ((Len(out) + 1)..(Len(out) + Len(more)))
  <2>1. (Len(out) + 1)..(Len(out) + Len(more)) = {Len(out) + 1}
    BY <1>2, <1>4
  <2> QED
    BY <1>1, <1>4, <1>5, <2>1 DEF ScriptsOf
<1>8. HtmlOf(out) \in SUBSET (1..Len(out)) /\ ScriptsOf(out) \in SUBSET (1..Len(out))
  BY <1>4 DEF HtmlOf, ScriptsOf
<1>9. Ordered(next, ScriptsOf(next), c + 1)
  <2>1. \A i \in 1..Len(more) : more[i].at = c + i
    BY <1>1, <1>2
  <2>2. Ordered(out \o more, ScriptsOf(out) \cup ((Len(out) + 1)..(Len(out) + Len(more))), c + Len(more))
    BY <1>2, <1>8, <2>1, OrderedAppend
  <2> QED
    BY <1>2, <1>7, <2>2 DEF next
<1>10. Ordered(next, HtmlOf(next), n)
  <2>1. \A i \in HtmlOf(out) : next[i] = out[i]
    BY <1>5, <1>8
  <2>2. {next[i].at : i \in HtmlOf(out)} = {out[i].at : i \in HtmlOf(out)}
    BY <2>1
  <2>3. \A i, j \in HtmlOf(out) : i < j => next[i].at < next[j].at
    BY <2>1 DEF Ordered
  <2> QED
    BY <1>6, <2>2, <2>3 DEF Ordered
<1>11. Append(out, Script(c + 1)) = next
  BY <1>3 DEF script
<1> QED
  BY <1>5, <1>6, <1>9, <1>10, <1>11 DEF script

(* The items of the document that follow the HTML of the output continue   *)
(* it.                                                                     *)
LEMMA WrittenAppend ==
  ASSUME NEW doc \in Documents, NEW out \in Seq(Items), NEW more \in Seq(Items),
         NEW w \in Nat, Written(doc, out, w), Placed(doc, more, w)
  PROVE  /\ Written(doc, out \o more, w + Len(more))
         /\ ScriptsOf(out \o more) = ScriptsOf(out)
<1> DEFINE next == out \o more
           new == (Len(out) + 1)..(Len(out) + Len(more))
<1>1. Len(out) \in Nat /\ DOMAIN out = 1..Len(out) /\ Len(more) \in Nat
  BY LenProperties
<1>2. ASSUME NEW i \in 1..Len(more)
      PROVE  /\ more[i].at = w + i /\ more[i].byte = doc[w + i].byte
             /\ ~IsScript(more[i])
  <2>1. w + i \in 1..Len(doc) /\ more[i] = Item(doc[w + i].byte, w + i)
    BY DEF Placed
  <2>2. doc[w + i].byte # "script"
    BY <2>1, DocumentFacts DEF Bytes
  <2> QED
    BY <2>1, <2>2 DEF Item, IsScript
<1>3. /\ Ordered(next, HtmlOf(next), w + Len(more))
      /\ ScriptsOf(next) = ScriptsOf(out)
      /\ HtmlOf(next) = HtmlOf(out) \cup new
  <2>1. Ordered(out, HtmlOf(out), w)
    BY DEF Written
  <2> QED
    BY <1>2, <2>1, AppendHtml
<1>4. /\ \A i \in 1..Len(out) : next[i] = out[i]
      /\ \A i \in 1..Len(more) : next[Len(out) + i] = more[i]
  BY AppendedItems
<1> HIDE DEF next
<1>5. ASSUME NEW i \in HtmlOf(next)
      PROVE  next[i].byte = doc[next[i].at].byte
  <2>1. CASE i \in HtmlOf(out)
    <3>1. next[i] = out[i]
      BY <1>1, <1>4, <2>1 DEF HtmlOf
    <3> QED
      BY <2>1, <3>1 DEF Written
  <2>2. CASE i \in new
    <3>1. i - Len(out) \in 1..Len(more) /\ Len(out) + (i - Len(out)) = i
      BY <1>1, <2>2
    <3>2. next[i] = more[i - Len(out)]
      BY <1>4, <3>1
    <3> QED
      BY <1>2, <3>1, <3>2
  <2> QED
    BY <1>3, <2>1, <2>2
<1> QED
  BY <1>3, <1>5 DEF Written, next

-----------------------------------------------------------------------------
(* The invariant.                                                          *)

StateTypes ==
  /\ document \in Documents
  /\ rendered \in 0..Len(document)
  /\ arriving \in Seq(Items)
  /\ buffered \in Seq(Items)
  /\ tail \in Seq(Items)
  /\ output \in Seq(Items)
  /\ flushScheduled \in BOOLEAN
  /\ sleeping \in BOOLEAN
  /\ reader \in {"idle", "reading", "released"}
  /\ embedded \in 0..FlightChunks
  /\ completion \in BOOLEAN
  /\ stream \in {"open", "flushing", "closed", "errored"}
  /\ wanted \in BOOLEAN
  /\ lagging \in BOOLEAN
  /\ parsed \in 0..Len(output)
  /\ loaded \in BOOLEAN
  /\ attached \in BOOLEAN
  /\ queue \in Seq(Nat)
  /\ received \in Seq(Nat)
  /\ ended \in BOOLEAN

(* No batch was rendered in part.                                          *)
WholeBatches(doc, r) ==
  \A i, j \in 1..Len(doc) : i <= r /\ r < j => doc[i].batch # doc[j].batch

(* What the timer and the end of the HTML leave behind.                    *)
BufferInv ==
  /\ stream \in {"flushing", "closed"} =>
       ~flushScheduled /\ arriving = <<>> /\ rendered = Len(document)
  /\ stream # "errored" /\ ~flushScheduled => buffered = <<>>
  /\ WholeBatches(document, rendered)

(* Every rendered byte is in one place: the first w were written, then     *)
(* come the tail, the buffer and what the transformer was not given.       *)
HtmlAt(w) ==
  /\ Written(document, output, w)
  /\ Placed(document, tail, w)
  /\ Placed(document, buffered, w + Len(tail))
  /\ Placed(document, arriving, w + Len(tail) + Len(buffered))
  /\ w + Len(tail) + Len(buffered) + Len(arriving) = rendered
  /\ Held(document, w + Len(tail), Len(tail))
  /\ ~lagging => Apart(document, w)

HtmlInv == stream # "closed" => \E w \in Nat : HtmlAt(w)

(* The document was completed when the response was closed.                *)
ClosedInv == stream = "closed" => HtmlIntact /\ Ends(output, Len(Trailer))

(* The Flight stream ended before the response did.                        *)
FlightInv ==
  /\ completion /\ stream # "errored" => reader = "released" /\ embedded = FlightChunks
  /\ stream = "closed" => completion
  /\ \E c \in 0..embedded :
       Ordered(output, ScriptsOf(output), c) /\ (stream # "errored" => c = embedded)

(* The scripts that the browser ran.                                       *)
Ran(out, n) == {i \in ScriptsOf(out) : i <= n}
Seen == IF attached THEN received ELSE queue

(* They are the chunks that the client has or finds.                       *)
BrowserInv ==
  /\ attached => queue = <<>>
  /\ ~attached => received = <<>>
  /\ \E n \in Nat :
       Seen = [i \in 1..n |-> i] /\ {output[i].at : i \in Ran(output, parsed)} = 1..n
  /\ ended => loaded /\ attached
  /\ loaded /\ stream # "errored" => stream = "closed" /\ parsed = Len(output)

StreamInv ==
  /\ StateTypes
  /\ BufferInv
  /\ HtmlInv
  /\ ClosedInv
  /\ FlightInv
  /\ EagerFlightBetweenBatches
  /\ BrowserInv

-----------------------------------------------------------------------------
(* What the actions do to the output.                                      *)

LEMMA CombinedFlushed ==
  ASSUME StateTypes, NEW w \in Nat, HtmlAt(w)
  PROVE  /\ Combined \in Seq(Items)
         /\ BodyLength \in Nat
         /\ FirstOf(Combined, BodyLength) \in Seq(Items)
         /\ Len(FirstOf(Combined, BodyLength)) = BodyLength
         /\ RestOf(Combined, BodyLength) \in Seq(Items)
         /\ Placed(document, FirstOf(Combined, BodyLength), w)
         /\ Placed(document, RestOf(Combined, BodyLength), w + BodyLength)
         /\ (w + BodyLength) + Len(RestOf(Combined, BodyLength))
              = w + Len(tail) + Len(buffered)
         /\ Held(document, (w + BodyLength) + Len(RestOf(Combined, BodyLength)),
                 Len(RestOf(Combined, BodyLength)))
<1>1. /\ document \in Documents /\ tail \in Seq(Items) /\ buffered \in Seq(Items)
      /\ Placed(document, tail, w) /\ Placed(document, buffered, w + Len(tail))
      /\ Held(document, w + Len(tail), Len(tail))
  BY DEF StateTypes, HtmlAt
<1>2. Combined \in Seq(Items)
  BY <1>1, ConcatProperties DEF Combined
<1> QED
  BY <1>1, <1>2, FlushedParts DEF Combined, BodyLength

(* No text is held back.                                                   *)
LEMMA HeldHasNoText ==
  ASSUME NEW doc \in Documents, NEW r \in 0..Len(doc), NEW k \in Nat,
         Held(doc, r, k), k <= r, NEW j \in (r - k + 1)..r
  PROVE  doc[j].byte # "text"
<1>1. Len(doc) \in Nat
  BY DocumentFacts
<1>2. j - (r - k) \in 1..k /\ r - k + (j - (r - k)) = j
  BY <1>1
<1>3. doc[j].byte = Trailer[j - (r - k)]
  BY <1>2 DEF Held, EndsAt
<1>4. j - (r - k) \in 1..Len(Trailer)
  BY <1>2, TrailerFacts DEF Held
<1> QED
  BY <1>3, <1>4, TrailerFacts

(* What is written when nothing arrives and no batch is rendered in part   *)
(* ends between batches.                                                   *)
LEMMA WrittenApart ==
  ASSUME NEW doc \in Documents, NEW r \in 0..Len(doc), NEW w \in Nat, NEW k \in Nat,
         w + k = r, Held(doc, r, k), WholeBatches(doc, r)
  PROVE  Apart(doc, w)
<1>1. Len(doc) \in Nat
  BY DocumentFacts
<1>2. SUFFICES ASSUME NEW i \in 1..Len(doc), NEW j \in 1..Len(doc),
                      i <= w, w < j, doc[i].byte = "text", doc[j].byte = "text"
               PROVE  doc[i].batch # doc[j].batch
  BY DEF Apart
<1>3. CASE j <= r
  <2>1. j \in (r - k + 1)..r /\ k <= r
    BY <1>1, <1>2, <1>3
  <2> QED
    BY <1>2, <2>1, HeldHasNoText
<1>4. CASE r < j
  <2>1. i <= r
    BY <1>1, <1>2
  <2> QED
    BY <1>2, <1>4, <2>1 DEF WholeBatches
<1> QED
  BY <1>1, <1>3, <1>4

(* Text that is written behind a place that divides no batch does not put  *)
(* a script inside one.                                                    *)
LEMMA BetweenAppend ==
  ASSUME NEW more \in Seq(Items), NEW w \in Nat,
         document \in Documents, output \in Seq(Items),
         FlightBetweenBatches, Written(document, output, w), Apart(document, w),
         output' = output \o more, document' = document,
         \A i \in 1..Len(more) : ~IsScript(more[i]),
         \A i \in 1..Len(more) :
           more[i].byte = "text" =>
             /\ w < more[i].at /\ more[i].at \in 1..Len(document)
             /\ document[more[i].at].byte = "text"
  PROVE  FlightBetweenBatches'
<1>1. Len(output) \in Nat /\ Len(more) \in Nat /\ DOMAIN output = 1..Len(output)
  BY LenProperties
<1>2. /\ DOMAIN output' = 1..(Len(output) + Len(more))
      /\ \A i \in 1..Len(output) : output'[i] = output[i]
      /\ \A i \in 1..Len(more) : output'[Len(output) + i] = more[i]
  BY AppendedItems
<1>3. SUFFICES ASSUME NEW s \in DOMAIN output', IsScript(output'[s]),
                      NEW i \in DOMAIN output', NEW j \in DOMAIN output',
                      i < s, s < j,
                      output'[i].byte = "text", output'[j].byte = "text",
                      document[output'[i].at].batch = document[output'[j].at].batch
               PROVE  FALSE
  BY DEF FlightBetweenBatches, Splits, Batch, IsScript
<1>4. \A p \in DOMAIN output' : ~(p <= Len(output)) =>
        p - Len(output) \in 1..Len(more) /\ output'[p] = more[p - Len(output)]
  <2>1. SUFFICES ASSUME NEW p \in DOMAIN output', ~(p <= Len(output))
                 PROVE  p - Len(output) \in 1..Len(more) /\ output'[p] = more[p - Len(output)]
    OBVIOUS
  <2>2. p - Len(output) \in 1..Len(more) /\ Len(output) + (p - Len(output)) = p
    BY <1>1, <1>2, <2>1
  <2> QED
    BY <1>2, <2>2
<1>5. s <= Len(output)
  BY <1>3, <1>4
<1>6. i \in DOMAIN output /\ s \in DOMAIN output /\ output'[i] = output[i] /\ output'[s] = output[s]
  BY <1>1, <1>2, <1>3, <1>5
<1>7. CASE j <= Len(output)
  <2>1. j \in DOMAIN output /\ output'[j] = output[j]
    BY <1>1, <1>2, <1>7
  <2> QED
    BY <1>3, <1>6, <2>1 DEF FlightBetweenBatches, Splits, Batch
<1>8. CASE ~(j <= Len(output))
  <2>1. /\ w < output'[j].at /\ output'[j].at \in 1..Len(document)
        /\ document[output'[j].at].byte = "text"
    BY <1>3, <1>4, <1>8
  <2>2. i \in HtmlOf(output)
    BY <1>3, <1>6 DEF HtmlOf, IsScript
  <2>3. output[i].at \in 1..w /\ document[output[i].at].byte = "text"
    BY <1>3, <1>6, <2>2 DEF Written, Ordered
  <2>4. output[i].at \in 1..Len(document) /\ output[i].at <= w
    <3>1. Len(document) \in Nat
      BY DocumentFacts
    <3> QED
      BY <2>1, <2>3, <3>1
  <2> QED
    BY <1>3, <1>6, <2>1, <2>3, <2>4 DEF Apart
<1> QED
  BY <1>7, <1>8

-----------------------------------------------------------------------------
(* The steps.                                                              *)

(* The output grows at its end, or stays.                                  *)
Longer ==
  /\ output' \in Seq(Items)
  /\ Len(output) <= Len(output')
  /\ \A i \in 1..Len(output) : output'[i] = output[i]

SameScripts == Longer /\ ScriptsOf(output') = ScriptsOf(output)

(* What the parts of the invariant about HTML need of a step.              *)
KeepsHtml ==
  /\ UNCHANGED <<document, lagging>>
  /\ HtmlInv'
  /\ EagerFlightBetweenBatches'

LEMMA LongerByAppending ==
  ASSUME NEW more \in Seq(Items), output \in Seq(Items), output' = output \o more
  PROVE  Longer
<1>1. Len(output) \in Nat /\ Len(more) \in Nat
  BY LenProperties
<1>2. /\ output' \in Seq(Items) /\ Len(output') = Len(output) + Len(more)
      /\ \A i \in 1..Len(output) : output'[i] = output[i]
  BY AppendedItems
<1> QED
  BY <1>1, <1>2 DEF Longer

(* The timer and the end of the HTML: the body goes out, the rest is held. *)
LEMMA FlushHtmlStep ==
  ASSUME StateTypes, HtmlInv, EagerFlightBetweenBatches, stream # "closed",
         WholeBatches(document, rendered),
         FlushHtml, UNCHANGED sourceVars, UNCHANGED lagging,
         ~lagging /\ BodyLength # 0 => arriving = <<>>
  PROVE  /\ tail' \in Seq(Items) /\ buffered' \in Seq(Items) /\ wanted' \in BOOLEAN
         /\ KeepsHtml /\ SameScripts
<1>1. PICK w \in Nat : HtmlAt(w)
  BY DEF HtmlInv
<1> DEFINE body == FirstOf(Combined, BodyLength)
           rest == RestOf(Combined, BodyLength)
<1>16. PICK v \in Nat : v = w + BodyLength
  BY <1>1, CombinedFlushed
<1>2. /\ BodyLength \in Nat
      /\ body \in Seq(Items) /\ Len(body) = BodyLength /\ rest \in Seq(Items)
      /\ Placed(document, body, w) /\ Placed(document, rest, v)
      /\ v + Len(rest) = w + Len(tail) + Len(buffered)
      /\ Held(document, v + Len(rest), Len(rest))
  BY <1>1, <1>16, CombinedFlushed
<1>3. /\ output' = output \o body /\ tail' = rest /\ buffered' = <<>>
      /\ document' = document /\ rendered' = rendered /\ arriving' = arriving
      /\ lagging' = lagging
  BY DEF FlushHtml, FirstOf, RestOf, sourceVars
<1>4. wanted' \in BOOLEAN
  <2>1. wanted' = (wanted /\ BodyLength = 0)
    BY DEF FlushHtml
  <2> QED
    BY <2>1
<1> HIDE DEF body, rest
<1>5. /\ document \in Documents /\ output \in Seq(Items) /\ arriving \in Seq(Items)
      /\ rendered \in 0..Len(document) /\ lagging \in BOOLEAN
      /\ Len(tail) \in Nat /\ Len(buffered) \in Nat /\ Len(arriving) \in Nat
      /\ Len(rest) \in Nat
  BY <1>2, LenProperties DEF StateTypes
<1>7. /\ Written(document, output, w)
      /\ Placed(document, arriving, w + Len(tail) + Len(buffered))
      /\ w + Len(tail) + Len(buffered) + Len(arriving) = rendered
      /\ ~lagging => Apart(document, w)
  BY <1>1 DEF HtmlAt
<1>8. Written(document, output \o body, v) /\ ScriptsOf(output \o body) = ScriptsOf(output)
  BY <1>2, <1>5, <1>7, <1>16, WrittenAppend
<1>9. Placed(document, <<>>, v + Len(rest))
  BY DEF Placed
<1>10. Placed(document, arriving, v + Len(rest) + 0) /\ v + Len(rest) + 0 + Len(arriving) = rendered
  <2>1. v + Len(rest) + 0 = w + Len(tail) + Len(buffered)
    BY <1>2, <1>5
  <2> QED
    BY <1>7, <2>1
<1>11. ~lagging => Apart(document, v)
  <2>1. CASE BodyLength = 0
    <3>1. v = w
      BY <1>16, <2>1
    <3> QED
      BY <1>7, <3>1
  <2>2. CASE arriving = <<>>
    <3>1. v + Len(rest) = rendered
      BY <1>2, <1>5, <1>7, <2>2
    <3>2. Held(document, rendered, Len(rest))
      BY <1>2, <3>1
    <3> QED
      BY <1>5, <3>1, <3>2, WrittenApart
  <2> QED
    BY <2>1, <2>2
<1>12. HtmlAt(v)'
  <2>1. Len(buffered') = 0
    BY <1>3
  <2> QED
    BY <1>2, <1>3, <1>8, <1>9, <1>10, <1>11, <2>1 DEF HtmlAt
<1>13. HtmlInv'
  BY <1>12 DEF HtmlInv
<1>14. EagerFlightBetweenBatches'
  <2>1. CASE lagging
    BY <1>3, <2>1 DEF EagerFlightBetweenBatches
  <2>2. CASE ~lagging
    <3>1. ASSUME NEW i \in 1..Len(body)
          PROVE  /\ ~IsScript(body[i])
                 /\ w < body[i].at /\ body[i].at \in 1..Len(document)
                 /\ body[i].byte = document[body[i].at].byte
      <4>1. w + i \in 1..Len(document) /\ body[i] = Item(document[w + i].byte, w + i)
        BY <1>2 DEF Placed
      <4>2. document[w + i].byte # "script"
        BY <1>5, <4>1, DocumentFacts DEF Bytes
      <4>3. w < w + i
        BY <1>2
      <4> QED
        BY <4>1, <4>2, <4>3 DEF Item, IsScript
    <3>2. FlightBetweenBatches
      BY <2>2 DEF EagerFlightBetweenBatches
    <3>3. FlightBetweenBatches'
      BY <1>2, <1>3, <1>5, <1>7, <2>2, <3>1, <3>2, BetweenAppend
    <3> QED
      BY <3>3 DEF EagerFlightBetweenBatches
  <2> QED
    BY <1>5, <2>1, <2>2
<1>15. Longer
  BY <1>2, <1>3, <1>5, LongerByAppending
<1> QED
  BY <1>2, <1>3, <1>4, <1>8, <1>13, <1>14, <1>15, EmptySeq DEF KeepsHtml, SameScripts

(* Steps that write nothing and move no HTML.                              *)
LEMMA QuietStep ==
  ASSUME StateTypes, HtmlInv, EagerFlightBetweenBatches, stream' # "closed" => stream # "closed",
         UNCHANGED <<sourceVars, buffered, tail, output, lagging>>
  PROVE  KeepsHtml /\ SameScripts
<1>1. /\ document' = document /\ rendered' = rendered /\ arriving' = arriving
      /\ buffered' = buffered /\ tail' = tail /\ output' = output /\ lagging' = lagging
  BY DEF sourceVars
<1>2. \A w \in Nat : HtmlAt(w) => HtmlAt(w)'
  BY <1>1 DEF HtmlAt
<1>3. HtmlInv'
  BY <1>2 DEF HtmlInv
<1>4. EagerFlightBetweenBatches'
  BY <1>1 DEF EagerFlightBetweenBatches, FlightBetweenBatches, Splits, Batch
<1>5. output \in Seq(Items) /\ Len(output) \in Nat
  BY LenProperties DEF StateTypes
<1> QED
  BY <1>1, <1>3, <1>4, <1>5 DEF KeepsHtml, SameScripts, Longer

LEMMA RenderHtmlStep ==
  ASSUME StreamInv, RenderHtml
  PROVE  KeepsHtml /\ SameScripts /\ StateTypes' /\ BufferInv'
<1>1. StateTypes /\ BufferInv /\ HtmlInv /\ EagerFlightBetweenBatches
  BY DEF StreamInv
<1>2. PICK n \in (rendered + 1)..Len(document) :
        /\ document[n].batch = document[rendered + 1].batch
        /\ n < Len(document) => document[n + 1].batch # document[n].batch
        /\ arriving' = arriving \o Html(rendered, n)
        /\ rendered' = n
  BY DEF RenderHtml
<1>3. /\ stream = "open"
      /\ UNCHANGED <<document, htmlVars, flightVars, stream, output, wanted, lagging, browserVars>>
  BY DEF RenderHtml
<1>4. PICK w \in Nat : HtmlAt(w)
  BY <1>1, <1>3 DEF HtmlInv
<1>5. /\ document \in Documents /\ rendered \in 0..Len(document) /\ Len(document) \in Nat
      /\ n \in 0..Len(document) /\ n \in rendered..Len(document)
      /\ arriving \in Seq(Items) /\ tail \in Seq(Items) /\ buffered \in Seq(Items)
      /\ Len(arriving) \in Nat /\ Len(tail) \in Nat /\ Len(buffered) \in Nat
  <2>1. document \in Documents /\ rendered \in 0..Len(document)
        /\ arriving \in Seq(Items) /\ tail \in Seq(Items) /\ buffered \in Seq(Items)
    BY <1>1 DEF StateTypes
  <2>2. Len(document) \in Nat /\ Len(arriving) \in Nat /\ Len(tail) \in Nat /\ Len(buffered) \in Nat
    BY <2>1, DocumentFacts, LenProperties
  <2> QED
    BY <1>2, <2>1, <2>2
<1>6. /\ Html(rendered, n) \in Seq(Items) /\ Len(Html(rendered, n)) = n - rendered
      /\ Placed(document, Html(rendered, n), rendered)
  BY <1>5, HtmlIsPlaced
<1> DEFINE from == w + Len(tail) + Len(buffered)
<1>7. from \in Nat /\ from + Len(arriving) = rendered /\ Placed(document, arriving, from)
  BY <1>4, <1>5 DEF HtmlAt
<1>8. /\ arriving' \in Seq(Items) /\ Len(arriving') = Len(arriving) + (n - rendered)
      /\ Placed(document, arriving', from)
  <2> HIDE DEF from
  <2>1. Placed(document, Html(rendered, n), from + Len(arriving))
    BY <1>6, <1>7
  <2>2. /\ arriving \o Html(rendered, n) \in Seq(Items)
        /\ Len(arriving \o Html(rendered, n)) = Len(arriving) + Len(Html(rendered, n))
        /\ Placed(document, arriving \o Html(rendered, n), from)
    BY <1>5, <1>6, <1>7, <2>1, PlacedJoin
  <2> QED
    BY <1>2, <1>6, <2>2
<1>9. from + Len(arriving') = n
  <2> HIDE DEF from
  <2>1. n \in Nat /\ rendered \in Nat /\ Len(arriving) \in Nat /\ from \in Nat
    BY <1>5, <1>7
  <2>2. Len(arriving') = Len(arriving) + (n - rendered)
    BY <1>8
  <2>3. from + Len(arriving) = rendered
    BY <1>7
  <2> QED
    BY <2>1, <2>2, <2>3
<1>10. HtmlAt(w)'
  BY <1>2, <1>3, <1>4, <1>8, <1>9 DEF HtmlAt, htmlVars
<1>11. HtmlInv'
  BY <1>10 DEF HtmlInv
<1>12. EagerFlightBetweenBatches'
  BY <1>1, <1>3 DEF EagerFlightBetweenBatches, FlightBetweenBatches, Splits, Batch
<1>13. StateTypes'
  BY <1>1, <1>2, <1>3, <1>5, <1>8 DEF StateTypes, htmlVars, flightVars, browserVars
<1>14. WholeBatches(document, n)
  <2>1. SUFFICES ASSUME NEW i \in 1..Len(document), NEW j \in 1..Len(document),
                        i <= n, n < j, document[i].batch = document[j].batch
                 PROVE  FALSE
    BY DEF WholeBatches
  <2>2. n \in 1..Len(document) /\ n + 1 \in 1..Len(document) /\ n < Len(document) /\ n + 1 <= j
    BY <1>5, <1>2, <2>1
  <2>3. /\ document[i].batch <= document[n].batch
        /\ document[n].batch <= document[n + 1].batch
        /\ document[n + 1].batch <= document[j].batch
    BY <1>5, <2>1, <2>2, DocumentFacts
  <2>4. document[i].batch \in Nat /\ document[n].batch \in Nat /\ document[n + 1].batch \in Nat
    BY <1>5, <2>1, <2>2, DocumentFacts
  <2> QED
    BY <1>2, <2>1, <2>2, <2>3, <2>4
<1>15. BufferInv'
  BY <1>1, <1>2, <1>3, <1>14 DEF BufferInv, htmlVars
<1>16. Longer /\ ScriptsOf(output') = ScriptsOf(output)
  <2>1. output \in Seq(Items) /\ Len(output) \in Nat
    BY <1>1, LenProperties DEF StateTypes
  <2> QED
    BY <1>3, <2>1 DEF Longer
<1> QED
  BY <1>3, <1>11, <1>12, <1>13, <1>15, <1>16 DEF KeepsHtml, SameScripts

(* The browser's part holds while the browser does nothing.                *)
LEMMA BrowserKept ==
  ASSUME StateTypes, BrowserInv, Longer, UNCHANGED browserVars,
         stream' # "errored" => stream # "errored",
         stream = "closed" /\ stream' # "errored" => stream' = "closed" /\ output' = output
  PROVE  BrowserInv' /\ parsed' \in 0..Len(output')
<1>1. /\ parsed' = parsed /\ loaded' = loaded /\ attached' = attached /\ queue' = queue
      /\ received' = received /\ ended' = ended
  BY DEF browserVars
<1>2. /\ parsed \in 0..Len(output) /\ Len(output) \in Nat /\ Len(output') \in Nat
      /\ DOMAIN output = 1..Len(output) /\ DOMAIN output' = 1..Len(output')
      /\ Len(output) <= Len(output') /\ \A i \in 1..Len(output) : output'[i] = output[i]
  BY LenProperties DEF StateTypes, Longer
<1>3. parsed \in Nat /\ parsed <= Len(output)
  BY <1>2
<1>4. Ran(output', parsed) = Ran(output, parsed)
  BY <1>2, <1>3 DEF Ran, ScriptsOf
<1>5. \A i \in Ran(output, parsed) : output'[i] = output[i]
  BY <1>2 DEF Ran, ScriptsOf
<1>6. {output'[i].at : i \in Ran(output', parsed)} = {output[i].at : i \in Ran(output, parsed)}
  BY <1>4, <1>5
<1>7. Seen' = Seen
  BY <1>1 DEF Seen
<1>8. PICK n \in Nat :
        Seen = [i \in 1..n |-> i] /\ {output[i].at : i \in Ran(output, parsed)} = 1..n
  BY DEF BrowserInv
<1>9. Seen' = [i \in 1..n |-> i] /\ {output'[i].at : i \in Ran(output', parsed')} = 1..n
  BY <1>1, <1>6, <1>7, <1>8
<1>10. /\ attached => queue = <<>>
       /\ ~attached => received = <<>>
       /\ ended => loaded /\ attached
       /\ loaded /\ stream # "errored" => stream = "closed" /\ parsed = Len(output)
  BY DEF BrowserInv
<1>11. loaded' /\ stream' # "errored" => stream' = "closed" /\ parsed' = Len(output')
  BY <1>1, <1>10
<1>12. /\ attached' => queue' = <<>>
       /\ ~attached' => received' = <<>>
       /\ ended' => loaded' /\ attached'
  BY <1>1, <1>10
<1>13. BrowserInv'
  BY <1>9, <1>11, <1>12 DEF BrowserInv
<1> QED
  BY <1>1, <1>2, <1>3, <1>13

(* The chunks in the output.                                               *)
Embedded ==
  \E c \in 0..embedded :
    Ordered(output, ScriptsOf(output), c) /\ (stream # "errored" => c = embedded)

LEMMA ChunksKept ==
  ASSUME StateTypes, Embedded, SameScripts, embedded' = embedded,
         stream' # "errored" => stream # "errored"
  PROVE  Embedded'
<1>1. PICK c \in 0..embedded :
        Ordered(output, ScriptsOf(output), c) /\ (stream # "errored" => c = embedded)
  BY DEF Embedded
<1>2. /\ Len(output) \in Nat /\ DOMAIN output = 1..Len(output)
      /\ \A i \in 1..Len(output) : output'[i] = output[i]
      /\ ScriptsOf(output') = ScriptsOf(output)
  BY LenProperties DEF StateTypes, SameScripts, Longer
<1>3. \A i \in ScriptsOf(output) : output'[i] = output[i]
  BY <1>2 DEF ScriptsOf
<1>4. {output'[i].at : i \in ScriptsOf(output)} = {output[i].at : i \in ScriptsOf(output)}
  BY <1>3
<1>5. \A i, j \in ScriptsOf(output) : i < j => output'[i].at < output'[j].at
  BY <1>1, <1>3 DEF Ordered
<1>6. Ordered(output', ScriptsOf(output'), c)
  BY <1>1, <1>2, <1>4, <1>5 DEF Ordered
<1> QED
  BY <1>1, <1>6 DEF Embedded

(* A closed document stays as it is.                                       *)
LEMMA ClosedKept ==
  ASSUME ClosedInv, document' = document,
         stream' = "closed" => stream = "closed" /\ output' = output
  PROVE  ClosedInv'
<1>1. SUFFICES ASSUME stream' = "closed"
               PROVE  HtmlIntact' /\ Ends(output', Len(Trailer))
  BY DEF ClosedInv
<1>2. HtmlIntact /\ Ends(output, Len(Trailer)) /\ output' = output /\ stream = "closed"
  BY <1>1 DEF ClosedInv
<1>3. /\ InOrder(HtmlItems, CompletedLength) /\ CompletedLength \in 0..CompletedLength
      /\ \A i \in HtmlItems : output[i].byte = CompletedByte(output[i].at)
  BY <1>2 DEF HtmlIntact
<1>4. CompletedLength' = CompletedLength /\ HtmlItems' = HtmlItems
  BY <1>2 DEF CompletedLength, HtmlItems, Scripts
<1>5. InOrder(HtmlItems, CompletedLength)'
  BY <1>2, <1>3, <1>4 DEF InOrder
<1>6. (\A i \in HtmlItems : output[i].byte = CompletedByte(output[i].at))'
  BY <1>2, <1>3, <1>4 DEF CompletedByte
<1> QED
  BY <1>2, <1>3, <1>4, <1>5, <1>6 DEF HtmlIntact

LEMMA TransformStep ==
  ASSUME StreamInv, Transform
  PROVE  KeepsHtml /\ SameScripts /\ StateTypes' /\ BufferInv'
<1>1. StateTypes /\ BufferInv /\ HtmlInv /\ EagerFlightBetweenBatches
  BY DEF StreamInv
<1>2. PICK n \in 1..Len(arriving) :
        TakeChunk(n) /\ buffered' = buffered \o SubSeq(arriving, 1, n)
  BY DEF Transform
<1>3. /\ stream = "open" /\ flushScheduled' = TRUE
      /\ sleeping' = (sleeping \/ ~flushScheduled)
      /\ UNCHANGED <<document, rendered, tail, flightVars, stream, output, wanted, lagging, browserVars>>
  BY DEF Transform, Transformable
<1>4. PICK w \in Nat : HtmlAt(w)
  BY <1>1, <1>3 DEF HtmlInv
<1>5. /\ document \in Documents
      /\ arriving \in Seq(Items) /\ tail \in Seq(Items) /\ buffered \in Seq(Items)
      /\ Len(arriving) \in Nat /\ Len(tail) \in Nat /\ Len(buffered) \in Nat
      /\ n \in 0..Len(arriving) /\ n \in Nat
  <2>1. /\ document \in Documents
        /\ arriving \in Seq(Items) /\ tail \in Seq(Items) /\ buffered \in Seq(Items)
    BY <1>1 DEF StateTypes
  <2>2. Len(arriving) \in Nat /\ Len(tail) \in Nat /\ Len(buffered) \in Nat
    BY <2>1, LenProperties
  <2> QED
    BY <1>2, <2>1, <2>2
<1>6. buffered' = buffered \o FirstOf(arriving, n) /\ arriving' = RestOf(arriving, n)
  BY <1>2 DEF TakeChunk, FirstOf, RestOf
<1>7. PICK at \in Nat : at = w + Len(tail)
  BY <1>5
<1>8. PICK from \in Nat : from = at + Len(buffered)
  BY <1>5
<1>9. /\ Placed(document, buffered, at) /\ Placed(document, arriving, from)
      /\ from + Len(arriving) = rendered
  BY <1>4, <1>7, <1>8 DEF HtmlAt
<1>10. /\ FirstOf(arriving, n) \in Seq(Items) /\ Len(FirstOf(arriving, n)) = n
       /\ Placed(document, FirstOf(arriving, n), from)
  BY <1>5, <1>9, PlacedParts
<1>11. /\ RestOf(arriving, n) \in Seq(Items) /\ Len(RestOf(arriving, n)) = Len(arriving) - n
       /\ Placed(document, RestOf(arriving, n), from + n)
  <2>1. RestOf(arriving, n) \in Seq(Items) /\ Len(RestOf(arriving, n)) = Len(arriving) - n
    BY <1>5, <1>9, PlacedParts
  <2>2. Placed(document, RestOf(arriving, n), from + n)
    BY <1>5, <1>9, PlacedParts
  <2> QED
    BY <2>1, <2>2
<1>12. /\ buffered' \in Seq(Items) /\ Len(buffered') = Len(buffered) + n
       /\ Placed(document, buffered', at)
  <2>1. Placed(document, FirstOf(arriving, n), at + Len(buffered))
    BY <1>8, <1>10
  <2>2. /\ buffered \o FirstOf(arriving, n) \in Seq(Items)
        /\ Len(buffered \o FirstOf(arriving, n)) = Len(buffered) + Len(FirstOf(arriving, n))
        /\ Placed(document, buffered \o FirstOf(arriving, n), at)
    BY <1>5, <1>9, <1>10, <2>1, PlacedJoin
  <2> QED
    BY <1>6, <1>10, <2>2
<1>13. at + Len(buffered') = from + n /\ from + n + Len(arriving') = rendered
  <2>1. Len(arriving') = Len(arriving) - n
    BY <1>6, <1>11
  <2> QED
    BY <1>5, <1>8, <1>9, <1>12, <2>1
<1>14. HtmlAt(w)'
  <2>1. w + Len(tail') = at /\ tail' = tail /\ document' = document /\ output' = output
        /\ rendered' = rendered /\ lagging' = lagging
    BY <1>3, <1>7
  <2>2. Placed(document, arriving', at + Len(buffered')) /\ at + Len(buffered') + Len(arriving') = rendered
    BY <1>6, <1>11, <1>13
  <2>3. Placed(document, buffered', at)
    BY <1>12
  <2> QED
    BY <1>4, <2>1, <2>2, <2>3 DEF HtmlAt
<1>15. HtmlInv'
  BY <1>14 DEF HtmlInv
<1>16. EagerFlightBetweenBatches'
  BY <1>1, <1>3 DEF EagerFlightBetweenBatches, FlightBetweenBatches, Splits, Batch
<1>17. sleeping' \in BOOLEAN
  <2>1. sleeping' = (sleeping \/ ~flushScheduled)
    BY <1>3
  <2> QED
    BY <2>1
<1>18. StateTypes'
  BY <1>1, <1>3, <1>6, <1>11, <1>12, <1>17 DEF StateTypes, flightVars, browserVars
<1>19. BufferInv'
  BY <1>1, <1>3 DEF BufferInv
<1>20. Longer /\ ScriptsOf(output') = ScriptsOf(output)
  <2>1. output \in Seq(Items) /\ Len(output) \in Nat
    BY <1>1, LenProperties DEF StateTypes
  <2> QED
    BY <1>3, <2>1 DEF Longer
<1> QED
  BY <1>3, <1>15, <1>16, <1>18, <1>19, <1>20 DEF KeepsHtml, SameScripts

LEMMA TimerFiresStep ==
  ASSUME StreamInv, TimerFires
  PROVE  /\ KeepsHtml /\ SameScripts /\ StateTypes' /\ BufferInv'
         /\ stream = "closed" => output' = output
<1>1. StateTypes /\ BufferInv /\ HtmlInv /\ EagerFlightBetweenBatches
  BY DEF StreamInv
<1>2. /\ ~Transformable /\ (lagging \/ wanted \/ stream = "errored")
      /\ sleeping' = FALSE /\ flushScheduled' = FALSE
      /\ UNCHANGED <<sourceVars, embedded, stream, lagging, browserVars>>
  BY DEF TimerFires
<1>3. CASE /\ flushScheduled
           /\ stream # "errored" \/ BodyLength = 0
           /\ FlushHtml /\ StartFlight /\ UNCHANGED completion
  <2>1. stream \in {"open", "errored"}
    BY <1>1, <1>3 DEF BufferInv, StateTypes
  <2>2. ~lagging /\ BodyLength # 0 => arriving = <<>>
    BY <1>2, <1>3, <2>1 DEF Transformable
  <2>3. UNCHANGED sourceVars /\ UNCHANGED lagging /\ stream # "closed"
        /\ WholeBatches(document, rendered)
    BY <1>1, <1>2, <2>1 DEF BufferInv
  <2>4. /\ tail' \in Seq(Items) /\ buffered' \in Seq(Items) /\ wanted' \in BOOLEAN
        /\ KeepsHtml /\ SameScripts
    BY <1>1, <1>3, <2>2, <2>3, FlushHtmlStep
  <2>5. output' \in Seq(Items) /\ Len(output) \in Nat /\ Len(output') \in Nat
        /\ Len(output) <= Len(output')
    BY <1>1, <2>4, LenProperties DEF SameScripts, Longer, StateTypes
  <2>6. parsed' \in 0..Len(output')
    BY <1>1, <1>2, <2>5 DEF StateTypes, browserVars
  <2>7. reader' \in {"idle", "reading", "released"}
    BY <1>1, <1>3 DEF StateTypes, StartFlight
  <2>8. StateTypes'
    BY <1>1, <1>2, <1>3, <2>4, <2>5, <2>6, <2>7 DEF StateTypes, sourceVars, browserVars
  <2>9. BufferInv'
    BY <1>1, <1>2, <1>3, <2>1 DEF BufferInv, FlushHtml, sourceVars
  <2> QED
    BY <2>1, <2>4, <2>8, <2>9
<1>4. CASE /\ UNCHANGED <<buffered, tail, output, wanted, reader>>
           /\ ~flushScheduled \/ stream = "errored"
           /\ completion' \in BOOLEAN
  <2>1. KeepsHtml /\ SameScripts
    BY <1>1, <1>2, <1>4, QuietStep
  <2>2. StateTypes'
    BY <1>1, <1>2, <1>4 DEF StateTypes, sourceVars, browserVars
  <2>3. BufferInv'
    BY <1>1, <1>2, <1>4 DEF BufferInv, sourceVars
  <2> QED
    BY <1>4, <2>1, <2>2, <2>3
<1>5. completion \in BOOLEAN
  BY <1>1 DEF StateTypes
<1> QED
  BY <1>3, <1>4, <1>5 DEF TimerFires

LEMMA FlushStep ==
  ASSUME StreamInv, Flush
  PROVE  KeepsHtml /\ SameScripts /\ StateTypes' /\ BufferInv'
<1>1. StateTypes /\ BufferInv /\ HtmlInv /\ EagerFlightBetweenBatches
  BY DEF StreamInv
<1>2. /\ stream = "open" /\ rendered = Len(document) /\ arriving = <<>>
      /\ stream' = "flushing" /\ flushScheduled' = FALSE
      /\ UNCHANGED <<sourceVars, sleeping, embedded, completion, lagging, browserVars>>
      /\ StartFlight
  BY DEF Flush
<1>3. reader' \in {"idle", "reading", "released"}
  BY <1>1, <1>2 DEF StateTypes, StartFlight
<1>4. /\ tail' \in Seq(Items) /\ buffered' \in Seq(Items) /\ wanted' \in BOOLEAN
      /\ KeepsHtml /\ SameScripts /\ buffered' = <<>>
  <2>1. CASE flushScheduled /\ FlushHtml
    <3>1. UNCHANGED sourceVars /\ UNCHANGED lagging /\ stream # "closed"
          /\ WholeBatches(document, rendered)
      BY <1>1, <1>2 DEF BufferInv
    <3>2. /\ tail' \in Seq(Items) /\ buffered' \in Seq(Items) /\ wanted' \in BOOLEAN
          /\ KeepsHtml /\ SameScripts
      BY <1>1, <1>2, <2>1, <3>1, FlushHtmlStep
    <3> QED
      BY <2>1, <3>2 DEF FlushHtml
  <2>2. CASE ~flushScheduled /\ UNCHANGED <<buffered, tail, output, wanted>>
    <3>1. KeepsHtml /\ SameScripts
      BY <1>1, <1>2, <2>2, QuietStep
    <3>2. buffered = <<>>
      BY <1>1, <1>2, <2>2 DEF BufferInv
    <3> QED
      BY <1>1, <2>2, <3>1, <3>2 DEF StateTypes
  <2>3. IF flushScheduled THEN FlushHtml ELSE UNCHANGED <<buffered, tail, output, wanted>>
    BY DEF Flush
  <2> QED
    BY <2>1, <2>2, <2>3
<1>5. output' \in Seq(Items) /\ Len(output) \in Nat /\ Len(output') \in Nat
      /\ Len(output) <= Len(output')
  BY <1>1, <1>4, LenProperties DEF SameScripts, Longer, StateTypes
<1>6. parsed' \in 0..Len(output')
  BY <1>1, <1>2, <1>5 DEF StateTypes, browserVars
<1>7. StateTypes'
  BY <1>1, <1>2, <1>3, <1>4, <1>5, <1>6 DEF StateTypes, sourceVars, browserVars
<1>8. BufferInv'
  BY <1>1, <1>2, <1>4 DEF BufferInv, sourceVars
<1> QED
  BY <1>4, <1>7, <1>8

(* The closing tags complete the document: the tail is the whole trailer   *)
(* exactly if the document ends with one.                                  *)
LEMMA FinishCompletes ==
  ASSUME StreamInv, Finish
  PROVE  /\ HtmlIntact' /\ Ends(output', Len(Trailer))
         /\ SameScripts /\ EagerFlightBetweenBatches'
<1>1. StateTypes /\ BufferInv /\ HtmlInv /\ EagerFlightBetweenBatches
  BY DEF StreamInv
<1>2. /\ stream = "flushing" /\ stream' = "closed"
      /\ document' = document /\ lagging' = lagging
  BY DEF Finish, sourceVars
<1>3. /\ buffered = <<>> /\ arriving = <<>> /\ rendered = Len(document)
  BY <1>1, <1>2 DEF BufferInv
<1>4. PICK w \in Nat : HtmlAt(w)
  BY <1>1, <1>2 DEF HtmlInv
<1>5. /\ document \in Documents /\ tail \in Seq(Items) /\ output \in Seq(Items)
      /\ Len(tail) \in Nat /\ Len(document) \in Nat
  <2>1. document \in Documents /\ tail \in Seq(Items) /\ output \in Seq(Items)
    BY <1>1 DEF StateTypes
  <2> QED
    BY <2>1, DocumentFacts, LenProperties
<1>6. /\ Written(document, output, w) /\ Placed(document, tail, w)
      /\ w + Len(tail) = Len(document) /\ Held(document, Len(document), Len(tail))
      /\ ~lagging => Apart(document, w)
  BY <1>3, <1>4, <1>5 DEF HtmlAt
<1> DEFINE whole == Len(tail) = Len(Trailer)
           place == IF whole THEN Len(document) - Len(Trailer) ELSE Len(document)
           piece == IF whole THEN <<>> ELSE tail
           closing == [i \in DOMAIN Trailer |-> Item(Trailer[i], place + i)]
           length == place + Len(Trailer)
<1>7. DOMAIN Trailer = 1..4 /\ Len(Trailer) = 4
      /\ \A i \in 1..4 : Trailer[i] \in Bytes /\ Trailer[i] # "text" /\ Trailer[i] # "script"
  BY TrailerFacts DEF Bytes, Trailer
<1>8. output' = output \o piece \o closing
  BY DEF Finish
<1>9. Ends(document, Len(Trailer)) <=> whole
  <2>1. Ends(document, Len(Trailer)) <=> EndsAt(document, Len(document), Len(Trailer))
    BY DEF Ends, EndsAt
  <2>2. CASE whole
    BY <1>6, <2>1, <2>2 DEF Held
  <2>3. ASSUME EndsAt(document, Len(document), Len(Trailer))
        PROVE  whole
    <3>1. Len(Trailer) \in 0..Len(Trailer)
      BY <1>7
    <3>2. Len(Trailer) <= Len(tail) /\ Len(tail) <= Len(Trailer)
      BY <1>6, <2>3, <3>1 DEF Held
    <3>3. Len(tail) \in Nat /\ Len(Trailer) \in Nat
      BY <1>5, <1>7
    <3>4. \A p, q \in Nat : p <= q /\ q <= p => p = q
      OBVIOUS
    <3>5. Len(tail) = Len(Trailer)
      BY <3>2, <3>3, <3>4, Zenon
    <3> QED
      BY <3>5
  <2> QED
    BY <2>1, <2>2, <2>3
<1>10. place \in Nat /\ length \in Nat /\ CompletedLength = length
       /\ (whole => place = w /\ length = Len(document))
       /\ (~whole => place = Len(document) /\ length = Len(document) + Len(Trailer))
  <2>1. CASE whole
    <3>1. place = w
      BY <1>5, <1>6, <2>1
    <3> QED
      BY <1>5, <1>6, <1>7, <1>9, <2>1, <3>1 DEF CompletedLength
  <2>2. CASE ~whole
    BY <1>5, <1>7, <1>9, <2>2 DEF CompletedLength
  <2> QED
    BY <2>1, <2>2
<1>11. /\ closing \in Seq(Items) /\ Len(closing) = 4
       /\ \A i \in 1..4 : closing[i] = Item(Trailer[i], place + i)
  <2> HIDE DEF place
  <2>1. closing \in [1..4 -> Items]
    BY <1>7, <1>10 DEF Item, Items
  <2>2. \A i \in 1..4 : closing[i] = Item(Trailer[i], place + i)
    BY <1>7
  <2> QED
    BY <2>1, <2>2, FunctionIsSequence
<1>12. /\ piece \in Seq(Items) /\ Len(piece) \in Nat
       /\ Placed(document, piece, w) /\ w + Len(piece) = place
  <2>1. CASE whole
    <3>1. piece = <<>> /\ place = w
      BY <1>10, <2>1
    <3> HIDE DEF place, piece
    <3>2. Len(piece) = 0 /\ piece \in Seq(Items) /\ Placed(document, piece, w)
      BY <3>1, EmptySeq DEF Placed
    <3> QED
      BY <3>1, <3>2
  <2>2. CASE ~whole
    BY <1>5, <1>6, <1>10, <2>2
  <2> QED
    BY <2>1, <2>2
<1> HIDE DEF place, piece, closing, whole
<1>13. Written(document, output \o piece, place) /\ ScriptsOf(output \o piece) = ScriptsOf(output)
  BY <1>5, <1>6, <1>12, WrittenAppend
<1>14. PICK before : before = output \o piece
  OBVIOUS
<1>15. before \in Seq(Items) /\ output' = before \o closing /\ Written(document, before, place)
       /\ ScriptsOf(before) = ScriptsOf(output)
  BY <1>5, <1>8, <1>12, <1>13, <1>14, ConcatProperties
<1>16. \A i \in 1..Len(closing) : closing[i].at = place + i /\ ~IsScript(closing[i])
  BY <1>7, <1>11 DEF Item, IsScript
<1>17. /\ Ordered(output', HtmlOf(output'), length)
       /\ ScriptsOf(output') = ScriptsOf(output)
       /\ HtmlOf(output') = HtmlOf(before) \cup ((Len(before) + 1)..(Len(before) + Len(closing)))
  <2>1. Ordered(before, HtmlOf(before), place)
    BY <1>15 DEF Written
  <2>2. /\ Ordered(before \o closing, HtmlOf(before \o closing), place + Len(closing))
        /\ ScriptsOf(before \o closing) = ScriptsOf(before)
        /\ HtmlOf(before \o closing) = HtmlOf(before) \cup ((Len(before) + 1)..(Len(before) + Len(closing)))
    BY <1>10, <1>11, <1>15, <1>16, <2>1, AppendHtml
  <2> QED
    BY <1>7, <1>11, <1>15, <2>2
<1>18. /\ Len(before) \in Nat /\ DOMAIN before = 1..Len(before)
       /\ Len(output') = Len(before) + 4
       /\ \A i \in 1..Len(before) : output'[i] = before[i]
       /\ \A i \in 1..4 : output'[Len(before) + i] = closing[i]
  <2>1. Len(before) \in Nat /\ DOMAIN before = 1..Len(before)
    BY <1>15, LenProperties
  <2>2. /\ Len(before \o closing) = Len(before) + Len(closing)
        /\ \A i \in 1..Len(before) : (before \o closing)[i] = before[i]
        /\ \A i \in 1..Len(closing) : (before \o closing)[Len(before) + i] = closing[i]
    BY <1>11, <1>15, AppendedItems
  <2> QED
    BY <1>11, <1>15, <2>1, <2>2
<1>19. Ends(output', Len(Trailer))
  <2>1. \A i \in 1..4 : output'[Len(output') - 4 + i].byte = Trailer[i]
    <3>1. SUFFICES ASSUME NEW i \in 1..4
                   PROVE  output'[Len(output') - 4 + i].byte = Trailer[i]
      OBVIOUS
    <3>2. Len(output') - 4 + i = Len(before) + i
      BY <1>18
    <3> QED
      BY <1>11, <1>18, <3>2 DEF Item
  <2> QED
    BY <1>7, <1>18, <2>1 DEF Ends
<1>20. ASSUME NEW i \in HtmlOf(output')
       PROVE  output'[i].byte = CompletedByte(output'[i].at)
  <2>1. CASE i \in HtmlOf(before)
    <3>1. i \in 1..Len(before) /\ output'[i] = before[i]
      BY <1>18, <2>1 DEF HtmlOf
    <3>2. before[i].byte = document[before[i].at].byte /\ before[i].at \in 1..place
      BY <1>15, <2>1 DEF Written, Ordered
    <3>3. before[i].at <= Len(document)
      BY <1>5, <1>6, <1>10, <3>2
    <3> QED
      BY <3>1, <3>2, <3>3 DEF CompletedByte
  <2>2. CASE i \in (Len(before) + 1)..(Len(before) + Len(closing))
    <3>1. PICK k \in 1..4 : i = Len(before) + k
      <4>1. i - Len(before) \in 1..4 /\ i = Len(before) + (i - Len(before))
        BY <1>11, <1>18, <2>2
      <4> QED
        BY <4>1
    <3>2. output'[i].byte = Trailer[k] /\ output'[i].at = place + k
      BY <1>11, <1>18, <3>1 DEF Item
    <3>3. CASE whole
      <4>1. EndsAt(document, Len(document), 4)
        BY <1>6, <1>7, <3>3 DEF Held, whole
      <4>2. document[Len(document) - 4 + k].byte = Trailer[k]
        BY <4>1 DEF EndsAt
      <4>3. Len(document) - 4 + k = place + k /\ place + k <= Len(document)
        BY <1>5, <1>7, <3>3 DEF place
      <4> QED
        BY <3>2, <4>2, <4>3 DEF CompletedByte
    <3>4. CASE ~whole
      <4>1. place = Len(document) /\ ~(place + k <= Len(document)) /\ (place + k) - Len(document) = k
        BY <1>5, <1>10, <3>4
      <4> QED
        BY <3>2, <4>1 DEF CompletedByte
    <3> QED
      BY <3>3, <3>4
  <2> QED
    BY <1>17, <2>1, <2>2
<1>21. HtmlIntact'
  <2>1. HtmlItems' = HtmlOf(output')
    BY DEF HtmlItems, Scripts, HtmlOf
  <2>2. CompletedLength' = CompletedLength
    BY <1>2 DEF CompletedLength
  <2>3. InOrder(HtmlItems, CompletedLength)'
    BY <1>10, <1>17, <2>1, <2>2 DEF InOrder, Ordered
  <2>4. CompletedLength \in 0..CompletedLength
    BY <1>10
  <2>5. (\A i \in HtmlItems : output[i].byte = CompletedByte(output[i].at))'
    BY <1>2, <1>20, <2>1 DEF CompletedByte
  <2> QED
    BY <2>2, <2>3, <2>4, <2>5 DEF HtmlIntact
<1>22. PICK more \in Seq(Items) : more = piece \o closing
  BY <1>11, <1>12, ConcatProperties
<1>23. output' = output \o more
  <2>1. (output \o piece) \o closing = output \o (piece \o closing)
    <3>1. output \in Seq(Items) /\ piece \in Seq(Items) /\ closing \in Seq(Items)
      BY <1>5, <1>11, <1>12
    <3> QED
      BY <3>1, ConcatAssociative
  <2> QED
    BY <1>8, <1>22, <2>1
<1>24. ASSUME NEW i \in 1..Len(more)
       PROVE  more[i].byte # "text" /\ ~IsScript(more[i])
  <2>1. /\ Len(piece) \in Nat /\ Len(more) = Len(piece) + 4
        /\ \A k \in 1..Len(piece) : more[k] = piece[k]
        /\ \A k \in 1..4 : more[Len(piece) + k] = closing[k]
    <3>1. /\ Len(piece \o closing) = Len(piece) + Len(closing)
          /\ \A k \in 1..Len(piece) : (piece \o closing)[k] = piece[k]
          /\ \A k \in 1..Len(closing) : (piece \o closing)[Len(piece) + k] = closing[k]
      BY <1>11, <1>12, AppendedItems
    <3> QED
      BY <1>11, <1>12, <1>22, <3>1
  <2>2. CASE i \in 1..Len(piece)
    <3>1. piece = tail /\ i \in 1..Len(tail)
      <4>1. CASE whole
        BY <2>2, <4>1, EmptySeq DEF piece
      <4>2. CASE ~whole
        BY <2>2, <4>2 DEF piece
      <4> QED
        BY <4>1, <4>2
    <3>2. tail[i].byte = document[w + i].byte
      <4>1. tail[i] = Item(document[w + i].byte, w + i)
        BY <1>6, <3>1 DEF Placed
      <4> QED
        BY <4>1 DEF Item
    <3>3. document[Len(document) - Len(tail) + i].byte = Trailer[i]
      BY <1>6, <3>1 DEF Held, EndsAt
    <3>4. Len(document) - Len(tail) + i = w + i
      <4>1. \A a, b, c \in Nat : a + b = c => c - b = a
        OBVIOUS
      <4>2. w + Len(tail) = Len(document) /\ Len(tail) \in Nat /\ Len(document) \in Nat
        BY <1>5, <1>6
      <4>3. Len(document) - Len(tail) = w
        BY <4>1, <4>2, Zenon
      <4> QED
        BY <4>3, Zenon
    <3>5. i \in 1..4
      <4>1. Len(tail) <= 4
        BY <1>6, <1>7 DEF Held
      <4> QED
        BY <1>5, <3>1, <4>1
    <3>6. more[i] = tail[i]
      BY <2>1, <2>2, <3>1
    <3>7. more[i].byte = Trailer[i]
      BY <3>2, <3>3, <3>4, <3>6
    <3> QED
      BY <1>7, <3>5, <3>7 DEF IsScript
  <2>3. CASE ~(i \in 1..Len(piece))
    <3>1. PICK k \in 1..4 : i = Len(piece) + k
      <4>1. i - Len(piece) \in 1..4 /\ i = Len(piece) + (i - Len(piece))
        BY <2>1, <2>3
      <4> QED
        BY <4>1
    <3>2. more[i] = closing[k]
      <4>1. \A p \in 1..4 : more[Len(piece) + p] = closing[p]
        BY <2>1
      <4> QED
        BY <3>1, <4>1
    <3> QED
      BY <1>7, <1>11, <3>1, <3>2 DEF Item, IsScript
  <2> QED
    BY <2>2, <2>3
<1>25. Longer
  BY <1>5, <1>23, LongerByAppending
<1>26. EagerFlightBetweenBatches'
  <2>1. CASE lagging
    BY <1>2, <2>1 DEF EagerFlightBetweenBatches
  <2>2. CASE ~lagging
    <3>1. FlightBetweenBatches
      BY <1>1, <2>2 DEF EagerFlightBetweenBatches
    <3>2. FlightBetweenBatches'
      BY <1>2, <1>5, <1>6, <1>23, <1>24, <2>2, <3>1, BetweenAppend
    <3> QED
      BY <3>2 DEF EagerFlightBetweenBatches
  <2> QED
    BY <2>1, <2>2
<1> QED
  BY <1>17, <1>19, <1>21, <1>25, <1>26 DEF SameScripts

LEMMA FinishStep ==
  ASSUME StreamInv, Finish
  PROVE  /\ KeepsHtml /\ SameScripts /\ StateTypes' /\ BufferInv' /\ ClosedInv'
         /\ FlightInv' /\ BrowserInv'
<1>1. StateTypes /\ BufferInv /\ FlightInv /\ BrowserInv
  BY DEF StreamInv
<1>2. /\ stream = "flushing" /\ completion /\ stream' = "closed" /\ wanted' = FALSE
      /\ UNCHANGED <<sourceVars, htmlVars, flightVars, lagging, browserVars>>
  BY DEF Finish
<1>3. /\ HtmlIntact' /\ Ends(output', Len(Trailer))
      /\ SameScripts /\ EagerFlightBetweenBatches'
  BY FinishCompletes
<1>4. KeepsHtml
  BY <1>2, <1>3 DEF KeepsHtml, HtmlInv, sourceVars
<1>5. Longer
  BY <1>3 DEF SameScripts
<1>6. BrowserInv' /\ parsed' \in 0..Len(output')
  BY <1>1, <1>2, <1>5, BrowserKept
<1>7. StateTypes'
  BY <1>1, <1>2, <1>5, <1>6 DEF StateTypes, Longer, sourceVars, htmlVars, flightVars, browserVars
<1>8. BufferInv'
  BY <1>1, <1>2 DEF BufferInv, sourceVars, htmlVars
<1>9. Embedded'
  BY <1>1, <1>2, <1>3, ChunksKept DEF FlightInv, Embedded, flightVars
<1>10. FlightInv'
  BY <1>1, <1>2, <1>9 DEF FlightInv, Embedded, flightVars
<1> QED
  BY <1>3, <1>4, <1>6, <1>7, <1>8, <1>10 DEF ClosedInv

LEMMA EmbedChunkStep ==
  ASSUME StreamInv, EmbedChunk
  PROVE  /\ KeepsHtml /\ Longer /\ StateTypes' /\ BufferInv' /\ ClosedInv'
         /\ FlightInv' /\ BrowserInv'
<1>1. /\ StateTypes /\ BufferInv /\ HtmlInv /\ ClosedInv /\ FlightInv
      /\ EagerFlightBetweenBatches /\ BrowserInv
  BY DEF StreamInv
<1>2. /\ reader = "reading" /\ embedded < FlightChunks /\ stream # "errored"
      /\ embedded' = embedded + 1 /\ output' = Append(output, Script(embedded'))
      /\ wanted' = FALSE
      /\ UNCHANGED <<sourceVars, htmlVars, reader, completion, stream, lagging, browserVars>>
  BY DEF EmbedChunk
<1>3. stream # "closed" /\ stream' = stream /\ completion' = completion /\ ~completion
  BY <1>1, <1>2 DEF FlightInv, StateTypes
<1>4. PICK w \in Nat : HtmlAt(w)
  BY <1>1, <1>3 DEF HtmlInv
<1>5. /\ output \in Seq(Items) /\ embedded \in Nat /\ embedded + 1 \in 0..FlightChunks
      /\ Len(output) \in Nat /\ DOMAIN output = 1..Len(output)
  BY <1>1, <1>2, StreamAssumption, LenProperties DEF StateTypes
<1>6. Ordered(output, ScriptsOf(output), embedded)
  BY <1>1, <1>2 DEF FlightInv
<1>7. Written(document, output, w)
  BY <1>4 DEF HtmlAt
<1>8. /\ output' \in Seq(Items) /\ Len(output') = Len(output) + 1
      /\ \A i \in 1..Len(output) : output'[i] = output[i]
      /\ output'[Len(output) + 1] = Script(embedded + 1)
      /\ HtmlOf(output') = HtmlOf(output)
      /\ Ordered(output', HtmlOf(output'), w)
      /\ Ordered(output', ScriptsOf(output'), embedded + 1)
  <2>1. Ordered(output, HtmlOf(output), w)
    BY <1>7 DEF Written
  <2>2. output' = Append(output, Script(embedded + 1))
    BY <1>2
  <2> QED
    BY <1>5, <1>6, <2>1, <2>2, AppendScript
<1>9. Longer
  BY <1>5, <1>8 DEF Longer
<1>10. Written(document, output', w)
  <2>1. \A i \in HtmlOf(output) : output'[i] = output[i]
    BY <1>5, <1>8 DEF HtmlOf
  <2> QED
    BY <1>7, <1>8, <2>1 DEF Written
<1>11. HtmlAt(w)'
  BY <1>2, <1>4, <1>10 DEF HtmlAt, sourceVars, htmlVars
<1>12. HtmlInv'
  BY <1>11 DEF HtmlInv
<1>13. DOMAIN output' = 1..(Len(output) + 1)
  BY <1>8, LenProperties
<1>14. EagerFlightBetweenBatches'
  <2>1. CASE lagging
    BY <1>2, <2>1 DEF EagerFlightBetweenBatches
  <2>2. CASE ~lagging
    <3>1. FlightBetweenBatches
      BY <1>1, <2>2 DEF EagerFlightBetweenBatches
    <3>2. SUFFICES ASSUME NEW s \in DOMAIN output', IsScript(output'[s]),
                          NEW i \in DOMAIN output', NEW j \in DOMAIN output',
                          i < s, s < j,
                          output'[i].byte = "text", output'[j].byte = "text",
                          document[output'[i].at].batch = document[output'[j].at].batch
                   PROVE  FALSE
      BY <1>2 DEF EagerFlightBetweenBatches, FlightBetweenBatches, Splits, Batch, IsScript, sourceVars
    <3>3. output'[j] # Script(embedded + 1)
      BY <3>2 DEF Script, Item
    <3>4. j \in 1..Len(output)
      BY <1>5, <1>8, <1>13, <3>3
    <3>5. i \in 1..Len(output) /\ s \in 1..Len(output)
      BY <1>5, <1>13, <3>2, <3>4
    <3> QED
      BY <1>5, <1>8, <3>1, <3>2, <3>4, <3>5 DEF FlightBetweenBatches, Splits, Batch
  <2> QED
    BY <1>1, <2>1, <2>2 DEF StateTypes
<1>15. KeepsHtml
  BY <1>2, <1>12, <1>14 DEF KeepsHtml, sourceVars
<1>16. BrowserInv' /\ parsed' \in 0..Len(output')
  BY <1>1, <1>2, <1>3, <1>9, BrowserKept
<1>17. StateTypes'
  BY <1>1, <1>2, <1>5, <1>8, <1>16 DEF StateTypes, sourceVars, htmlVars, browserVars
<1>18. BufferInv'
  BY <1>1, <1>2 DEF BufferInv, sourceVars, htmlVars
<1>19. ClosedInv'
  BY <1>3 DEF ClosedInv
<1>20. FlightInv'
  <2>1. embedded' = embedded + 1 /\ embedded + 1 \in 0..(embedded + 1)
    BY <1>2, <1>5
  <2> QED
    BY <1>3, <1>8, <2>1 DEF FlightInv
<1> QED
  BY <1>9, <1>15, <1>16, <1>17, <1>18, <1>19, <1>20

(* RenderHtml, Transform, TimerFires and Flush leave Flight to the Flight  *)
(* side, which at most starts.                                             *)
LEMMA HtmlSteps ==
  ASSUME StreamInv, RenderHtml \/ Transform \/ TimerFires \/ Flush
  PROVE  StreamInv'
<1>1. StateTypes /\ BufferInv /\ ClosedInv /\ FlightInv /\ BrowserInv
  BY DEF StreamInv
<1>2. /\ KeepsHtml /\ SameScripts /\ StateTypes' /\ BufferInv'
      /\ stream = "closed" => output' = output
  <2>1. CASE RenderHtml
    BY <2>1, RenderHtmlStep DEF RenderHtml
  <2>2. CASE Transform
    BY <2>2, TransformStep DEF Transform
  <2>3. CASE TimerFires
    BY <2>3, TimerFiresStep
  <2>4. CASE Flush
    BY <2>4, FlushStep DEF Flush
  <2> QED
    BY <2>1, <2>2, <2>3, <2>4
<1>3. /\ UNCHANGED browserVars /\ embedded' = embedded
      /\ stream' = stream \/ (stream = "open" /\ stream' = "flushing")
  BY DEF RenderHtml, Transform, Transformable, TimerFires, Flush, flightVars
<1>4. completion' = completion \/ stream' = "errored"
  BY DEF RenderHtml, Transform, TimerFires, Flush, flightVars
<1>5. reader = "released" => reader' = "released"
  BY DEF RenderHtml, Transform, TimerFires, Flush, StartFlight, flightVars
<1>6. Longer /\ document' = document /\ HtmlInv' /\ EagerFlightBetweenBatches'
  BY <1>2 DEF SameScripts, KeepsHtml
<1>7. BrowserInv'
  BY <1>1, <1>2, <1>3, <1>6, BrowserKept
<1>8. Embedded'
  BY <1>1, <1>2, <1>3, ChunksKept DEF FlightInv, Embedded
<1>9. FlightInv'
  BY <1>1, <1>3, <1>4, <1>5, <1>8 DEF FlightInv, Embedded
<1>10. ClosedInv'
  BY <1>1, <1>2, <1>3, <1>6, ClosedKept
<1> QED
  BY <1>2, <1>6, <1>7, <1>9, <1>10 DEF StreamInv

(* The Flight side ends, the response breaks off, the consumer reads on.   *)
LEMMA EndSteps ==
  ASSUME StreamInv, CancelFlight \/ EndFlight \/ FailFlight \/ Abort \/ Want
  PROVE  StreamInv'
<1>1. /\ StateTypes /\ BufferInv /\ HtmlInv /\ ClosedInv /\ FlightInv
      /\ EagerFlightBetweenBatches /\ BrowserInv
  BY DEF StreamInv
<1>2. /\ UNCHANGED <<sourceVars, htmlVars, output, lagging, browserVars>>
      /\ stream' = stream \/ stream' = "errored"
  BY DEF CancelFlight, EndFlight, FailFlight, Abort, Want, flightVars
<1>3. KeepsHtml /\ SameScripts
  <2>1. reader = "reading" => stream # "closed"
    BY <1>1 DEF FlightInv
  <2>2. stream' # "closed" => stream # "closed"
    BY <2>1 DEF CancelFlight, EndFlight, FailFlight, Abort, Want, flightVars
  <2> QED
    BY <1>1, <1>2, <2>2, QuietStep DEF htmlVars
<1>4. Longer /\ document' = document /\ HtmlInv' /\ EagerFlightBetweenBatches'
  BY <1>3 DEF SameScripts, KeepsHtml
<1>5. BrowserInv' /\ parsed' \in 0..Len(output')
  BY <1>1, <1>2, <1>4, BrowserKept
<1>6. ClosedInv'
  BY <1>1, <1>2, <1>4, ClosedKept
<1>7. BufferInv'
  BY <1>1, <1>2 DEF BufferInv, sourceVars, htmlVars
<1>8. /\ reader' \in {"idle", "reading", "released"} /\ completion' \in BOOLEAN
      /\ wanted' \in BOOLEAN /\ embedded' \in 0..FlightChunks
  <2>1. /\ reader \in {"idle", "reading", "released"} /\ completion \in BOOLEAN
        /\ wanted \in BOOLEAN /\ embedded \in 0..FlightChunks
    BY <1>1 DEF StateTypes
  <2>2. reader' \in {"idle", "reading", "released"} /\ completion' \in BOOLEAN /\ wanted' \in BOOLEAN
    BY <2>1 DEF CancelFlight, EndFlight, FailFlight, Abort, Want, flightVars
  <2>3. embedded' = embedded \/ (embedded < FlightChunks /\ embedded' = embedded + 1)
    BY DEF CancelFlight, EndFlight, FailFlight, Abort, Want, flightVars
  <2> QED
    BY <2>1, <2>2, <2>3, StreamAssumption
<1>9. StateTypes'
  BY <1>1, <1>2, <1>8 DEF StateTypes, sourceVars, htmlVars, browserVars
<1>10. FlightInv'
  <2>1. CASE CancelFlight
    <3>1. /\ embedded' = embedded + 1 /\ stream = "errored" /\ stream' = "errored"
          /\ output' = output
      BY <2>1 DEF CancelFlight
    <3>2. PICK c \in 0..embedded : Ordered(output, ScriptsOf(output), c)
      BY <1>1 DEF FlightInv
    <3>3. c \in 0..(embedded + 1)
      BY <1>1, StreamAssumption DEF StateTypes
    <3> QED
      BY <3>1, <3>2, <3>3 DEF FlightInv
  <2>2. CASE EndFlight \/ FailFlight \/ Abort \/ Want
    <3>1. embedded' = embedded
      BY <2>2 DEF EndFlight, FailFlight, Abort, Want, flightVars
    <3>2. Embedded'
      BY <1>1, <1>2, <1>3, <3>1, ChunksKept DEF FlightInv, Embedded
    <3>3. completion' /\ stream' # "errored" => reader' = "released" /\ embedded' = FlightChunks
      BY <1>1, <2>2 DEF FlightInv, EndFlight, FailFlight, Abort, Want, flightVars
    <3>4. stream' = "closed" => completion'
      BY <1>1, <2>2 DEF FlightInv, EndFlight, FailFlight, Abort, Want, flightVars
    <3> QED
      BY <3>2, <3>3, <3>4 DEF FlightInv, Embedded
  <2> QED
    BY <2>1, <2>2
<1> QED
  BY <1>4, <1>5, <1>6, <1>7, <1>9, <1>10 DEF StreamInv

(* What the server keeps when only the browser steps.                      *)
LEMMA BrowserSteps ==
  ASSUME StreamInv, Parse \/ DocumentParsed \/ Attach \/ UNCHANGED vars, BrowserInv',
         parsed' \in 0..Len(output), queue' \in Seq(Nat), received' \in Seq(Nat),
         loaded' \in BOOLEAN, attached' \in BOOLEAN, ended' \in BOOLEAN
  PROVE  StreamInv'
<1>1. /\ StateTypes /\ BufferInv /\ HtmlInv /\ ClosedInv /\ FlightInv
      /\ EagerFlightBetweenBatches
  BY DEF StreamInv
<1>2. UNCHANGED <<sourceVars, htmlVars, flightVars, stream, output, wanted, lagging>>
  BY DEF Parse, DocumentParsed, Attach, vars
<1>3. KeepsHtml /\ SameScripts
  BY <1>1, <1>2, QuietStep DEF htmlVars
<1>4. document' = document /\ HtmlInv' /\ EagerFlightBetweenBatches'
  BY <1>3 DEF KeepsHtml
<1>5. ClosedInv'
  BY <1>1, <1>2, <1>4, ClosedKept
<1>6. BufferInv'
  BY <1>1, <1>2 DEF BufferInv, sourceVars, htmlVars
<1>7. StateTypes'
  BY <1>1, <1>2 DEF StateTypes, sourceVars, htmlVars, flightVars
<1>8. FlightInv'
  BY <1>1, <1>2 DEF FlightInv, flightVars
<1> QED
  BY <1>4, <1>5, <1>6, <1>7, <1>8 DEF StreamInv

(* A script pushes the chunk that follows those that were pushed.          *)
LEMMA ParseStep ==
  ASSUME StreamInv, Parse
  PROVE  StreamInv'
<1>1. StateTypes /\ FlightInv /\ BrowserInv
  BY DEF StreamInv
<1>2. /\ parsed < Len(output) /\ ~loaded /\ parsed' = parsed + 1
      /\ UNCHANGED <<stream, output, loaded, attached, ended>>
  BY DEF Parse
<1>3. /\ output \in Seq(Items) /\ Len(output) \in Nat /\ DOMAIN output = 1..Len(output)
      /\ parsed \in Nat /\ parsed + 1 \in 1..Len(output)
      /\ queue \in Seq(Nat) /\ received \in Seq(Nat)
      /\ loaded \in BOOLEAN /\ attached \in BOOLEAN /\ ended \in BOOLEAN
  <2>1. output \in Seq(Items) /\ parsed \in 0..Len(output)
        /\ queue \in Seq(Nat) /\ received \in Seq(Nat)
        /\ loaded \in BOOLEAN /\ attached \in BOOLEAN /\ ended \in BOOLEAN
    BY <1>1 DEF StateTypes
  <2>2. Len(output) \in Nat /\ DOMAIN output = 1..Len(output)
    BY <2>1, LenProperties
  <2> QED
    BY <1>2, <2>1, <2>2
<1> DEFINE item == output[parsed + 1]
<1>4. item \in Items /\ item.at \in Nat
  <2>1. item \in Items
    BY <1>3, ElementOfSeq
  <2> QED
    BY <2>1 DEF Items
<1>5. /\ received' = IF IsScript(item) /\ attached THEN Append(received, item.at) ELSE received
      /\ queue' = IF IsScript(item) /\ ~attached THEN Append(queue, item.at) ELSE queue
  BY DEF Parse
<1>6. PICK n \in Nat :
        Seen = [i \in 1..n |-> i] /\ {output[i].at : i \in Ran(output, parsed)} = 1..n
  BY <1>1 DEF BrowserInv
<1>7. PICK c \in Nat : Ordered(output, ScriptsOf(output), c)
  BY <1>1, StreamAssumption DEF FlightInv, StateTypes
<1>8. queue' \in Seq(Nat) /\ received' \in Seq(Nat)
  BY <1>3, <1>4, <1>5, AppendProperties
<1>9. /\ attached' => queue' = <<>>
      /\ ~attached' => received' = <<>>
      /\ ended' => loaded' /\ attached'
      /\ loaded' /\ stream' # "errored" => stream' = "closed" /\ parsed' = Len(output')
  BY <1>1, <1>2, <1>5 DEF BrowserInv
<1>10. \E m \in Nat :
         Seen' = [i \in 1..m |-> i] /\ {output[i].at : i \in Ran(output, parsed + 1)} = 1..m
  <2>1. CASE ~IsScript(item)
    <3>1. Ran(output, parsed + 1) = Ran(output, parsed)
      BY <1>3, <2>1 DEF Ran, ScriptsOf
    <3>2. Seen' = Seen
      BY <1>2, <1>5, <2>1 DEF Seen
    <3> QED
      BY <1>6, <3>1, <3>2
  <2>2. CASE IsScript(item)
    <3>1. parsed + 1 \in ScriptsOf(output)
      BY <1>3, <2>2 DEF ScriptsOf
    <3>2. Ran(output, parsed + 1) = Ran(output, parsed) \cup {parsed + 1}
      BY <1>3, <3>1 DEF Ran, ScriptsOf
    <3>3. {output[i].at : i \in Ran(output, parsed + 1)} = (1..n) \cup {item.at}
      BY <1>6, <3>2
    <3>4. item.at \in 1..c
      BY <1>7, <3>1 DEF Ordered
    <3>5. n < item.at
      <4>1. CASE n = 0
        BY <1>4, <3>4, <4>1
      <4>2. CASE n # 0
        <5>1. n \in 1..n
          BY <4>2
        <5>2. PICK i \in Ran(output, parsed) : output[i].at = n
          BY <1>6, <5>1
        <5>3. i \in ScriptsOf(output) /\ i < parsed + 1
          BY <1>3, <5>2 DEF Ran, ScriptsOf
        <5> QED
          BY <1>7, <3>1, <5>2, <5>3 DEF Ordered
      <4> QED
        BY <4>1, <4>2
    <3>6. item.at = n + 1
      <4>1. SUFFICES ASSUME n + 1 < item.at
                     PROVE  FALSE
        BY <1>4, <3>5
      <4>2. n + 1 \in 1..c
        BY <1>4, <3>4, <4>1
      <4>3. PICK j \in ScriptsOf(output) : output[j].at = n + 1
        BY <1>7, <4>2 DEF Ordered
      <4>4. j \in 1..Len(output)
        BY <1>3 DEF ScriptsOf
      <4>5. CASE j <= parsed
        <5>1. j \in Ran(output, parsed)
          BY <4>5 DEF Ran
        <5>2. n + 1 \in 1..n
          BY <1>6, <4>3, <5>1
        <5> QED
          BY <5>2
      <4>6. CASE j = parsed + 1
        BY <4>1, <4>3, <4>6, <1>4
      <4>7. CASE parsed + 1 < j
        <5>1. item.at < n + 1
          BY <1>7, <3>1, <4>3, <4>7 DEF Ordered
        <5> QED
          BY <1>4, <3>5, <5>1
      <4> QED
        BY <1>3, <4>4, <4>5, <4>6, <4>7
    <3>7. (1..n) \cup {n + 1} = 1..(n + 1)
      OBVIOUS
    <3>8. Seen' = Append(Seen, n + 1)
      BY <1>2, <1>3, <1>5, <2>2, <3>6 DEF Seen
    <3>9. Append(Seen, n + 1) = [i \in 1..(n + 1) |-> i]
      <4>1. [i \in 1..n |-> i] \in [1..n -> Nat]
        OBVIOUS
      <4>2. Seen \in Seq(Nat) /\ Len(Seen) = n
        BY <1>6, <4>1, FunctionIsSequence
      <4>3. /\ Append(Seen, n + 1) \in Seq(Nat) /\ Len(Append(Seen, n + 1)) = n + 1
            /\ \A i \in 1..n : Append(Seen, n + 1)[i] = Seen[i]
            /\ Append(Seen, n + 1)[n + 1] = n + 1
        BY <4>2, AppendProperties
      <4>4. [i \in 1..(n + 1) |-> i] \in [1..(n + 1) -> Nat]
        OBVIOUS
      <4>5. [i \in 1..(n + 1) |-> i] \in Seq(Nat) /\ Len([i \in 1..(n + 1) |-> i]) = n + 1
        BY <4>4, FunctionIsSequence
      <4>6. \A i \in 1..(n + 1) : Append(Seen, n + 1)[i] = i
        BY <1>6, <3>7, <4>3
      <4> QED
        BY <4>3, <4>5, <4>6, SeqEqual
    <3>10. {output[i].at : i \in Ran(output, parsed + 1)} = 1..(n + 1)
      BY <3>3, <3>6, <3>7
    <3>11. Seen' = [i \in 1..(n + 1) |-> i]
      BY <3>8, <3>9
    <3>12. n + 1 \in Nat
      OBVIOUS
    <3> QED
      BY <3>10, <3>11, <3>12
  <2> QED
    BY <2>1, <2>2
<1>11. BrowserInv'
  BY <1>2, <1>9, <1>10 DEF BrowserInv
<1>12. parsed' \in 0..Len(output)
  BY <1>2, <1>3
<1> QED
  BY <1>2, <1>3, <1>8, <1>11, <1>12, BrowserSteps

LEMMA AttachStep ==
  ASSUME StreamInv, DocumentParsed \/ Attach \/ UNCHANGED vars
  PROVE  StreamInv'
<1>1. StateTypes /\ BrowserInv
  BY DEF StreamInv
<1>2. stream' = stream /\ output' = output /\ parsed' = parsed
  BY DEF DocumentParsed, Attach, vars, browserVars
<1>3. Seen' = Seen
  BY <1>1 DEF Seen, BrowserInv, DocumentParsed, Attach, vars, browserVars
<1>4. /\ attached' => queue' = <<>>
      /\ ~attached' => received' = <<>>
      /\ ended' => loaded' /\ attached'
      /\ loaded' /\ stream' # "errored" => stream' = "closed" /\ parsed' = Len(output')
  BY <1>1 DEF BrowserInv, DocumentParsed, Attach, vars, browserVars
<1>5. \E n \in Nat :
        Seen' = [i \in 1..n |-> i] /\ {output'[i].at : i \in Ran(output', parsed')} = 1..n
  BY <1>1, <1>2, <1>3 DEF BrowserInv
<1>6. BrowserInv'
  BY <1>4, <1>5 DEF BrowserInv
<1>7. /\ parsed' \in 0..Len(output) /\ queue' \in Seq(Nat) /\ received' \in Seq(Nat)
      /\ loaded' \in BOOLEAN /\ attached' \in BOOLEAN /\ ended' \in BOOLEAN
  BY <1>1, EmptySeq DEF StateTypes, DocumentParsed, Attach, vars, browserVars
<1> QED
  BY <1>6, <1>7, BrowserSteps

-----------------------------------------------------------------------------
(* The invariant, and what follows from it.                                *)

LEMMA InvInit == Init => StreamInv
<1>1. SUFFICES ASSUME Init
               PROVE  StreamInv
  OBVIOUS
<1>2. document \in Documents /\ Len(document) \in Nat /\ FlightChunks \in Nat
  BY <1>1, DocumentFacts, StreamAssumption DEF Init
<1>3. DOMAIN output = {} /\ HtmlOf(output) = {} /\ ScriptsOf(output) = {}
  BY <1>1 DEF Init, HtmlOf, ScriptsOf
<1>4. 1..0 = {}
  OBVIOUS
<1>5. Ordered(output, {}, 0)
  BY <1>4 DEF Ordered
<1>6. StateTypes
  <2>1. <<>> \in Seq(Items) /\ <<>> \in Seq(Nat) /\ Len(output) = 0
    BY <1>1, EmptySeq DEF Init
  <2>2. 0 \in 0..Len(document) /\ 0 \in 0..FlightChunks /\ 0 \in 0..0
    BY <1>2
  <2>3. rendered \in 0..Len(document) /\ embedded \in 0..FlightChunks /\ parsed \in 0..Len(output)
    BY <1>1, <2>1, <2>2 DEF Init
  <2> QED
    BY <1>1, <1>2, <2>1, <2>3 DEF Init, StateTypes
<1>7. BufferInv
  BY <1>1, <1>2 DEF Init, BufferInv, WholeBatches
<1>8. HtmlAt(0)
  <2>1. Written(document, output, 0)
    BY <1>3, <1>5 DEF Written
  <2>2. \A n \in Nat : Placed(document, <<>>, n)
    BY <1>4 DEF Placed
  <2>3. Held(document, 0, 0)
    BY <1>4, TrailerFacts DEF Held, EndsAt
  <2>4. Apart(document, 0)
    BY <1>2 DEF Apart
  <2> QED
    BY <1>1, <2>1, <2>2, <2>3, <2>4 DEF Init, HtmlAt
<1>9. HtmlInv
  BY <1>8 DEF HtmlInv
<1>10. ClosedInv
  BY <1>1 DEF Init, ClosedInv
<1>11. FlightInv
  <2>1. 0 \in 0..embedded /\ embedded = 0 /\ completion = FALSE /\ stream = "open"
    BY <1>1 DEF Init
  <2> QED
    BY <1>3, <1>5, <2>1 DEF FlightInv
<1>12. EagerFlightBetweenBatches
  BY <1>3 DEF EagerFlightBetweenBatches, FlightBetweenBatches
<1>13. BrowserInv
  <2>1. Ran(output, parsed) = {}
    BY <1>3 DEF Ran
  <2>2. [i \in 1..0 |-> i] = <<>>
    <3>1. [i \in 1..0 |-> i] \in [1..0 -> Nat]
      OBVIOUS
    <3>2. [i \in 1..0 |-> i] \in Seq(Nat) /\ Len([i \in 1..0 |-> i]) = 0
      BY <3>1, FunctionIsSequence
    <3> QED
      BY <3>2, EmptySeq
  <2>3. Seen = <<>>
    BY <1>1 DEF Init, Seen
  <2>4. {output[i].at : i \in Ran(output, parsed)} = 1..0
    BY <1>4, <2>1
  <2>5. Seen = [i \in 1..0 |-> i]
    BY <2>2, <2>3
  <2> QED
    BY <1>1, <2>4, <2>5 DEF Init, BrowserInv
<1> QED
  BY <1>6, <1>7, <1>9, <1>10, <1>11, <1>12, <1>13 DEF StreamInv

LEMMA InvNext == StreamInv /\ [Next]_vars => StreamInv'
<1>1. SUFFICES ASSUME StreamInv, [Next]_vars
               PROVE  StreamInv'
  OBVIOUS
<1>2. CASE RenderHtml \/ Transform \/ TimerFires \/ Flush
  BY <1>1, <1>2, HtmlSteps
<1>3. CASE Finish
  BY <1>1, <1>3, FinishStep DEF StreamInv, KeepsHtml
<1>4. CASE EmbedChunk
  BY <1>1, <1>4, EmbedChunkStep DEF StreamInv, KeepsHtml
<1>5. CASE CancelFlight \/ EndFlight \/ FailFlight \/ Abort \/ Want
  BY <1>1, <1>5, EndSteps
<1>6. CASE Parse
  BY <1>1, <1>6, ParseStep
<1>7. CASE DocumentParsed \/ Attach \/ UNCHANGED vars
  BY <1>1, <1>7, AttachStep
<1> QED
  BY <1>1, <1>2, <1>3, <1>4, <1>5, <1>6, <1>7 DEF Next

LEMMA InvHolds == Spec => []StreamInv
BY InvInit, InvNext, PTL DEF Spec

(* What is held back is a beginning of the closing tags.                   *)
TailIsPrefix == Len(tail) <= Len(Trailer) /\ Ends(tail, Len(tail))

(* The state of the stream has its types, and what the HTML writer holds   *)
(* back is always a beginning of the closing tags (makeHtmlWriter).        *)
THEOREM StreamTypes == Spec => []TypeOK
<1> DEFINE UntilClosed == stream # "closed" => TailIsPrefix
<1>1. StreamInv => UntilClosed
  <2>1. SUFFICES ASSUME StreamInv, stream # "closed"
                 PROVE  TailIsPrefix
    OBVIOUS
  <2>2. document \in Documents /\ tail \in Seq(Items) /\ Len(tail) \in Nat
    BY <2>1, LenProperties DEF StreamInv, StateTypes
  <2>3. PICK w \in Nat : HtmlAt(w)
    BY <2>1 DEF StreamInv, HtmlInv
  <2>4. Placed(document, tail, w) /\ Held(document, w + Len(tail), Len(tail))
    BY <2>3 DEF HtmlAt
  <2>5. Len(tail) \in 0..Len(tail)
    BY <2>2
  <2> QED
    BY <2>2, <2>4, <2>5, EndsOfPlaced DEF Held, TailIsPrefix
<1>2. Init => TailIsPrefix
  BY TrailerFacts DEF Init, TailIsPrefix, Ends
<1>3. StreamInv /\ TailIsPrefix /\ [Next]_vars /\ UntilClosed' => TailIsPrefix'
  <2>1. SUFFICES ASSUME StreamInv, TailIsPrefix, [Next]_vars, stream' = "closed"
                 PROVE  tail' = tail
    BY DEF TailIsPrefix, Ends
  <2>2. CASE Next
    <3>1. stream = "closed" => ~flushScheduled
      BY <2>1 DEF StreamInv, BufferInv
    <3> QED
      BY <2>1, <2>2, <3>1 DEF Next, RenderHtml, Transform, Transformable, TimerFires, Flush, Finish,
         EmbedChunk, CancelFlight, EndFlight, FailFlight, Abort, Want, Parse, DocumentParsed,
         Attach, htmlVars
  <2>3. CASE UNCHANGED vars
    BY <2>3 DEF vars, htmlVars
  <2> QED
    BY <2>1, <2>2, <2>3
<1>4. StreamInv /\ TailIsPrefix => TypeOK
  BY Zenon DEF StreamInv, StateTypes, TailIsPrefix, TypeOK
<1> QED
  BY <1>1, <1>2, <1>3, <1>4, InvHolds, PTL DEF Spec

(* No byte of the HTML is lost, repeated or displaced by the Flight in it, *)
(* the closing tags come once and last, and a response that ends well has  *)
(* every chunk before them (injectFlightStream).                           *)
THEOREM DocumentStaysIntact == Spec => []DocumentIntact
<1>1. StreamInv => DocumentIntact
  <2>1. SUFFICES ASSUME StreamInv
                 PROVE  DocumentIntact
    OBVIOUS
  <2>2. StateTypes /\ HtmlInv /\ ClosedInv /\ FlightInv
    BY <2>1 DEF StreamInv
  <2>3. document \in Documents /\ Len(document) \in Nat /\ rendered \in 0..Len(document)
        /\ embedded \in 0..FlightChunks /\ FlightChunks \in Nat
    BY <2>2, DocumentFacts, StreamAssumption DEF StateTypes
  <2>4. HtmlItems = HtmlOf(output) /\ Scripts = ScriptsOf(output)
    BY DEF HtmlItems, Scripts, HtmlOf, ScriptsOf
  <2>5. HtmlIntact
    <3>1. CASE stream = "closed"
      BY <2>2, <3>1 DEF ClosedInv
    <3>2. CASE stream # "closed"
      <4>1. PICK w \in Nat : HtmlAt(w)
        BY <2>2, <3>2 DEF HtmlInv
      <4>2. Written(document, output, w)
        BY <4>1 DEF HtmlAt
      <4>3. w <= Len(document)
        <5>1. Len(tail) \in Nat /\ Len(buffered) \in Nat /\ Len(arriving) \in Nat
          BY <2>2, LenProperties DEF StateTypes
        <5>2. w + Len(tail) + Len(buffered) + Len(arriving) = rendered
          BY <4>1 DEF HtmlAt
        <5> QED
          BY <2>3, <5>1, <5>2
      <4>4. CompletedLength \in Nat /\ Len(document) <= CompletedLength
        BY <2>3, TrailerFacts DEF CompletedLength
      <4>5. w \in 0..CompletedLength
        BY <4>3, <4>4, <2>3
      <4>6. InOrder(HtmlItems, w)
        BY <2>4, <4>2 DEF Written, Ordered, InOrder
      <4>7. ASSUME NEW i \in HtmlItems
            PROVE  output[i].byte = CompletedByte(output[i].at)
        <5>1. output[i].at \in 1..w /\ output[i].byte = document[output[i].at].byte
          BY <2>4, <4>2 DEF Written, Ordered
        <5>2. output[i].at <= Len(document)
          BY <2>3, <4>3, <5>1
        <5> QED
          BY <5>1, <5>2 DEF CompletedByte
      <4> QED
        BY <3>2, <4>5, <4>6, <4>7 DEF HtmlIntact
    <3> QED
      BY <3>1, <3>2
  <2>6. FlightInsideBody
    <3>1. PICK c \in 0..embedded :
            Ordered(output, ScriptsOf(output), c) /\ (stream # "errored" => c = embedded)
      BY <2>2 DEF FlightInv
    <3>2. InOrder(Scripts, c) /\ c \in 0..FlightChunks
      BY <2>3, <2>4, <3>1 DEF Ordered, InOrder
    <3>3. stream = "closed" => c = FlightChunks
      BY <2>2, <3>1 DEF FlightInv
    <3>4. stream = "closed" => Ends(output, Len(Trailer))
      BY <2>2 DEF ClosedInv
    <3> QED
      BY <3>2, <3>3, <3>4 DEF FlightInsideBody
  <2> QED
    BY <2>5, <2>6 DEF DocumentIntact
<1> QED
  BY <1>1, InvHolds, PTL

(* No script lands inside an HTML batch while the consumer keeps up, which *)
(* is what the timer of transform is for.                                  *)
THEOREM EagerFlightStaysBetween == Spec => []EagerFlightBetweenBatches
<1>1. StreamInv => EagerFlightBetweenBatches
  BY DEF StreamInv
<1> QED
  BY <1>1, InvHolds, PTL

(* The browser's stream gets the chunks in order, before and after the     *)
(* client attaches, and is closed by a complete document only when it has  *)
(* all of them (makeInitialFlightStream).                                  *)
THEOREM FlightArrives == Spec => []FlightReachesBrowser
<1>1. StreamInv => FlightReachesBrowser
  <2>1. SUFFICES ASSUME StreamInv
                 PROVE  FlightReachesBrowser
    OBVIOUS
  <2>2. StateTypes /\ FlightInv /\ BrowserInv
    BY <2>1 DEF StreamInv
  <2>3. /\ embedded \in 0..FlightChunks /\ FlightChunks \in Nat
        /\ queue \in Seq(Nat) /\ received \in Seq(Nat)
    BY <2>2, StreamAssumption DEF StateTypes
  <2>4. PICK n \in Nat :
          Seen = [i \in 1..n |-> i] /\ {output[i].at : i \in Ran(output, parsed)} = 1..n
    BY <2>2 DEF BrowserInv
  <2>5. PICK c \in 0..embedded :
          Ordered(output, ScriptsOf(output), c) /\ (stream # "errored" => c = embedded)
    BY <2>2 DEF FlightInv
  <2>6. 1..n \subseteq 1..c
    BY <2>4, <2>5 DEF Ran, Ordered
  <2>7. n <= c /\ n \in 0..FlightChunks
    <3>1. n = 0 \/ n \in 1..n
      OBVIOUS
    <3>2. c \in Nat /\ c <= FlightChunks
      BY <2>3
    <3>3. n = 0 \/ n \in 1..c
      BY <2>6, <3>1
    <3>4. n <= c
      BY <3>2, <3>3
    <3> QED
      BY <2>3, <3>2, <3>4
  <2>8. received \o queue = Seen
    BY <2>2, <2>3, ConcatEmptySeq DEF BrowserInv, Seen, StateTypes
  <2>9. ASSUME ended, stream # "errored"
        PROVE  Len(received) = FlightChunks
    <3>1. attached /\ stream = "closed" /\ parsed = Len(output)
      BY <2>2, <2>9 DEF BrowserInv
    <3>2. c = FlightChunks
      BY <2>2, <2>5, <2>9, <3>1 DEF FlightInv
    <3>3. DOMAIN output = 1..Len(output)
      BY <2>2, LenProperties DEF StateTypes
    <3>4. Len(output) \in Nat /\ Ran(output, parsed) = ScriptsOf(output)
      BY <2>2, <3>1, <3>3, LenProperties DEF Ran, ScriptsOf, StateTypes
    <3>5. 1..n = 1..c
      BY <2>4, <2>5, <3>4 DEF Ordered
    <3>6. n = c
      <4>1. c = 0 \/ c \in 1..c
        BY <2>3
      <4>2. c <= n
        BY <3>5, <4>1
      <4> QED
        BY <2>3, <2>7, <4>2
    <3>7. received = [i \in 1..n |-> i]
      BY <2>4, <3>1 DEF Seen
    <3>8. [i \in 1..n |-> i] \in [1..n -> Nat]
      OBVIOUS
    <3> QED
      BY <3>2, <3>6, <3>7, <3>8, FunctionIsSequence
  <2> QED
    BY <2>4, <2>7, <2>8, <2>9 DEF FlightReachesBrowser
<1> QED
  BY <1>1, InvHolds, PTL
=============================================================================
