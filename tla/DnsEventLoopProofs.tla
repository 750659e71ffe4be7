------------------------- MODULE DnsEventLoopProofs -------------------------
(***************************************************************************)
(* Proofs about DnsEventLoop, for every set of packets, every size of the  *)
(* queue and every time out.                                               *)
(***************************************************************************)
EXTENDS DnsEventLoop, SequenceTheorems, TLAPS

-----------------------------------------------------------------------------
(* Sequences.                                                              *)

\* What RemoveAt, the iterator's remove, leaves.
LEMMA RemoveAtProperties ==
    ASSUME NEW S, NEW s \in Seq(S), NEW k \in 1 .. Len(s)
    PROVE  /\ RemoveAt(s, k) \in Seq(S)
           /\ Len(RemoveAt(s, k)) = Len(s) - 1
           /\ \A i \in 1 .. Len(s) - 1 :
                 RemoveAt(s, k)[i] = IF i < k THEN s[i] ELSE s[i + 1]
<1>1. k \in 1 .. Len(s) /\ Len(s) \in Nat
  OBVIOUS
<1>2. /\ SubSeq(s, 1, k - 1) \in Seq(S)
      /\ Len(SubSeq(s, 1, k - 1)) = k - 1
      /\ \A i \in 1 .. k - 1 : SubSeq(s, 1, k - 1)[i] = s[i]
  <2>1. \A i \in 1 .. k - 1 : s[i] \in S
    BY <1>1
  <2>2. QED
    BY <1>1, <2>1, SubSeqProperties
<1>3. /\ SubSeq(s, k + 1, Len(s)) \in Seq(S)
      /\ Len(SubSeq(s, k + 1, Len(s))) = Len(s) - k
      /\ \A i \in 1 .. Len(s) - k : SubSeq(s, k + 1, Len(s))[i] = s[k + i]
  <2>1. \A i \in k + 1 .. Len(s) : s[i] \in S
    BY <1>1
  <2>2. QED
    BY <1>1, <2>1, SubSeqProperties
<1> DEFINE a == SubSeq(s, 1, k - 1)
           b == SubSeq(s, k + 1, Len(s))
<1>4. RemoveAt(s, k) = a \o b
  BY DEF RemoveAt
<1> HIDE DEF a, b
<1>5. a \in Seq(S) /\ Len(a) = k - 1 /\ \A i \in 1 .. k - 1 : a[i] = s[i]
  BY <1>2 DEF a
<1>6. b \in Seq(S) /\ Len(b) = Len(s) - k /\ \A i \in 1 .. Len(s) - k : b[i] = s[k + i]
  BY <1>3 DEF b
<1>7. /\ a \o b \in Seq(S)
      /\ Len(a \o b) = Len(a) + Len(b)
      /\ \A i \in 1 .. Len(a) + Len(b) :
            (a \o b)[i] = IF i <= Len(a) THEN a[i] ELSE b[i - Len(a)]
  BY <1>5, <1>6, ConcatProperties
<1>8. \A i \in 1 .. Len(s) - 1 : (a \o b)[i] = IF i < k THEN s[i] ELSE s[i + 1]
  <2>1. TAKE i \in 1 .. Len(s) - 1
  <2>2. CASE i < k
    BY <1>1, <1>5, <1>6, <1>7, <2>2
  <2>3. CASE ~(i < k)
    <3>1. /\ i - Len(a) \in 1 .. Len(s) - k
          /\ k + (i - Len(a)) = i + 1
      BY <1>1, <1>5, <2>3
    <3>2. b[i - Len(a)] = s[i + 1]
      BY <1>6, <3>1
    <3>3. (a \o b)[i] = b[i - Len(a)]
      BY <1>1, <1>5, <1>6, <1>7, <2>3
    <3>4. QED
      BY <2>3, <3>2, <3>3
  <2>4. QED
    BY <2>2, <2>3
<1>9. QED
  BY <1>1, <1>4, <1>5, <1>6, <1>7, <1>8

\* What is left once the first d elements have been taken from the head.
LEMMA SuffixProperties ==
    ASSUME NEW S, NEW s \in Seq(S), NEW d \in 0 .. Len(s)
    PROVE  /\ SubSeq(s, d + 1, Len(s)) \in Seq(S)
           /\ Len(SubSeq(s, d + 1, Len(s))) = Len(s) - d
           /\ \A i \in 1 .. Len(s) - d : SubSeq(s, d + 1, Len(s))[i] = s[d + i]
<1>1. \A i \in d + 1 .. Len(s) : s[i] \in S
  OBVIOUS
<1>2. QED
  BY <1>1, SubSeqProperties

\* The elements taken from the head.
LEMMA PrefixProperties ==
    ASSUME NEW S, NEW s \in Seq(S), NEW d \in 0 .. Len(s)
    PROVE  /\ SubSeq(s, 1, d) \in Seq(S)
           /\ Len(SubSeq(s, 1, d)) = d
           /\ \A i \in 1 .. d : SubSeq(s, 1, d)[i] = s[i]
<1>1. \A i \in 1 .. d : s[i] \in S
  OBVIOUS
<1>2. QED
  BY <1>1, SubSeqProperties

-----------------------------------------------------------------------------
(* The inductive invariant: the safety invariants and what they rest on.   *)

\* No query is younger than the clock.
QueriesTimed == \A i \in DOMAIN queries : queries[i].time <= now

\* Only handleResponses sees queries poll reported an answer for.
AnswersHandled == pc # "responses" => \A i \in DOMAIN queries : ~queries[i].answered

Inv ==
    /\ TypeOK
    /\ SocketsOwned
    /\ QueueBounded
    /\ OldestFirst
    /\ QueriesTimed
    /\ AnswersHandled
    /\ OneReplyPerRequest

NewQuery(r) == [request |-> r, time |-> now, answered |-> FALSE]

\* What addQuery does to the queue: d queries leave at the head, first the
\* timed out ones, then at most one to make room.
LEMMA AddQueryEffect ==
    ASSUME TypeOK, QueueBounded, NEW r \in Request, AddQuery(r)
    PROVE  \E k \in 0 .. Len(queries) : \E d \in 0 .. Len(queries) :
             /\ ClearsTimedOut(k)
             /\ d = k + Overflow(Len(queries) - k)
             /\ queries' \in Seq(Query)
             /\ Len(queries') = Len(queries) - d + 1
             /\ Len(queries) - d <= MAXIMUM_WAITING
             /\ \A i \in 1 .. Len(queries) - d : queries'[i] = queries[d + i]
             /\ queries'[Len(queries) - d + 1] = NewQuery(r)
             /\ open' = (open \ {queries[i].request : i \in 1 .. d}) \cup {r}
             /\ arrived' = arrived \ {queries[i].request : i \in 1 .. d}
<1>1. queries \in Seq(Query) /\ now \in Nat /\ Len(queries) \in Nat
  BY DEF TypeOK
<1>2. MAXIMUM_WAITING \in Nat /\ Len(queries) <= MAXIMUM_WAITING + 1
  BY DnsAssumption DEF QueueBounded
<1>3. PICK k \in 0 .. Len(queries) :
        LET dropped == k + Overflow(Len(queries) - k)
            kept    == SubSeq(queries, dropped + 1, Len(queries))
        IN  /\ ClearsTimedOut(k)
            /\ queries' = Append(kept, NewQuery(r))
            /\ open' = (open \ QueriesOf(SubSeq(queries, 1, dropped))) \cup {r}
            /\ arrived' = arrived \ QueriesOf(SubSeq(queries, 1, dropped))
  BY DEF AddQuery, Enqueue, Sockets, NewQuery
<1> DEFINE d == k + Overflow(Len(queries) - k)
           kept == SubSeq(queries, d + 1, Len(queries))
<1>4. d \in 0 .. Len(queries) /\ Len(queries) - d <= MAXIMUM_WAITING
  BY <1>1, <1>2 DEF Overflow
<1> HIDE DEF d
<1>5. /\ kept \in Seq(Query)
      /\ Len(kept) = Len(queries) - d
      /\ \A i \in 1 .. Len(queries) - d : kept[i] = queries[d + i]
  BY <1>1, <1>4, SuffixProperties
<1>6. NewQuery(r) \in Query
  BY <1>1 DEF NewQuery, Query
<1>7. queries' = Append(kept, NewQuery(r))
  BY <1>3 DEF d
<1> HIDE DEF kept
<1>8. /\ queries' \in Seq(Query)
      /\ Len(queries') = Len(queries) - d + 1
      /\ \A i \in 1 .. Len(queries) - d : queries'[i] = queries[d + i]
      /\ queries'[Len(queries) - d + 1] = NewQuery(r)
  <2>1. /\ queries' \in Seq(Query)
        /\ Len(queries') = Len(kept) + 1
        /\ \A i \in 1 .. Len(kept) : queries'[i] = kept[i]
        /\ queries'[Len(kept) + 1] = NewQuery(r)
    BY <1>5, <1>6, <1>7, AppendProperties
  <2>2. QED
    BY <1>4, <1>5, <2>1
<1>9. QueriesOf(SubSeq(queries, 1, d)) = {queries[i].request : i \in 1 .. d}
  <2>1. /\ SubSeq(queries, 1, d) \in Seq(Query)
        /\ Len(SubSeq(queries, 1, d)) = d
        /\ \A i \in 1 .. d : SubSeq(queries, 1, d)[i] = queries[i]
    BY <1>1, <1>4, PrefixProperties
  <2>2. DOMAIN SubSeq(queries, 1, d) = 1 .. d
    BY <2>1
  <2>3. QED
    BY <2>1, <2>2 DEF QueriesOf
<1>10. /\ ClearsTimedOut(k)
       /\ d = k + Overflow(Len(queries) - k)
       /\ open' = (open \ {queries[i].request : i \in 1 .. d}) \cup {r}
       /\ arrived' = arrived \ {queries[i].request : i \in 1 .. d}
  <2>1. /\ open' = (open \ QueriesOf(SubSeq(queries, 1, d))) \cup {r}
        /\ arrived' = arrived \ QueriesOf(SubSeq(queries, 1, d))
        /\ ClearsTimedOut(k)
    BY <1>3 DEF d
  <2>2. QED
    BY <1>9, <2>1 DEF d
<1>11. QED
  BY <1>4, <1>8, <1>10

-----------------------------------------------------------------------------
(* The replies, written or not, as one sequence.                           *)

Injective(s) == \A i, j \in DOMAIN s : s[i] = s[j] => i = j

Replies == written \o deviceWrites

\* OneReplyPerRequest, of any sequence of replies.
RepliesKept(replies, sockets, sent, unsent) ==
    /\ Injective(replies)
    /\ Range(replies) \cap sockets = {}
    /\ (Range(replies) \cup sockets) \cap (sent \cup unsent) = {}
    /\ sent \cap unsent = {}

\* The two forms say the same, now and after a step.
LEMMA RepliesKeptDef ==
    /\ OneReplyPerRequest <=> RepliesKept(Replies, open, unread, fresh)
    /\ OneReplyPerRequest' <=>
          RepliesKept(written' \o deviceWrites', open', unread', fresh')
BY DEF OneReplyPerRequest, RepliesKept, Injective, Replies

\* A reply added to deviceWrites is the last of all replies.
LEMMA ReplyQueued ==
    ASSUME NEW w \in Seq(Request), NEW d \in Seq(Request), NEW r \in Request
    PROVE  w \o Append(d, r) = Append(w \o d, r)
<1>1. <<r>> \in Seq(Request)
  OBVIOUS
<1>2. Append(d, r) = d \o <<r>>
  BY AppendIsConcat
<1>3. w \o d \in Seq(Request)
  BY ConcatProperties
<1>4. Append(w \o d, r) = (w \o d) \o <<r>>
  BY <1>3, AppendIsConcat
<1>5. w \o (d \o <<r>>) = (w \o d) \o <<r>>
  BY <1>1, ConcatAssociative
<1>6. QED
  BY <1>2, <1>4, <1>5

\* A new reply keeps the replies distinct.
LEMMA InjectiveAppend ==
    ASSUME NEW s \in Seq(Request), NEW r \in Request, Injective(s), r \notin Range(s)
    PROVE  Injective(Append(s, r)) /\ Range(Append(s, r)) = Range(s) \cup {r}
<1>1. /\ DOMAIN Append(s, r) = 1 .. Len(s) + 1
      /\ \A i \in 1 .. Len(s) : Append(s, r)[i] = s[i]
      /\ Append(s, r)[Len(s) + 1] = r
      /\ DOMAIN s = 1 .. Len(s)
      /\ Len(s) \in Nat
  BY AppendProperties
<1>2. \A i \in 1 .. Len(s) : s[i] # r
  BY <1>1 DEF Range
<1>3. \A i \in 1 .. Len(s) + 1 : i \in 1 .. Len(s) \/ i = Len(s) + 1
  BY <1>1
<1>4. Injective(Append(s, r))
  BY <1>1, <1>2, <1>3 DEF Injective
<1>5. Range(Append(s, r)) = Range(s) \cup {r}
  BY <1>1, <1>3 DEF Range
<1>6. QED
  BY <1>4, <1>5

\* Losing a reply keeps the others distinct.
LEMMA InjectiveRemoveAt ==
    ASSUME NEW s \in Seq(Request), NEW k \in 1 .. Len(s), Injective(s)
    PROVE  Injective(RemoveAt(s, k)) /\ Range(RemoveAt(s, k)) \subseteq Range(s)
<1> DEFINE t == RemoveAt(s, k)
<1>1. /\ t \in Seq(Request)
      /\ Len(t) = Len(s) - 1
      /\ \A i \in 1 .. Len(s) - 1 : t[i] = IF i < k THEN s[i] ELSE s[i + 1]
  BY RemoveAtProperties
<1> HIDE DEF t
<1>2. DOMAIN t = 1 .. Len(s) - 1 /\ DOMAIN s = 1 .. Len(s) /\ Len(s) \in Nat
  BY <1>1
<1>3. \A i \in DOMAIN t : \E m \in DOMAIN s :
         t[i] = s[m] /\ m = IF i < k THEN i ELSE i + 1
  BY <1>1, <1>2
<1>4. Injective(t)
  <2>1. SUFFICES ASSUME NEW i \in DOMAIN t, NEW j \in DOMAIN t, t[i] = t[j]
                 PROVE  i = j
    BY DEF Injective
  <2>2. PICK m \in DOMAIN s : t[i] = s[m] /\ m = IF i < k THEN i ELSE i + 1
    BY <1>3
  <2>3. PICK n \in DOMAIN s : t[j] = s[n] /\ n = IF j < k THEN j ELSE j + 1
    BY <1>3
  <2>4. m = n
    BY <2>1, <2>2, <2>3 DEF Injective
  <2>5. QED
    BY <1>2, <2>2, <2>3, <2>4
<1>5. Range(t) \subseteq Range(s)
  BY <1>3 DEF Range
<1>6. QED
  BY <1>4, <1>5 DEF t

\* Concatenating three parts of the replies.
LEMMA ThreeParts ==
    ASSUME NEW x \in Seq(Request), NEW y \in Seq(Request), NEW z \in Seq(Request)
    PROVE  (x \o y) \o z = x \o (y \o z)
BY ConcatAssociative

\* A write that fails at the k-th reply takes that one out of the replies.
LEMMA ReplyLost ==
    ASSUME NEW w \in Seq(Request), NEW d \in Seq(Request), NEW k \in 1 .. Len(d)
    PROVE  (w \o SubSeq(d, 1, k - 1)) \o SubSeq(d, k + 1, Len(d))
              = RemoveAt(w \o d, Len(w) + k)
<1> DEFINE t == RemoveAt(d, k)
           r == RemoveAt(w \o d, Len(w) + k)
<1>1. k \in 1 .. Len(d) /\ Len(d) \in Nat /\ Len(w) \in Nat
  OBVIOUS
<1>2. (w \o SubSeq(d, 1, k - 1)) \o SubSeq(d, k + 1, Len(d)) = w \o t
  <2> DEFINE a == SubSeq(d, 1, k - 1)
             b == SubSeq(d, k + 1, Len(d))
  <2>1. a \in Seq(Request)
    <3>1. k - 1 \in 0 .. Len(d)
      BY <1>1
    <3>2. QED
      BY <3>1, PrefixProperties
  <2>2. b \in Seq(Request)
    BY <1>1, SuffixProperties
  <2>3. t = a \o b
    BY DEF RemoveAt
  <2> HIDE DEF a, b, t
  <2>4. (w \o a) \o b = w \o (a \o b)
    BY <2>1, <2>2, ThreeParts
  <2>5. (w \o a) \o b = w \o t
    BY <2>3, <2>4
  <2>6. QED
    BY <2>5 DEF a, b
<1>3. /\ t \in Seq(Request)
      /\ Len(t) = Len(d) - 1
      /\ \A i \in 1 .. Len(d) - 1 : t[i] = IF i < k THEN d[i] ELSE d[i + 1]
  BY <1>1, RemoveAtProperties
<1> HIDE DEF t
<1>4. /\ w \o t \in Seq(Request)
      /\ Len(w \o t) = Len(w) + Len(t)
      /\ \A i \in 1 .. Len(w) + Len(t) :
           (w \o t)[i] = IF i <= Len(w) THEN w[i] ELSE t[i - Len(w)]
  BY <1>3, ConcatProperties
<1>5. /\ w \o d \in Seq(Request)
      /\ Len(w \o d) = Len(w) + Len(d)
      /\ \A i \in 1 .. Len(w) + Len(d) :
           (w \o d)[i] = IF i <= Len(w) THEN w[i] ELSE d[i - Len(w)]
  BY ConcatProperties
<1>6. Len(w) + k \in 1 .. Len(w \o d)
  BY <1>1, <1>5
<1>7. /\ r \in Seq(Request)
      /\ Len(r) = Len(w \o d) - 1
      /\ \A i \in 1 .. Len(w \o d) - 1 :
           r[i] = IF i < Len(w) + k THEN (w \o d)[i] ELSE (w \o d)[i + 1]
  BY <1>5, <1>6, RemoveAtProperties
<1> HIDE DEF r
<1>8. \A i \in 1 .. Len(w) + Len(d) - 1 : (w \o t)[i] = r[i]
  <2>1. TAKE i \in 1 .. Len(w) + Len(d) - 1
  <2>2. CASE i <= Len(w)
    BY <1>1, <1>3, <1>4, <1>5, <1>7, <2>2
  <2>3. CASE ~(i <= Len(w))
    <3> DEFINE m == i - Len(w)
    <3>1. /\ m \in 1 .. Len(d) - 1
          /\ (m < k) = (i < Len(w) + k)
          /\ (i + 1) - Len(w) = m + 1
      BY <1>1, <2>3
    <3>2. (w \o t)[i] = t[m]
      BY <1>1, <1>3, <1>4, <2>3
    <3>3. (w \o d)[i] = d[m] /\ (w \o d)[i + 1] = d[m + 1]
      BY <1>1, <1>5, <2>3, <3>1
    <3>4. r[i] = IF m < k THEN d[m] ELSE d[m + 1]
      BY <1>1, <1>5, <1>7, <3>1, <3>3
    <3> HIDE DEF m
    <3>5. QED
      BY <1>3, <3>1, <3>2, <3>4
  <2>4. QED
    BY <2>2, <2>3
<1>9. w \o t = r
  <2>1. Len(w \o t) = Len(r) /\ Len(w \o t) = Len(w) + Len(d) - 1
    BY <1>1, <1>3, <1>4, <1>5, <1>7
  <2>2. w \o t \in Seq(Request) /\ r \in Seq(Request)
    BY <1>4, <1>7
  <2>3. \A i \in 1 .. Len(w \o t) : (w \o t)[i] = r[i]
    BY <1>8, <2>1
  <2>4. QED
    BY <2>1, <2>2, <2>3, SeqEqual
<1>10. QED
  BY <1>2, <1>9 DEF r

-----------------------------------------------------------------------------
(* Every step keeps the invariant.                                         *)

LEMMA InitInv == Init => Inv
<1> SUFFICES ASSUME Init PROVE Inv
  OBVIOUS
<1>1. written \o deviceWrites = <<>>
  BY DEF Init
<1>2. TypeOK
  BY DEF Init, TypeOK, Stage
<1>3. SocketsOwned /\ OldestFirst /\ QueriesTimed /\ AnswersHandled
  BY DEF Init, SocketsOwned, OldestFirst, QueriesTimed, AnswersHandled, QueriesOf
<1>4. QueueBounded
  BY DnsAssumption DEF Init, QueueBounded
<1>5. OneReplyPerRequest
  BY <1>1 DEF Init, OneReplyPerRequest, Range
<1>6. QED
  BY <1>2, <1>3, <1>4, <1>5 DEF Inv

\* A query of the queue is a well formed one.
LEMMA QueryTyped ==
    ASSUME TypeOK
    PROVE  /\ DOMAIN queries = 1 .. Len(queries)
           /\ Len(queries) \in Nat
           /\ \A i \in DOMAIN queries :
                 /\ queries[i] \in Query
                 /\ queries[i].time \in Nat
                 /\ queries[i].request \in Request
                 /\ queries[i].answered \in BOOLEAN
<1>1. queries \in Seq(Query)
  BY DEF TypeOK
<1>2. \A i \in DOMAIN queries : queries[i] \in Query
  BY <1>1
<1>3. QED
  BY <1>1, <1>2 DEF Query

\* The steps that change neither the queue nor the sockets.
LEMMA QueueUnchanged ==
    ASSUME Inv, UNCHANGED <<queries, open>>, now' >= now,
           TypeOK', AnswersHandled', OneReplyPerRequest'
    PROVE  Inv'
<1>1. SocketsOwned'
  BY DEF Inv, SocketsOwned, QueriesOf
<1>2. QueueBounded' /\ OldestFirst'
  BY DEF Inv, QueueBounded, OldestFirst
<1>3. QueriesTimed'
  <2>1. now \in Nat /\ now' \in Nat
    BY DEF Inv, TypeOK
  <2>2. \A i \in DOMAIN queries : queries[i].time \in Nat
    BY QueryTyped DEF Inv
  <2>3. \A i \in DOMAIN queries : queries[i].time <= now
    BY DEF Inv, QueriesTimed
  <2>4. QED
    BY <2>1, <2>2, <2>3 DEF QueriesTimed
<1>4. QED
  BY <1>1, <1>2, <1>3 DEF Inv

\* AddQuery, the heart of the queue: both limits, then the insertion.
LEMMA ForwardQueryInv ==
    ASSUME Inv, NEW r \in Request, ForwardQuery(r)
    PROVE  Inv'
<1>1. TypeOK /\ QueueBounded /\ SocketsOwned /\ OldestFirst /\ QueriesTimed
      /\ AnswersHandled /\ OneReplyPerRequest
  BY DEF Inv
<1>2. /\ pc = "read" /\ pc' = "poll" /\ r \in unread /\ unread' = unread \ {r}
      /\ UNCHANGED <<now, fresh, written, ready, deviceWrites>>
      /\ AddQuery(r)
  BY DEF ForwardQuery, Reads, After
<1>3. PICK d \in 0 .. Len(queries) :
        /\ queries' \in Seq(Query)
        /\ Len(queries') = Len(queries) - d + 1
        /\ Len(queries) - d <= MAXIMUM_WAITING
        /\ \A i \in 1 .. Len(queries) - d : queries'[i] = queries[d + i]
        /\ queries'[Len(queries) - d + 1] = NewQuery(r)
        /\ open' = (open \ {queries[i].request : i \in 1 .. d}) \cup {r}
        /\ arrived' = arrived \ {queries[i].request : i \in 1 .. d}
  BY <1>1, <1>2, AddQueryEffect
<1>4. /\ DOMAIN queries = 1 .. Len(queries) /\ Len(queries) \in Nat
      /\ \A i \in DOMAIN queries : queries[i].time \in Nat /\ queries[i].request \in Request
  BY <1>1, QueryTyped
<1> DEFINE n == Len(queries) - d
<1>5. n \in Nat /\ DOMAIN queries' = 1 .. n + 1
  BY <1>3, <1>4
\* Each query now in the queue was there before, d places behind, or is new.
<1>6. \A i \in DOMAIN queries' :
         \/ i \in 1 .. n /\ d + i \in DOMAIN queries /\ queries'[i] = queries[d + i]
         \/ i = n + 1 /\ queries'[i] = NewQuery(r)
  BY <1>3, <1>4, <1>5
<1>7. NewQuery(r).request = r /\ NewQuery(r).time = now /\ NewQuery(r).answered = FALSE
  BY DEF NewQuery
<1>8. now \in Nat /\ open = QueriesOf(queries) /\ r \notin open
  BY <1>1, <1>2 DEF TypeOK, SocketsOwned, OneReplyPerRequest
<1> HIDE DEF n
<1>9. TypeOK'
  <2>1. open' \subseteq Request /\ arrived' \subseteq open'
    BY <1>1, <1>3 DEF TypeOK
  <2>2. QED
    BY <1>1, <1>2, <1>3, <2>1 DEF TypeOK, Stage
<1>10. SocketsOwned'
  <2>1. \A i, j \in DOMAIN queries' : queries'[i].request = queries'[j].request => i = j
    <3>1. SUFFICES ASSUME NEW i \in DOMAIN queries', NEW j \in DOMAIN queries',
                          queries'[i].request = queries'[j].request
                   PROVE  i = j
      OBVIOUS
    <3>2. \A x \in DOMAIN queries : queries[x].request # r
      BY <1>8 DEF QueriesOf
    <3>3. \A x, y \in DOMAIN queries : queries[x].request = queries[y].request => x = y
      BY <1>1 DEF SocketsOwned
    <3>4. CASE i = n + 1
      <4>1. queries'[i].request = r
        BY <1>5, <1>6, <1>7, <3>4
      <4>2. QED
        BY <1>6, <3>1, <3>2, <3>4, <4>1
    <3>5. CASE i \in 1 .. n /\ d + i \in DOMAIN queries /\ queries'[i] = queries[d + i]
      <4>1. j \in 1 .. n /\ d + j \in DOMAIN queries /\ queries'[j] = queries[d + j]
        BY <1>6, <1>7, <3>1, <3>2, <3>5
      <4>2. d + i = d + j
        BY <3>1, <3>3, <3>5, <4>1
      <4>3. QED
        BY <1>3, <1>5, <3>5, <4>1, <4>2
    <3>6. QED
      BY <1>6, <3>4, <3>5
  <2>2. open' \subseteq QueriesOf(queries')
    <3>1. SUFFICES ASSUME NEW x \in open' PROVE \E i \in DOMAIN queries' : queries'[i].request = x
      BY DEF QueriesOf
    <3>2. CASE x = r
      BY <1>3, <1>5, <1>7, <3>2 DEF n
    <3>3. CASE x # r
      <4>1. x \in open /\ x \notin {queries[i].request : i \in 1 .. d}
        BY <1>3, <3>1, <3>3
      <4>2. PICK i \in DOMAIN queries : queries[i].request = x
        BY <1>8, <4>1 DEF QueriesOf
      <4>3. i \in d + 1 .. Len(queries)
        BY <1>3, <1>4, <4>1, <4>2
      <4>4. i - d \in 1 .. n /\ d + (i - d) = i
        BY <1>3, <1>4, <4>3 DEF n
      <4>5. queries'[i - d] = queries[i]
        BY <1>3, <4>4 DEF n
      <4>6. QED
        BY <1>5, <4>2, <4>4, <4>5
    <3>4. QED
      BY <3>2, <3>3
  <2>3. QueriesOf(queries') \subseteq open'
    <3>1. SUFFICES ASSUME NEW i \in DOMAIN queries' PROVE queries'[i].request \in open'
      BY DEF QueriesOf
    <3>2. CASE i = n + 1 /\ queries'[i] = NewQuery(r)
      BY <1>3, <1>7, <3>2
    <3>3. CASE i \in 1 .. n /\ d + i \in DOMAIN queries /\ queries'[i] = queries[d + i]
      <4>1. \A x \in 1 .. d : queries[x].request # queries[d + i].request
        <5>1. SUFFICES ASSUME NEW x \in 1 .. d, queries[x].request = queries[d + i].request
                       PROVE  FALSE
          OBVIOUS
        <5>2. x \in DOMAIN queries /\ x # d + i
          BY <1>3, <1>4, <1>5, <3>3
        <5>3. \A y, z \in DOMAIN queries : queries[y].request = queries[z].request => y = z
          BY <1>1 DEF SocketsOwned
        <5>4. QED
          BY <3>3, <5>1, <5>2, <5>3, Zenon
      <4>2. queries[d + i].request \in open
        BY <1>8, <3>3 DEF QueriesOf
      <4>3. QED
        BY <1>3, <3>3, <4>1, <4>2
    <3>4. QED
      BY <1>6, <3>2, <3>3
  <2>4. QED
    BY <2>1, <2>2, <2>3 DEF SocketsOwned
<1>11. QueueBounded'
  BY <1>3, <1>4, DnsAssumption DEF QueueBounded
<1>12. QueriesTimed'
  BY <1>1, <1>2, <1>6, <1>7, <1>8 DEF QueriesTimed
<1>13. OldestFirst'
  <2>1. SUFFICES ASSUME NEW i \in DOMAIN queries', NEW j \in DOMAIN queries', i < j
                 PROVE  queries'[i].time <= queries'[j].time
    BY DEF OldestFirst
  <2>2. i \in 1 .. n /\ d + i \in DOMAIN queries /\ queries'[i] = queries[d + i]
    BY <1>5, <1>6, <2>1
  <2>3. CASE j = n + 1 /\ queries'[j] = NewQuery(r)
    BY <1>1, <1>7, <2>2, <2>3 DEF QueriesTimed
  <2>4. CASE j \in 1 .. n /\ d + j \in DOMAIN queries /\ queries'[j] = queries[d + j]
    BY <1>1, <1>3, <2>1, <2>2, <2>4 DEF OldestFirst
  <2>5. QED
    BY <1>6, <2>3, <2>4
<1>14. AnswersHandled'
  BY <1>1, <1>2, <1>6, <1>7 DEF AnswersHandled
<1>15. OneReplyPerRequest'
  BY <1>1, <1>2, <1>3 DEF OneReplyPerRequest
<1>16. QED
  BY <1>9, <1>10, <1>11, <1>12, <1>13, <1>14, <1>15 DEF Inv

\* One answered query is handled: it leaves the queue, wherever it stands.
LEMMA HandleResponseInv ==
    ASSUME Inv, HandleResponse
    PROVE  Inv'
<1>1. TypeOK /\ QueueBounded /\ SocketsOwned /\ OldestFirst /\ QueriesTimed /\ OneReplyPerRequest
  BY DEF Inv
<1>2. PICK k \in DOMAIN queries :
        /\ queries' = RemoveAt(queries, k)
        /\ open' = open \ {queries[k].request}
        /\ arrived' = arrived \ {queries[k].request}
        /\ deviceWrites' \in {deviceWrites, Append(deviceWrites, queries[k].request)}
  BY DEF HandleResponse, Sockets
<1>3. pc = "responses" /\ UNCHANGED <<now, unread, fresh, written, pc, ready>>
  BY DEF HandleResponse, env
<1>4. /\ DOMAIN queries = 1 .. Len(queries) /\ Len(queries) \in Nat
      /\ \A i \in DOMAIN queries : queries[i].time \in Nat /\ queries[i].request \in Request
  BY <1>1, QueryTyped
<1>5. /\ queries' \in Seq(Query)
      /\ Len(queries') = Len(queries) - 1
      /\ \A i \in 1 .. Len(queries) - 1 :
           queries'[i] = IF i < k THEN queries[i] ELSE queries[i + 1]
  <2>1. queries \in Seq(Query) /\ k \in 1 .. Len(queries) /\ queries' = RemoveAt(queries, k)
    BY <1>1, <1>2, <1>4 DEF TypeOK
  <2>2. QED
    BY <2>1, RemoveAtProperties
\* Each query left was at the same place or one place behind.
<1>6. /\ DOMAIN queries' = 1 .. Len(queries) - 1
      /\ \A i \in DOMAIN queries' : \E m \in DOMAIN queries :
           m # k /\ queries'[i] = queries[m] /\ m = IF i < k THEN i ELSE i + 1
  BY <1>2, <1>4, <1>5
<1> DEFINE r == queries[k].request
<1>7. r \in Request /\ r \in open /\ r \notin open'
  BY <1>1, <1>2, <1>4 DEF SocketsOwned, QueriesOf
<1>8. TypeOK'
  <2>1. Append(deviceWrites, r) \in Seq(Request)
    BY <1>1, <1>7, AppendProperties DEF TypeOK
  <2>2. open' \subseteq Request /\ arrived' \subseteq open' /\ deviceWrites' \in Seq(Request)
    BY <1>1, <1>2, <2>1 DEF TypeOK
  <2>3. QED
    BY <1>1, <1>3, <1>5, <2>2 DEF TypeOK
<1>9. SocketsOwned'
  <2>1. \A i, j \in DOMAIN queries' : queries'[i].request = queries'[j].request => i = j
    <3>1. SUFFICES ASSUME NEW i \in DOMAIN queries', NEW j \in DOMAIN queries',
                          queries'[i].request = queries'[j].request
                   PROVE  i = j
      OBVIOUS
    <3>2. PICK m \in DOMAIN queries : queries'[i] = queries[m] /\ m = IF i < k THEN i ELSE i + 1
      BY <1>6
    <3>3. PICK n \in DOMAIN queries : queries'[j] = queries[n] /\ n = IF j < k THEN j ELSE j + 1
      BY <1>6
    <3>4. m = n
      BY <1>1, <3>1, <3>2, <3>3 DEF SocketsOwned
    <3>5. QED
      BY <1>2, <1>4, <1>6, <3>2, <3>3, <3>4
  <2>2. open' \subseteq QueriesOf(queries')
    <3>1. SUFFICES ASSUME NEW x \in open' PROVE \E i \in DOMAIN queries' : queries'[i].request = x
      BY DEF QueriesOf
    <3>2. PICK m \in DOMAIN queries : queries[m].request = x /\ m # k
      BY <1>1, <1>2, <3>1 DEF SocketsOwned, QueriesOf
    <3>3. CASE m < k
      BY <1>2, <1>4, <1>5, <1>6, <3>2, <3>3
    <3>4. CASE m > k
      <4>1. m - 1 \in 1 .. Len(queries) - 1 /\ (m - 1) + 1 = m /\ ~(m - 1 < k)
        BY <1>2, <1>4, <3>2, <3>4
      <4>2. queries'[m - 1] = queries[m]
        BY <1>5, <4>1
      <4>3. QED
        BY <1>6, <3>2, <4>1, <4>2
    <3>5. QED
      BY <1>2, <1>4, <3>2, <3>3, <3>4
  <2>3. QueriesOf(queries') \subseteq open'
    <3>1. SUFFICES ASSUME NEW i \in DOMAIN queries' PROVE queries'[i].request \in open'
      BY DEF QueriesOf
    <3>2. PICK m \in DOMAIN queries : m # k /\ queries'[i] = queries[m]
      BY <1>6
    <3>3. queries[m].request # r /\ queries[m].request \in open
      BY <1>1, <3>2 DEF SocketsOwned, QueriesOf
    <3>4. QED
      BY <1>2, <3>2, <3>3
  <2>4. QED
    BY <2>1, <2>2, <2>3 DEF SocketsOwned
<1>10. QueueBounded'
  BY <1>1, <1>4, <1>5, DnsAssumption DEF QueueBounded
<1>11. OldestFirst'
  <2>1. SUFFICES ASSUME NEW i \in DOMAIN queries', NEW j \in DOMAIN queries', i < j
                 PROVE  queries'[i].time <= queries'[j].time
    BY DEF OldestFirst
  <2>2. PICK m \in DOMAIN queries : queries'[i] = queries[m] /\ m = IF i < k THEN i ELSE i + 1
    BY <1>6
  <2>3. PICK n \in DOMAIN queries : queries'[j] = queries[n] /\ n = IF j < k THEN j ELSE j + 1
    BY <1>6
  <2>4. m < n
    BY <1>2, <1>4, <1>6, <2>1, <2>2, <2>3
  <2>5. QED
    BY <1>1, <2>2, <2>3, <2>4 DEF OldestFirst
<1>12. QueriesTimed'
  BY <1>1, <1>3, <1>6 DEF QueriesTimed
<1>13. AnswersHandled'
  BY <1>3 DEF AnswersHandled
<1>14. OneReplyPerRequest'
  <2>1. CASE deviceWrites' = deviceWrites
    BY <1>1, <1>2, <1>3, <2>1 DEF OneReplyPerRequest
  <2>2. CASE deviceWrites' = Append(deviceWrites, r)
    <3>1. written \in Seq(Request) /\ deviceWrites \in Seq(Request)
      BY <1>1 DEF TypeOK
    <3>2. Replies \in Seq(Request)
      BY <3>1, ConcatProperties DEF Replies
    <3>3. written' \o deviceWrites' = Append(Replies, r)
      BY <1>3, <1>7, <2>2, <3>1, ReplyQueued DEF Replies
    <3>4. Injective(Replies) /\ r \notin Range(Replies)
      BY <1>1, <1>7 DEF OneReplyPerRequest, Injective, Replies
    <3>5. Injective(Append(Replies, r)) /\ Range(Append(Replies, r)) = Range(Replies) \cup {r}
      BY <1>7, <3>2, <3>4, InjectiveAppend
    <3>6. Range(Replies) \cap open = {} /\ (Range(Replies) \cup open) \cap (unread \cup fresh) = {}
          /\ unread \cap fresh = {}
      BY <1>1 DEF OneReplyPerRequest, Replies
    <3>7. RepliesKept(Append(Replies, r), open', unread', fresh')
      <4>1. (Range(Replies) \cup {r}) \cap open' = {}
        BY <1>2, <1>7, <3>6
      <4>2. (Range(Replies) \cup {r} \cup open') \cap (unread' \cup fresh') = {}
        BY <1>2, <1>3, <1>7, <3>6
      <4>3. unread' \cap fresh' = {}
        BY <1>3, <3>6
      <4>4. QED
        BY <3>5, <4>1, <4>2, <4>3 DEF RepliesKept
    <3>8. QED
      BY <3>3, <3>7, RepliesKeptDef
  <2>3. QED
    BY <1>2, <2>1, <2>2
<1>15. QED
  BY <1>8, <1>9, <1>10, <1>11, <1>12, <1>13, <1>14 DEF Inv

\* What poll sets of a query.
Polled(query, answered) == [query EXCEPT !.answered = answered]

LEMMA PolledProperties ==
    ASSUME NEW query \in Query, NEW answered \in BOOLEAN
    PROVE  /\ Polled(query, answered) \in Query
           /\ Polled(query, answered).request = query.request
           /\ Polled(query, answered).time = query.time
BY DEF Polled, Query

\* poll changes what the queries hold of its answer, and nothing else of them.
LEMMA PollInv ==
    ASSUME Inv, NEW writable \in BOOLEAN, Poll(writable)
    PROVE  Inv'
<1>1. /\ TypeOK /\ QueueBounded /\ SocketsOwned /\ OldestFirst /\ QueriesTimed
      /\ OneReplyPerRequest
  BY DEF Inv
<1>2. /\ pc' = "responses"
      /\ UNCHANGED <<now, unread, fresh, open, arrived, deviceWrites, written>>
      /\ ready' = [read |-> unread # {}, write |-> writable]
  BY DEF Poll, After, env
<1>flags. queries' = [i \in DOMAIN queries |->
                     Polled(queries[i], queries[i].request \in arrived)]
  BY DEF Poll, Polled
<1>3. /\ DOMAIN queries = 1 .. Len(queries)
      /\ Len(queries) \in Nat
      /\ \A i \in DOMAIN queries : queries[i] \in Query
  BY <1>1, QueryTyped
<1>4. /\ DOMAIN queries' = DOMAIN queries
      /\ \A i \in DOMAIN queries :
            /\ queries'[i] \in Query
            /\ queries'[i].request = queries[i].request
            /\ queries'[i].time = queries[i].time
  <2>1. DOMAIN queries' = DOMAIN queries
    BY <1>flags
  <2>2. SUFFICES ASSUME NEW i \in DOMAIN queries
                 PROVE  /\ queries'[i] \in Query
                        /\ queries'[i].request = queries[i].request
                        /\ queries'[i].time = queries[i].time
    BY <2>1
  <2>3. (queries[i].request \in arrived) \in BOOLEAN
    OBVIOUS
  <2>4. queries'[i] = Polled(queries[i], queries[i].request \in arrived)
    BY <1>flags, Zenon
  <2>5. QED
    <3>1. queries[i] \in Query
      BY <1>3
    <3>2. QED
      BY <2>3, <2>4, <3>1, PolledProperties, ZenonT(40)
<1>5. queries' \in Seq(Query) /\ Len(queries') = Len(queries)
  <2>1. queries' \in [1 .. Len(queries) -> Query]
    BY <1>flags, <1>3, <1>4, Zenon
  <2>2. QED
    BY <1>3, <2>1
<1>6. TypeOK'
  BY <1>1, <1>2, <1>5 DEF TypeOK, Stage
<1>7. SocketsOwned'
  BY <1>1, <1>2, <1>4 DEF SocketsOwned, QueriesOf
<1>8. QueueBounded' /\ OldestFirst' /\ QueriesTimed'
  BY <1>1, <1>2, <1>4, <1>5 DEF QueueBounded, OldestFirst, QueriesTimed
<1>9. AnswersHandled'
  BY <1>2 DEF AnswersHandled
<1>10. OneReplyPerRequest'
  BY <1>1, <1>2 DEF OneReplyPerRequest
<1>11. QED
  BY <1>6, <1>7, <1>8, <1>9, <1>10 DEF Inv

\* Writing all the replies moves them from one queue to the other.
LEMMA WriteToDeviceInv ==
    ASSUME Inv, WriteToDevice
    PROVE  Inv'
<1>1. TypeOK /\ AnswersHandled /\ OneReplyPerRequest
  BY DEF Inv
<1>2. /\ pc = "write" /\ pc' = "read"
      /\ UNCHANGED <<now, unread, fresh, queries, open, arrived, ready>>
      /\ written' = written \o deviceWrites
      /\ deviceWrites' = SubSeq(deviceWrites, Len(deviceWrites) + 1, Len(deviceWrites))
  BY DEF WriteToDevice, After, env, Unwritten
<1>3. written \in Seq(Request) /\ deviceWrites \in Seq(Request)
  BY <1>1 DEF TypeOK
<1>4. deviceWrites' = <<>>
  <2>1. Len(deviceWrites) \in 0 .. Len(deviceWrites)
    BY <1>3
  <2>2. deviceWrites' \in Seq(Request) /\ Len(deviceWrites') = Len(deviceWrites) - Len(deviceWrites)
    BY <1>2, <1>3, <2>1, SuffixProperties
  <2>3. QED
    BY <1>3, <2>2, EmptySeq
<1>5. Replies \in Seq(Request) /\ Replies \o <<>> = Replies
  BY <1>3, ConcatProperties, ConcatEmptySeq DEF Replies
<1>6. written' = Replies /\ written' \o deviceWrites' = Replies
  BY <1>2, <1>4, <1>5 DEF Replies
<1>7. TypeOK'
  BY <1>1, <1>2, <1>4, <1>5, <1>6 DEF TypeOK, Stage
<1>8. OneReplyPerRequest'
  BY <1>1, <1>2, <1>6, RepliesKeptDef
<1>9. AnswersHandled'
  BY <1>1, <1>2 DEF AnswersHandled
<1>10. now' >= now
  BY <1>1, <1>2 DEF TypeOK
<1>11. QED
  BY <1>2, <1>7, <1>8, <1>9, <1>10, QueueUnchanged

\* A write that fails loses one reply and keeps the ones behind it in order.
LEMMA WriteFailsInv ==
    ASSUME Inv, WriteFails
    PROVE  Inv'
<1>1. TypeOK /\ AnswersHandled /\ OneReplyPerRequest
  BY DEF Inv
<1>2. PICK k \in 1 .. Len(deviceWrites) :
        /\ written' = written \o SubSeq(deviceWrites, 1, k - 1)
        /\ deviceWrites' = SubSeq(deviceWrites, k + 1, Len(deviceWrites))
  BY DEF WriteFails, Unwritten
<1>3. /\ pc = "write" /\ pc' = "down"
      /\ UNCHANGED <<now, unread, fresh, queries, open, arrived, ready>>
  BY DEF WriteFails, env
<1>4. written \in Seq(Request) /\ deviceWrites \in Seq(Request) /\ Len(deviceWrites) \in Nat
  BY <1>1 DEF TypeOK
<1>5. written' \in Seq(Request) /\ deviceWrites' \in Seq(Request)
  <2>1. k - 1 \in 0 .. Len(deviceWrites)
    BY <1>4
  <2>2. SubSeq(deviceWrites, 1, k - 1) \in Seq(Request)
    BY <1>4, <2>1, PrefixProperties
  <2>3. SubSeq(deviceWrites, k + 1, Len(deviceWrites)) \in Seq(Request)
    BY <1>4, SuffixProperties
  <2>4. QED
    BY <1>2, <1>4, <2>2, <2>3, ConcatProperties
<1>6. Replies \in Seq(Request) /\ Len(written) + k \in 1 .. Len(Replies)
  BY <1>4, ConcatProperties DEF Replies
<1>7. written' \o deviceWrites' = RemoveAt(Replies, Len(written) + k)
  BY <1>2, <1>4, ReplyLost DEF Replies
<1> DEFINE kept == RemoveAt(Replies, Len(written) + k)
<1>8. RepliesKept(Replies, open, unread, fresh)
  BY <1>1, RepliesKeptDef
<1>9. Injective(kept) /\ Range(kept) \subseteq Range(Replies)
  BY <1>6, <1>8, InjectiveRemoveAt DEF RepliesKept
<1> HIDE DEF kept
<1>10. RepliesKept(kept, open, unread, fresh)
  BY <1>8, <1>9 DEF RepliesKept
<1>11. OneReplyPerRequest'
  BY <1>3, <1>7, <1>10, RepliesKeptDef DEF kept
<1>12. TypeOK' /\ AnswersHandled' /\ now' >= now
  BY <1>1, <1>3, <1>5 DEF TypeOK, Stage, AnswersHandled
<1>13. QED
  BY <1>3, <1>11, <1>12, QueueUnchanged

\* A name answered at once is a reply added behind the others.
LEMMA AnswerLocallyInv ==
    ASSUME Inv, NEW r \in Request, AnswerLocally(r)
    PROVE  Inv'
<1>1. TypeOK /\ AnswersHandled /\ OneReplyPerRequest
  BY DEF Inv
<1>2. /\ pc = "read" /\ pc' = "poll" /\ r \in unread /\ unread' = unread \ {r}
      /\ UNCHANGED <<now, fresh, written, ready, queries, open, arrived>>
      /\ deviceWrites' = Append(deviceWrites, r)
  BY DEF AnswerLocally, Reads, After
<1>3. written \in Seq(Request) /\ deviceWrites \in Seq(Request)
  BY <1>1 DEF TypeOK
<1>4. Replies \in Seq(Request) /\ deviceWrites' \in Seq(Request)
  BY <1>2, <1>3, ConcatProperties, AppendProperties DEF Replies
<1>5. written' \o deviceWrites' = Append(Replies, r)
  BY <1>2, <1>3, ReplyQueued DEF Replies
<1>6. RepliesKept(Replies, open, unread, fresh)
  BY <1>1, RepliesKeptDef
<1>7. Injective(Append(Replies, r)) /\ Range(Append(Replies, r)) = Range(Replies) \cup {r}
  BY <1>2, <1>4, <1>6, InjectiveAppend DEF RepliesKept
<1>8. RepliesKept(Append(Replies, r), open, unread', fresh)
  BY <1>2, <1>6, <1>7 DEF RepliesKept
<1>9. OneReplyPerRequest'
  BY <1>2, <1>5, <1>8, RepliesKeptDef
<1>10. TypeOK' /\ AnswersHandled' /\ now' >= now
  BY <1>1, <1>2, <1>4 DEF TypeOK, Stage, AnswersHandled
<1>11. QED
  BY <1>2, <1>9, <1>10, QueueUnchanged

\* The steps of the environment and those that only move the worker on.
LEMMA OtherInv ==
    ASSUME Inv,
           \/ Environment
           \/ PollTimesOut \/ PollFails \/ EndResponses \/ SkipWrite \/ SkipRead
           \/ ReadFails \/ Reconnect
           \/ \E r \in Request : Discard(r) \/ ForwardFails(r)
    PROVE  Inv'
<1>1. TypeOK /\ AnswersHandled /\ OneReplyPerRequest
  BY DEF Inv
<1>2. /\ UNCHANGED <<queries, open, deviceWrites, written>>
      /\ ready' = ready
  BY DEF Environment, AppSends, ServerAnswers, Tick, PollTimesOut, PollFails, EndResponses,
         SkipWrite, SkipRead, ReadFails, Reconnect, Discard, ForwardFails, Reads, env
<1>3. now' \in Nat /\ now' >= now
  BY <1>1 DEF TypeOK, Environment, AppSends, ServerAnswers, Tick, PollTimesOut, PollFails,
     EndResponses, SkipWrite, SkipRead, ReadFails, Reconnect, Discard, ForwardFails, Reads, env
<1>4. /\ unread' \cup fresh' \subseteq unread \cup fresh
      /\ unread' \cap fresh' = {}
  BY <1>1 DEF OneReplyPerRequest, Environment, AppSends, ServerAnswers, Tick, PollTimesOut,
     PollFails, EndResponses, SkipWrite, SkipRead, ReadFails, Reconnect, Discard,
     ForwardFails, Reads, env
<1>5. arrived' \subseteq open
  BY <1>1 DEF TypeOK, Environment, AppSends, ServerAnswers, Tick, PollTimesOut, PollFails,
     EndResponses, SkipWrite, SkipRead, ReadFails, Reconnect, Discard, ForwardFails, Reads, env
<1>6. pc' \in Stage /\ (pc' # "responses" => \A i \in DOMAIN queries : ~queries[i].answered)
  BY <1>1 DEF TypeOK, AnswersHandled, Stage, After, Environment, AppSends, ServerAnswers, Tick,
     PollTimesOut, PollFails, EndResponses, SkipWrite, SkipRead, ReadFails, Reconnect,
     Discard, ForwardFails, Reads, env
<1>7. TypeOK'
  BY <1>1, <1>2, <1>3, <1>4, <1>5, <1>6 DEF TypeOK
<1>8. AnswersHandled'
  BY <1>2, <1>6 DEF AnswersHandled
<1>9. OneReplyPerRequest'
  BY <1>1, <1>2, <1>4 DEF OneReplyPerRequest
<1>10. QED
  BY <1>2, <1>3, <1>7, <1>8, <1>9, QueueUnchanged

\* Inv is inductive.
LEMMA NextInv == Inv /\ [Next]_vars => Inv'
<1> SUFFICES ASSUME Inv, [Next]_vars PROVE Inv'
  OBVIOUS
<1>1. CASE UNCHANGED vars
  <2>1. UNCHANGED <<queries, open, now, deviceWrites, written, unread, fresh, pc, arrived, ready>>
    BY <1>1 DEF vars
  <2>2. TypeOK' /\ AnswersHandled' /\ OneReplyPerRequest' /\ now' >= now
    BY <2>1 DEF Inv, TypeOK, AnswersHandled, OneReplyPerRequest
  <2>3. QED
    BY <2>1, <2>2, QueueUnchanged
<1>2. CASE \E writable \in BOOLEAN : Poll(writable)
  BY <1>2, PollInv
<1>3. CASE HandleResponse
  BY <1>3, HandleResponseInv
<1>4. CASE WriteToDevice
  BY <1>4, WriteToDeviceInv
<1>5. CASE WriteFails
  BY <1>5, WriteFailsInv
<1>6. CASE \E r \in Request : AnswerLocally(r)
  BY <1>6, AnswerLocallyInv
<1>7. CASE \E r \in Request : ForwardQuery(r)
  BY <1>7, ForwardQueryInv
<1>8. CASE \/ Environment
           \/ PollTimesOut \/ PollFails \/ EndResponses \/ SkipWrite \/ SkipRead
           \/ ReadFails \/ Reconnect
           \/ \E r \in Request : Discard(r) \/ ForwardFails(r)
  BY <1>8, OtherInv
<1>9. QED
  BY <1>1, <1>2, <1>3, <1>4, <1>5, <1>6, <1>7, <1>8 DEF Next, Worker

\* The invariant holds in every state of every run.
LEMMA SpecInv == Spec => []Inv
BY InitInv, NextInv, PTL DEF Spec

-----------------------------------------------------------------------------
(* What the runs check on small instances, for every instance.             *)

\* The queue, the sockets and the replies are well formed whatever the
\* worker, the applications, the servers and the clock do.
THEOREM Types == Spec => []TypeOK
<1>1. Inv => TypeOK
  BY DEF Inv
<1>2. QED
  BY SpecInv, <1>1, PTL

\* addQuery, handleResponses and the error paths of the worker neither leak
\* the socket of a query nor leave a query with a closed one.
THEOREM SocketsOwnedTheorem == Spec => []SocketsOwned
<1>1. Inv => SocketsOwned
  BY DEF Inv
<1>2. QED
  BY SpecInv, <1>1, PTL

\* ensureFreeSpace bounds the queue by one query above DNS_MAXIMUM_WAITING.
THEOREM QueueBoundedTheorem == Spec => []QueueBounded
<1>1. Inv => QueueBounded
  BY DEF Inv
<1>2. QED
  BY SpecInv, <1>1, PTL

\* The queue stays in the order of the clock, which clearTimedOutQueries
\* relies on, although handleResponses removes queries anywhere in it.
THEOREM OldestFirstTheorem == Spec => []OldestFirst
<1>1. Inv => OldestFirst
  BY DEF Inv
<1>2. QED
  BY SpecInv, <1>1, PTL

\* No packet has two replies, and none is replied to while it is forwarded.
THEOREM OneReplyTheorem == Spec => []OneReplyPerRequest
<1>1. Inv => OneReplyPerRequest
  BY DEF Inv
<1>2. QED
  BY SpecInv, <1>1, PTL

-----------------------------------------------------------------------------
(* What a step may do to the queue.                                        *)

\* The queue changes in poll, in handleResponses and in addQuery only.
LEMMA QueueSteps ==
    ASSUME [Next]_vars
    PROVE  \/ queries' = queries
           \/ \E writable \in BOOLEAN : Poll(writable)
           \/ HandleResponse
           \/ \E r \in Request : ForwardQuery(r)
BY DEF Next, Environment, Worker, AppSends, ServerAnswers, Tick, PollTimesOut, PollFails,
       EndResponses, WriteToDevice, WriteFails, SkipWrite, SkipRead, ReadFails, Reconnect,
       AnswerLocally, Discard, ForwardFails, env, vars

\* poll changes no request of the queue.
LEMMA PollKeepsRequests ==
    ASSUME NEW writable \in BOOLEAN, Poll(writable), TypeOK
    PROVE  QueriesOf(queries') = QueriesOf(queries)
<1>1. queries' = [i \in DOMAIN queries |->
                    Polled(queries[i], queries[i].request \in arrived)]
  BY DEF Poll, Polled
<1>2. SUFFICES ASSUME NEW i \in DOMAIN queries
               PROVE  queries'[i].request = queries[i].request
  BY <1>1 DEF QueriesOf
<1>3. (queries[i].request \in arrived) \in BOOLEAN
  OBVIOUS
<1>4. queries'[i] = Polled(queries[i], queries[i].request \in arrived)
  BY <1>1, Zenon
<1>5. queries[i] \in Query
  BY QueryTyped
<1>6. QED
  BY <1>3, <1>4, <1>5, PolledProperties, ZenonT(40)

\* handleResponses takes out the first answered query only.
LEMMA HandleResponseKeeps ==
    ASSUME TypeOK, HandleResponse, NEW i \in DOMAIN queries, ~queries[i].answered
    PROVE  queries[i].request \in QueriesOf(queries')
<1>1. PICK k \in DOMAIN queries : queries[k].answered /\ queries' = RemoveAt(queries, k)
  BY DEF HandleResponse, NextAnswered
<1>2. DOMAIN queries = 1 .. Len(queries) /\ Len(queries) \in Nat /\ queries \in Seq(Query)
  BY QueryTyped DEF TypeOK
<1>3. /\ queries' \in Seq(Query)
      /\ Len(queries') = Len(queries) - 1
      /\ \A j \in 1 .. Len(queries) - 1 :
           queries'[j] = IF j < k THEN queries[j] ELSE queries[j + 1]
  BY <1>1, <1>2, RemoveAtProperties
<1>4. DOMAIN queries' = 1 .. Len(queries) - 1
  BY <1>3
<1>5. i # k
  BY <1>1
<1>6. CASE i < k
  BY <1>1, <1>2, <1>3, <1>4, <1>6 DEF QueriesOf
<1>7. CASE i > k
  <2>1. i - 1 \in 1 .. Len(queries) - 1 /\ (i - 1) + 1 = i /\ ~(i - 1 < k)
    BY <1>1, <1>2, <1>7
  <2>2. queries'[i - 1] = queries[i]
    BY <1>3, <2>1
  <2>3. QED
    BY <1>4, <2>1, <2>2 DEF QueriesOf
<1>8. QED
  BY <1>1, <1>2, <1>5, <1>6, <1>7

\* addQuery keeps the queries behind the d it drops.
LEMMA AddQueryKeeps ==
    ASSUME Inv, NEW r \in Request, ForwardQuery(r)
    PROVE  \E k, d \in 0 .. Len(queries) :
             /\ ClearsTimedOut(k)
             /\ d = k + Overflow(Len(queries) - k)
             /\ DOMAIN queries' = 1 .. Len(queries) - d + 1
             /\ \A i \in 1 .. Len(queries) - d : queries'[i] = queries[d + i]
             /\ queries'[Len(queries) - d + 1] = NewQuery(r)
             /\ \A i \in d + 1 .. Len(queries) : queries[i].request \in QueriesOf(queries')
<1>1. AddQuery(r)
  BY DEF ForwardQuery
<1>2. PICK k, d \in 0 .. Len(queries) :
             /\ ClearsTimedOut(k)
             /\ d = k + Overflow(Len(queries) - k)
             /\ queries' \in Seq(Query)
             /\ Len(queries') = Len(queries) - d + 1
             /\ \A i \in 1 .. Len(queries) - d : queries'[i] = queries[d + i]
             /\ queries'[Len(queries) - d + 1] = NewQuery(r)
  BY <1>1, AddQueryEffect DEF Inv
<1>3. DOMAIN queries' = 1 .. Len(queries) - d + 1 /\ Len(queries) \in Nat
  BY <1>2, QueryTyped DEF Inv
<1>4. ASSUME NEW i \in d + 1 .. Len(queries)
      PROVE  queries[i].request \in QueriesOf(queries')
  <2>1. i - d \in 1 .. Len(queries) - d /\ d + (i - d) = i
    BY <1>2, <1>3
  <2>2. queries'[i - d] = queries[i]
    BY <1>2, <2>1
  <2>3. i - d \in DOMAIN queries'
    BY <1>2, <1>3, <2>1
  <2>4. QED
    BY <2>2, <2>3 DEF QueriesOf
<1>5. QED
  BY <1>2, <1>3, <1>4

\* The responses are handled before the tunnel is read: no query poll
\* reported an answer for is dropped by the insertion of another one.
THEOREM NoAnswerDiscardedTheorem == Spec => NoAnswerDiscarded
<1> DEFINE A == \A i \in DOMAIN queries :
                  queries[i].answered /\ queries[i].request \notin QueriesOf(queries')
                      => pc = "responses"
<1>1. Inv /\ [Next]_vars => A
  <2>1. SUFFICES ASSUME Inv, [Next]_vars, NEW i \in DOMAIN queries, queries[i].answered,
                        queries[i].request \notin QueriesOf(queries'), pc # "responses"
                 PROVE  FALSE
    OBVIOUS
  <2>2. QED
    BY <2>1 DEF Inv, AnswersHandled
<1>2. QED
  BY SpecInv, <1>1, PTL DEF Spec, NoAnswerDiscarded

\* A query without an answer leaves the queue because it timed out, or as the
\* oldest one of a queue above its limit.
THEOREM GivesUpOldestOnlyTheorem == Spec => GivesUpOldestOnly
<1> DEFINE A == \A i \in DOMAIN queries :
                  \/ queries[i].request \in QueriesOf(queries')
                  \/ queries[i].answered
                  \/ queries[i].time < now - TIMEOUT_SEC
                  \/ /\ \A j \in 1 .. i - 1 : queries[j].time < now - TIMEOUT_SEC
                     /\ Len(queries) - (i - 1) > MAXIMUM_WAITING
<1>1. Inv /\ [Next]_vars => A
  <2>1. SUFFICES ASSUME Inv, [Next]_vars, NEW i \in DOMAIN queries, ~queries[i].answered,
                        queries[i].request \notin QueriesOf(queries'),
                        ~(queries[i].time < now - TIMEOUT_SEC)
                 PROVE  /\ \A j \in 1 .. i - 1 : queries[j].time < now - TIMEOUT_SEC
                        /\ Len(queries) - (i - 1) > MAXIMUM_WAITING
    OBVIOUS
  <2>2. TypeOK
    BY <2>1 DEF Inv
  <2>3. queries[i].request \in QueriesOf(queries)
    BY <2>1 DEF QueriesOf
  <2>4. PICK r \in Request : ForwardQuery(r)
    <3>1. queries' # queries
      BY <2>1, <2>3
    <3>2. ~ \E writable \in BOOLEAN : Poll(writable)
      BY <2>1, <2>2, <2>3, PollKeepsRequests
    <3>3. ~ HandleResponse
      BY <2>1, <2>2, HandleResponseKeeps
    <3>4. QED
      BY <2>1, <3>1, <3>2, <3>3, QueueSteps
  <2>5. PICK k, d \in 0 .. Len(queries) :
             /\ ClearsTimedOut(k)
             /\ d = k + Overflow(Len(queries) - k)
             /\ \A x \in d + 1 .. Len(queries) : queries[x].request \in QueriesOf(queries')
    BY <2>1, <2>4, AddQueryKeeps
  <2>6. DOMAIN queries = 1 .. Len(queries) /\ Len(queries) \in Nat
    BY <2>2, QueryTyped
  <2>7. i <= d
    BY <2>1, <2>5, <2>6
  <2>8. \A j \in 1 .. k : queries[j].time < now - TIMEOUT_SEC
    BY <2>5 DEF ClearsTimedOut, TimedOut
  <2>9. i > k
    BY <2>1, <2>6, <2>8
  <2>10. i = k + 1 /\ Len(queries) - k > MAXIMUM_WAITING
    BY <2>5, <2>6, <2>7, <2>9, DnsAssumption DEF Overflow
  <2>11. QED
    BY <2>5, <2>6, <2>8, <2>10, DnsAssumption
<1>2. QED
  BY SpecInv, <1>1, PTL DEF Spec, GivesUpOldestOnly

\* Once a query is added, no query of the queue is timed out: stopping at the
\* first query that is not timed out is enough, as the queue is in order.
THEOREM InsertionPurgesTheorem == Spec => InsertionPurges
<1> DEFINE A == pc = "read" /\ queries' # queries =>
                  \A i \in DOMAIN queries' : queries'[i].time >= now - TIMEOUT_SEC
<1>1. Inv /\ [Next]_vars => A
  <2>1. SUFFICES ASSUME Inv, [Next]_vars, pc = "read", queries' # queries,
                        NEW i \in DOMAIN queries'
                 PROVE  queries'[i].time >= now - TIMEOUT_SEC
    OBVIOUS
  <2>2. TypeOK /\ OldestFirst /\ now \in Nat /\ TIMEOUT_SEC \in Nat
    BY <2>1, DnsAssumption DEF Inv, TypeOK
  <2>3. PICK r \in Request : ForwardQuery(r)
    <3>1. ~ \E writable \in BOOLEAN : Poll(writable)
      BY <2>1 DEF Poll
    <3>2. ~ HandleResponse
      BY <2>1 DEF HandleResponse
    <3>3. QED
      BY <2>1, <3>1, <3>2, QueueSteps
  <2>4. PICK k, d \in 0 .. Len(queries) :
             /\ ClearsTimedOut(k)
             /\ d = k + Overflow(Len(queries) - k)
             /\ DOMAIN queries' = 1 .. Len(queries) - d + 1
             /\ \A x \in 1 .. Len(queries) - d : queries'[x] = queries[d + x]
             /\ queries'[Len(queries) - d + 1] = NewQuery(r)
    BY <2>1, <2>3, AddQueryKeeps
  <2>5. /\ DOMAIN queries = 1 .. Len(queries) /\ Len(queries) \in Nat
        /\ \A x \in DOMAIN queries : queries[x].time \in Nat
    BY <2>2, QueryTyped
  <2>6. CASE i = Len(queries) - d + 1
    BY <2>2, <2>4, <2>6 DEF NewQuery
  <2>7. CASE i # Len(queries) - d + 1
    <3>1. i \in 1 .. Len(queries) - d /\ d >= k /\ d + i \in 1 .. Len(queries)
      BY <2>4, <2>5, <2>7 DEF Overflow
    <3>2. k < Len(queries) /\ k + 1 \in DOMAIN queries /\ k + 1 <= d + i
      BY <2>4, <2>5, <3>1
    <3>3. ~(queries[k + 1].time < now - TIMEOUT_SEC)
      BY <2>4, <3>2 DEF ClearsTimedOut, TimedOut
    <3>4. queries[k + 1].time <= queries[d + i].time
      <4>1. CASE k + 1 = d + i
        BY <2>5, <3>2, <4>1
      <4>2. CASE k + 1 < d + i
        BY <2>2, <2>5, <3>1, <3>2, <4>2 DEF OldestFirst
      <4>3. QED
        BY <2>5, <3>1, <3>2, <4>1, <4>2
    <3>5. queries'[i] = queries[d + i]
      BY <2>4, <3>1
    <3>6. queries[k + 1].time \in Nat /\ queries[d + i].time \in Nat
      BY <2>5, <3>1, <3>2
    <3>7. queries[d + i].time >= now - TIMEOUT_SEC
      BY <2>2, <3>3, <3>4, <3>6
    <3>8. QED
      BY <3>5, <3>7
  <2>8. QED
    BY <2>6, <2>7
<1>2. QED
  BY SpecInv, <1>1, PTL DEF Spec, InsertionPurges
=============================================================================
