----------------------------- MODULE RetriesProofs -----------------------------
(***************************************************************************)
(* Retries for any sizes and limits, any number of devices, messages and   *)
(* goroutines: the ring keeps the last messages, resends are bounded,      *)
(* sessions are recreated once, no retry receipt repeats a count, and a    *)
(* decrypted message cancels the request to the phone.                     *)
(***************************************************************************)
EXTENDS Retries, SequenceTheorems, FiniteSetTheorems, TLAPS

-------------------------------------------------------------------------------
(* The inductive invariant *)

\* Where the message in place i of the ring is in the order of arrival.
Arrival(i) == IF Len(order) < RecentSize THEN i
              ELSE IF i <= recent.ptr THEN Len(order) - recent.ptr + i
              ELSE Len(order) - recent.ptr - RecentSize + i

\* recentMessagesList is a ring over the last arrivals, recentMessagesPtr its
\* oldest place, and recentMessagesMap has its keys.
RingInv ==
    /\ recent \in [list : Seq(Keys), ptr : 0..(RecentSize - 1), map : SUBSET Keys]
    /\ order \in Seq(Keys)
    /\ Len(recent.list) = IF Len(order) < RecentSize THEN Len(order) ELSE RecentSize
    /\ Len(order) < RecentSize => recent.ptr = 0
    /\ \A i \in 1..Len(recent.list) : recent.list[i] = order[Arrival(i)]
    /\ recent.map = Range(recent.list) /\ IsInjective(recent.list)

CounterType(K) == [n : [K -> Nat], at : Nat, clears : Nat]
Requests == Devices \X Keys
HandlerType == [pc : {"idle", "lookup", "count", "session", "fetch", "send"},
                dev : Devices \cup {None}, key : Keys \cup {None}, count : Nat, bundle : BOOLEAN]

\* The goroutines that have passed the counter with request x and are not done.
Passes(r, x) == r.pc \in {"session", "fetch", "send"} /\ <<r.dev, r.key>> = x
Passing(x) == {h \in Handlers : Passes(hnd[h], x)}

\* How many may have passed since the start.
Allowed(x) == IF asked.clears = 0 THEN 0
              ELSE (InLimit - 1) * (asked.clears - 1)
                     + (IF asked.n[x] < InLimit THEN asked.n[x] ELSE InLimit - 1)

RequestInv ==
    /\ now \in Nat \ {0} /\ session \subseteq Devices
    /\ asked \in CounterType(Requests) /\ (asked.clears = 0 => asked.at = Never)
    /\ hnd \in [Handlers -> HandlerType]
    /\ \A h \in Handlers : hnd[h].pc # "idle" => hnd[h].dev \in Devices /\ hnd[h].key \in Keys
    /\ resent \in [Requests -> Nat]
    /\ \A x \in Requests : /\ IsFiniteSet(Passing(x))
                           /\ resent[x] + Cardinality(Passing(x)) <= Allowed(x)

AgainType == [n : Nat, missed : Nat]

\* A session was recreated in spite of one in the current window: it is noted.
RecreateInv ==
    /\ recreated \in [Devices -> Nat] /\ again \in [Devices -> AgainType]
    /\ \A d \in Devices : /\ again[d].n <= again[d].missed + 1
                          /\ again[d].n > 0 => recreated[d] = now

AskerType == [pc : {"idle", "count", "send"}, m : Msgs \cup {None}, count : Nat, clear : Nat]
Receipt(a) == <<ask[a].m, ask[a].clear, ask[a].count>>

\* A retry receipt is not above counter c: it is of an earlier window, or has a
\* count the counter has reached.
Below(x, c) == x[2] < c.clears \/ (x[2] = c.clears /\ x[3] <= c.n[x[1]])
Counts(x) == Below(x, retries)

ReceiptInv ==
    /\ retries \in CounterType(Msgs) /\ ask \in [Askers -> AskerType]
    /\ \A a \in Askers : ask[a].pc # "idle" => ask[a].m \in Msgs
    /\ receipts \subseteq Msgs \X Nat \X Nat /\ twice = FALSE
    /\ \A x \in receipts : Counts(x)
    /\ \A a \in Askers : ask[a].pc = "send" => Counts(Receipt(a)) /\ Receipt(a) \notin receipts
    /\ \A a, b \in Askers : a # b /\ ask[a].pc = "send" /\ ask[b].pc = "send"
                               => Receipt(a) # Receipt(b)

PhoneType == [pc : {"idle", "begin", "wait", "request", "delete"}, m : Msgs \cup {None},
              cancelled : BOOLEAN, late : BOOLEAN]

\* A goroutine that waits is the one pendingPhoneRerequests has for its message.
PhoneInv ==
    /\ read \subseteq Msgs /\ owed \subseteq Msgs
    /\ pending \in [Msgs -> Phones \cup {None}] /\ phone \in [Phones -> PhoneType]
    /\ \A p \in Phones :
          /\ phone[p].pc # "idle" => phone[p].m \in Msgs
          /\ phone[p].pc \in {"wait", "request", "delete"} => pending[phone[p].m] = p
    /\ CancelReaches

\* The maps of cache.go hold no more than their limits.
SizeInv ==
    /\ IsFiniteSet(Held(asked.n)) /\ Cardinality(Held(asked.n)) <= InEntries
    /\ IsFiniteSet(Held(recreated)) /\ Cardinality(Held(recreated)) <= History
    /\ IsFiniteSet(Held(retries.n)) /\ Cardinality(Held(retries.n)) <= OutEntries

IInv == RingInv /\ RequestInv /\ RecreateInv /\ ReceiptInv /\ PhoneInv /\ SizeInv
-------------------------------------------------------------------------------
(* The ring *)

\* The sizes and limits of the client are positive.
LEMMA Sizes ==
    /\ RecentSize \in Nat /\ RecentSize >= 1 /\ InLimit \in Nat /\ InLimit >= 1
    /\ InEntries \in Nat /\ InEntries >= 1 /\ History \in Nat /\ History >= 1
    /\ OutEntries \in Nat /\ OutEntries >= 1 /\ OutLimit \in Nat
  BY SizeAssumption

\* addRecentMessage: whatever else happens, only SendMessage touches the ring.
LEMMA RingStep == RingInv /\ [Next]_vars => RingInv'
<1> SUFFICES ASSUME RingInv, [Next]_vars PROVE RingInv'
  OBVIOUS
<1>1. CASE UNCHANGED <<recent, order>>
  BY <1>1 DEF RingInv, Arrival
<1>2. ASSUME NEW k \in Keys, SendMessage(k) PROVE RingInv'
  <2>0. /\ recent' = Remembered(k)
        /\ order' = IF k \in recent.map THEN order ELSE Append(order, k)
    BY <1>2 DEF SendMessage
  <2>1. /\ recent.list \in Seq(Keys) /\ order \in Seq(Keys) /\ recent.map \subseteq Keys
        /\ recent.ptr \in Nat /\ recent.ptr < RecentSize
        /\ DOMAIN recent.list = 1..Len(recent.list) /\ Len(recent.list) \in Nat
        /\ Len(order) \in Nat
        /\ recent \in [list : Seq(Keys), ptr : 0..(RecentSize - 1), map : SUBSET Keys]
    BY Sizes, LenProperties DEF RingInv
  <2>2. CASE k \in recent.map
    BY <1>1, <2>0, <2>2 DEF Remembered
  <2>3. CASE k \notin recent.map
    <3> DEFINE N == Len(order)
               L == recent.list
    <3>1. order' = Append(order, k) /\ order' \in Seq(Keys) /\ Len(order') = N + 1
          /\ order'[N + 1] = k /\ \A j \in 1..N : order'[j] = order[j]
      BY <2>0, <2>1, <2>3, AppendProperties
    <3>2. \A i \in 1..Len(L) : L[i] # k
      BY <2>1, <2>3 DEF RingInv, Range
    <3>3. CASE Len(L) < RecentSize
      <4>1. /\ recent'.list = Append(L, k) /\ recent'.ptr = recent.ptr
            /\ recent'.map = recent.map \cup {k}
            /\ recent' \in [list : Seq(Keys), ptr : 0..(RecentSize - 1), map : SUBSET Keys]
        <5>1. recent' = [recent EXCEPT !.list = Append(@, k), !.map = @ \cup {k}]
          BY <2>0, <2>3, <3>3 DEF Remembered
        <5>2. Append(L, k) \in Seq(Keys) /\ recent.map \cup {k} \subseteq Keys
          BY <2>1, AppendProperties
        <5> QED BY <2>1, <5>1, <5>2
      <4>2. N < RecentSize /\ Len(L) = N /\ recent.ptr = 0
        BY <2>1, <3>3, Sizes DEF RingInv
      <4>3. /\ Len(recent'.list) = N + 1 /\ recent'.list[N + 1] = k
            /\ \A i \in 1..N : recent'.list[i] = L[i]
        BY <2>1, <4>1, <4>2, AppendProperties
      <4>4. \A i \in 1..N : L[i] = order[i]
        BY <4>2 DEF RingInv, Arrival
      <4>5. \A i \in 1..(N + 1) : Arrival(i)' = i
        <5> SUFFICES ASSUME NEW i \in 1..(N + 1) PROVE Arrival(i)' = i
          OBVIOUS
        <5>1. Arrival(i)' = IF N + 1 < RecentSize THEN i
                            ELSE IF i <= 0 THEN N + 1 - 0 + i
                            ELSE N + 1 - 0 - RecentSize + i
          <6>1. Len(order') = N + 1 /\ recent'.ptr = 0
            BY <3>1, <4>1, <4>2
          <6>2. Arrival(i)' = IF Len(order') < RecentSize THEN i
                              ELSE IF i <= recent'.ptr THEN Len(order') - recent'.ptr + i
                              ELSE Len(order') - recent'.ptr - RecentSize + i
            BY DEF Arrival
          <6>3. N \in Int /\ i \in Int
            BY <2>1
          <6> HIDE DEF N
          <6> QED BY <6>1, <6>2, <6>3, Sizes
        <5>2. N + 1 < RecentSize \/ N + 1 = RecentSize
          BY <2>1, <4>2, Sizes
        <5>3. i \in Int /\ i > 0 /\ N \in Int
          BY <2>1
        <5> HIDE DEF N
        <5> QED BY <5>1, <5>2, <5>3, Sizes
      <4>6. \A i \in 1..Len(recent'.list) : recent'.list[i] = order'[Arrival(i)']
        <5> SUFFICES ASSUME NEW i \in 1..(N + 1) PROVE recent'.list[i] = order'[i]
          BY <4>3, <4>5
        <5>1. CASE i = N + 1
          BY <3>1, <4>3, <5>1
        <5>2. CASE i # N + 1
          BY <2>1, <3>1, <4>3, <4>4, <5>2
        <5> QED BY <5>1, <5>2
      <4>7. DOMAIN recent'.list = 1..(N + 1)
        BY <2>1, <4>1, <4>3, AppendProperties
      <4>8. recent'.map = Range(recent'.list)
        <5>1. recent.map = {L[i] : i \in 1..N}
          BY <2>1, <4>2 DEF RingInv, Range
        <5>2. Range(recent'.list) = {recent'.list[i] : i \in 1..(N + 1)}
          BY <4>7 DEF Range
        <5> QED BY <2>1, <4>1, <4>3, <5>1, <5>2
      <4>9. IsInjective(recent'.list)
        <5>1. \A i, j \in 1..N : L[i] = L[j] => i = j
          BY <2>1, <4>2 DEF RingInv, IsInjective
        <5> QED BY <2>1, <3>2, <4>2, <4>3, <4>7, <5>1 DEF IsInjective
      <4>10. Len(order') < RecentSize => recent'.ptr = 0
        BY <4>1, <4>2
      <4>11. Len(recent'.list) = IF Len(order') < RecentSize THEN Len(order') ELSE RecentSize
        BY <2>1, <3>1, <4>2, <4>3, Sizes
      <4> QED BY <3>1, <4>1, <4>6, <4>8, <4>9, <4>10, <4>11 DEF RingInv
    <3>4. CASE ~(Len(L) < RecentSize)
      <4>1. N >= RecentSize /\ Len(L) = RecentSize
        BY <2>1, <3>4, Sizes DEF RingInv
      <4> DEFINE q == recent.ptr + 1
      <4>2. q \in 1..RecentSize
        BY <2>1, Sizes
      <4>3. PICK q2 : q2 = q % RecentSize /\ q2 = IF q < RecentSize THEN q ELSE 0
        <5>1. q < RecentSize => q % RecentSize = q
          BY <4>2, Sizes
        <5>2. q = RecentSize => q % RecentSize = 0
          BY <4>2, Sizes
        <5> QED BY <4>2, <5>1, <5>2, Sizes
      <4>4. /\ recent'.list = [L EXCEPT ![q] = k] /\ recent'.ptr = q2
            /\ recent'.map = (recent.map \ {L[q]}) \cup {k}
            /\ recent' \in [list : Seq(Keys), ptr : 0..(RecentSize - 1), map : SUBSET Keys]
        <5>1. recent' = [list |-> [L EXCEPT ![q] = k], ptr |-> q2, map |-> (recent.map \ {L[q]}) \cup {k}]
          BY <2>0, <2>3, <3>4, <4>3 DEF Remembered
        <5>2. [L EXCEPT ![q] = k] \in Seq(Keys)
          BY <2>1, <4>1, <4>2, ExceptSeq
        <5>3. q2 \in 0..(RecentSize - 1)
          BY <4>2, <4>3, Sizes
        <5> QED BY <2>1, <5>1, <5>2, <5>3
      <4>5. /\ DOMAIN recent'.list = 1..RecentSize /\ Len(recent'.list) = RecentSize
            /\ recent'.list[q] = k
            /\ \A i \in 1..RecentSize : i # q => recent'.list[i] = L[i]
        BY <2>1, <4>1, <4>2, <4>4, ExceptSeq, LenProperties
      <4>6. \A i \in 1..RecentSize : recent'.list[i] = order'[Arrival(i)']
        <5> SUFFICES ASSUME NEW i \in 1..RecentSize PROVE recent'.list[i] = order'[Arrival(i)']
          OBVIOUS
        <5>1. Arrival(i)' = IF i <= q2 THEN N + 1 - q2 + i ELSE N + 1 - q2 - RecentSize + i
          BY <2>1, <3>1, <4>1, <4>4, Sizes DEF Arrival
        <5>2. CASE i = q
          <6>1. Arrival(i)' = N + 1
            <7>0. q \in Int /\ q >= 1 /\ q <= RecentSize /\ N \in Int
              BY <2>1, <4>2, Sizes
            <7> HIDE DEF q, N
            <7>1. CASE q < RecentSize
              <8>1. q2 = q
                BY <4>3, <7>1
              <8> QED BY <5>1, <5>2, <7>0, <8>1, Sizes
            <7>2. CASE q = RecentSize
              <8>1. q2 = 0
                BY <4>3, <7>2, Sizes
              <8> QED BY <5>1, <5>2, <7>0, <7>2, <8>1, Sizes
            <7> QED BY <7>0, <7>1, <7>2, Sizes
          <6> QED BY <3>1, <4>5, <5>2, <6>1
        <5>3. CASE i # q
          <6>1. L[i] = order[Arrival(i)]
            BY <4>1 DEF RingInv
          <6>2. Arrival(i) = IF i < q THEN N - q + 1 + i ELSE N - q + 1 - RecentSize + i
            BY <2>1, <4>1, Sizes DEF Arrival
          <6>3. Arrival(i)' = Arrival(i) /\ Arrival(i) \in 1..N
            <7>1. CASE q < RecentSize
              BY <2>1, <4>1, <4>2, <4>3, <5>1, <5>3, <6>2, <7>1, Sizes
            <7>2. CASE ~(q < RecentSize)
              <8>0. q = RecentSize /\ q2 = 0 /\ N \in Int /\ N >= RecentSize
                BY <2>1, <4>1, <4>2, <4>3, <7>2, Sizes
              <8>1. i \in Int /\ i >= 1 /\ i < RecentSize
                BY <5>3, <8>0, Sizes
              <8> HIDE DEF q, N
              <8>2. Arrival(i)' = N + 1 - RecentSize + i
                BY <5>1, <8>0, <8>1, Sizes
              <8>3. Arrival(i) = N - RecentSize + 1 + i
                BY <6>2, <8>0, <8>1, Sizes
              <8> QED BY <8>0, <8>1, <8>2, <8>3, Sizes
            <7> QED BY <7>1, <7>2
          <6> QED BY <3>1, <4>5, <5>3, <6>1, <6>3
        <5> QED BY <5>2, <5>3
      <4>7. \A i, j \in 1..RecentSize : L[i] = L[j] => i = j
        BY <2>1, <4>1 DEF RingInv, IsInjective
      <4>8. recent'.map = Range(recent'.list)
        <5>1. recent.map = {L[i] : i \in 1..RecentSize}
          BY <2>1, <4>1 DEF RingInv, Range
        <5>2. Range(recent'.list) = {recent'.list[i] : i \in 1..RecentSize}
          BY <4>5 DEF Range
        <5> HIDE DEF q, L
        <5>3. ASSUME NEW i \in 1..RecentSize PROVE recent'.list[i] \in recent'.map
          <6>1. CASE i = q
            BY <4>4, <4>5, <6>1
          <6>2. CASE i # q
            BY <4>2, <4>4, <4>5, <4>7, <5>1, <6>2
          <6> QED BY <6>1, <6>2
        <5>4. ASSUME NEW x \in recent'.map PROVE \E i \in 1..RecentSize : x = recent'.list[i]
          <6>1. CASE x = k
            BY <4>2, <4>5, <6>1
          <6>2. CASE x # k
            <7>1. PICK i \in 1..RecentSize : x = L[i] /\ L[i] # L[q]
              BY <4>4, <5>1, <6>2
            <7> QED BY <4>5, <7>1
          <6> QED BY <6>1, <6>2
        <5> QED BY <5>2, <5>3, <5>4
      <4>9. IsInjective(recent'.list)
        BY <3>2, <4>1, <4>2, <4>5, <4>7 DEF IsInjective
      <4>10. ~(Len(order') < RecentSize)
        BY <2>1, <3>1, <4>1, Sizes
      <4> QED BY <3>1, <4>4, <4>5, <4>6, <4>8, <4>9, <4>10 DEF RingInv
    <3> QED BY <3>3, <3>4
  <2> QED BY <2>2, <2>3
<1>3. UNCHANGED <<recent, order>> \/ \E k \in Keys : SendMessage(k)
  BY DEF Next, vars, outVars, HourPasses, Stanza, HandleReceipt, Decrypted, Undecryptable,
     ClearDelayedRequests, LoseSession, HandlerStep, GetMessageForRetry, CountRequest,
     ChooseSession, FetchPreKeys, SendAgain, AskerStep, CountRetry, SendRetryReceipt, PhoneStep,
     RegisterRequest, DelayOver, RequestFromPhone, DeleteRequest, KeepOut
<1> QED BY <1>1, <1>2, <1>3

\* A ring over the last arrivals has exactly their keys.
LEMMA RingKeeps == RingInv => KeepsLast
<1> SUFFICES ASSUME RingInv PROVE KeepsLast
  OBVIOUS
<1> DEFINE N == Len(order)
           L == recent.list
           from == IF N > RecentSize THEN N - RecentSize + 1 ELSE 1
<1>0. /\ L \in Seq(Keys) /\ order \in Seq(Keys) /\ recent.ptr \in Nat /\ recent.ptr < RecentSize
      /\ DOMAIN L = 1..Len(L) /\ Len(L) \in Nat /\ N \in Nat
  BY Sizes, LenProperties DEF RingInv
<1>1. from \in 1..(N + 1)
  BY <1>0, Sizes
<1>2. /\ DOMAIN SubSeq(order, from, N) = 1..(N - from + 1)
      /\ \A i \in 1..(N - from + 1) : SubSeq(order, from, N)[i] = order[from + i - 1]
  <2>1. /\ SubSeq(order, from, N) \in Seq(Keys) /\ Len(SubSeq(order, from, N)) = N - from + 1
    BY <1>0, <1>1, SubSeqProperties
  <2>2. DOMAIN SubSeq(order, from, N) = 1..(N - from + 1)
    BY <2>1, LenProperties
  <2> QED BY <1>0, <1>1, <2>2, SubSeqProperties
<1>3. Range(SubSeq(order, from, N)) = {order[j] : j \in from..N}
  <2>1. Range(SubSeq(order, from, N)) = {order[from + i - 1] : i \in 1..(N - from + 1)}
    BY <1>2 DEF Range
  <2>2. ASSUME NEW j \in from..N PROVE \E i \in 1..(N - from + 1) : j = from + i - 1
    <3>1. j - from + 1 \in 1..(N - from + 1) /\ j = from + (j - from + 1) - 1
      BY <1>0, <1>1
    <3> QED BY <3>1
  <2>3. ASSUME NEW i \in 1..(N - from + 1) PROVE from + i - 1 \in from..N
    BY <1>0, <1>1
  <2> HIDE DEF from
  <2> QED BY <2>1, <2>2, <2>3
<1>4. recent.map = {L[i] : i \in 1..Len(L)}
  BY <1>0 DEF RingInv, Range
<1>5. ASSUME NEW i \in 1..Len(L) PROVE Arrival(i) \in from..N /\ L[i] = order[Arrival(i)]
  <2>1. CASE N < RecentSize
    BY <1>0, <2>1, Sizes DEF RingInv, Arrival
  <2>2. CASE ~(N < RecentSize)
    <3>1. i \in 1..RecentSize
      BY <2>2 DEF RingInv
    <3>2. Arrival(i) \in from..N
      BY <1>0, <2>2, <3>1, Sizes DEF Arrival
    <3> QED BY <3>2 DEF RingInv
  <2> QED BY <2>1, <2>2
<1>6. ASSUME NEW j \in from..N PROVE \E i \in 1..Len(L) : j = Arrival(i)
  <2>1. CASE N < RecentSize
    <3>1. j \in 1..Len(L) /\ Arrival(j) = j
      BY <1>0, <2>1, Sizes DEF RingInv, Arrival
    <3> QED BY <3>1
  <2>2. CASE ~(N < RecentSize)
    <3>0. Len(L) = RecentSize /\ j \in Int
      BY <1>0, <1>1, <2>2 DEF RingInv
    <3>1. CASE j > N - recent.ptr
      <4>1. j - N + recent.ptr \in 1..RecentSize /\ Arrival(j - N + recent.ptr) = j
        BY <1>0, <1>1, <2>2, <3>0, <3>1, Sizes DEF Arrival
      <4> QED BY <3>0, <4>1
    <3>2. CASE ~(j > N - recent.ptr)
      <4>1. j - N + recent.ptr + RecentSize \in 1..RecentSize
            /\ Arrival(j - N + recent.ptr + RecentSize) = j
        BY <1>0, <1>1, <2>2, <3>0, <3>2, Sizes DEF Arrival
      <4> QED BY <3>0, <4>1
    <3> QED BY <3>1, <3>2
  <2> QED BY <2>1, <2>2
<1>7. recent.map = {order[j] : j \in from..N}
  <2> HIDE DEF from
  <2> QED BY <1>4, <1>5, <1>6
<1>8. KeepsLast <=> recent.map = Range(SubSeq(order, from, N))
  BY DEF KeepsLast
<1> HIDE DEF from
<1> QED BY <1>3, <1>7, <1>8
-------------------------------------------------------------------------------
(* The counters of cache.go *)

\* A counter whose window has passed starts again, any other stays as it is.
LEMMA ClearedFacts ==
    ASSUME NEW K, NEW c \in CounterType(K), NEW t \in Nat
    PROVE  /\ Cleared(c, t) \in CounterType(K) /\ Cleared(c, t).at = t
           /\ c.at = t => Cleared(c, t) = c
           /\ c.at # t => /\ Cleared(c, t).clears = c.clears + 1
                          /\ \A j \in K : Cleared(c, t).n[j] = 0
<1>1. c.n \in [K -> Nat] /\ c.at \in Nat /\ c.clears \in Nat
  BY DEF CounterType
<1>2. CASE c.at = t
  BY <1>1, <1>2 DEF Cleared
<1>3. CASE c.at # t
  <2>1. Cleared(c, t) = [n |-> [k \in K |-> 0], at |-> t, clears |-> c.clears + 1]
    BY <1>1, <1>3 DEF Cleared
  <2> QED BY <1>1, <1>3, <2>1 DEF CounterType
<1> QED BY <1>2, <1>3

\* incrementBoundedCounter adds one to the key it takes, and to nothing else.
LEMMA IncrementFacts ==
    ASSUME NEW K, NEW c \in CounterType(K), NEW t \in Nat, NEW k \in K, NEW limit
    PROVE  LET b == Cleared(c, t)
               d == Increment(c, k, limit, t)
           IN  /\ d \in CounterType(K) /\ d.at = t /\ d.clears = b.clears
               /\ \A j \in K : j # k => d.n[j] = b.n[j]
               /\ Accepts(c, k, limit, t) => d.n[k] = b.n[k] + 1
               /\ ~Accepts(c, k, limit, t) => d = b
<1> DEFINE b == Cleared(c, t)
           d == Increment(c, k, limit, t)
<1>1. b \in CounterType(K) /\ b.at = t /\ b.n \in [K -> Nat] /\ b.at \in Nat /\ b.clears \in Nat
  BY ClearedFacts DEF CounterType
<1>2. CASE Accepts(c, k, limit, t)
  <2>1. d = [b EXCEPT !.n[k] = @ + 1]
    BY <1>2 DEF Increment
  <2> HIDE DEF b, d
  <2>2. PICK f : f = [b.n EXCEPT ![k] = @ + 1]
    OBVIOUS
  <2>3. f \in [K -> Nat] /\ f[k] = b.n[k] + 1 /\ \A j \in K : j # k => f[j] = b.n[j]
    BY <1>1, <2>2
  <2>4. d \in CounterType(K) /\ d.n = f /\ d.at = b.at /\ d.clears = b.clears
    BY <1>1, <2>1, <2>2, <2>3 DEF CounterType
  <2> QED BY <1>1, <1>2, <2>3, <2>4 DEF b, d
<1>3. CASE ~Accepts(c, k, limit, t)
  <2>1. d = b
    BY <1>3 DEF Increment
  <2> QED BY <1>1, <1>3, <2>1
<1> QED BY <1>2, <1>3
-------------------------------------------------------------------------------
(* Sending again *)

\* A goroutine that goes on or ends is counted where it was, or no longer.
LEMMA PassingStep ==
    ASSUME RequestInv, NEW h \in Handlers, NEW r \in HandlerType,
           hnd' = [hnd EXCEPT ![h] = r], NEW x \in Requests
    PROVE  /\ IsFiniteSet(Passing(x)') /\ Cardinality(Passing(x)) \in Nat
           /\ Cardinality(Passing(x)') + (IF Passes(hnd[h], x) THEN 1 ELSE 0)
                = Cardinality(Passing(x)) + (IF Passes(r, x) THEN 1 ELSE 0)
<1> DEFINE S == Passing(x)
           T == Passing(x)'
<1>1. IsFiniteSet(S) /\ Cardinality(S) \in Nat
  BY FS_CardinalityType DEF RequestInv
<1>2. hnd'[h] = r /\ \A g \in Handlers : g # h => hnd'[g] = hnd[g]
  BY DEF RequestInv
<1>3. \A g \in Handlers : (g \in S <=> Passes(hnd[g], x)) /\ (g \in T <=> Passes(hnd'[g], x))
  BY DEF Passing, Passes
<1>4. S \subseteq Handlers /\ T \subseteq Handlers
  BY DEF Passing
<1> HIDE DEF S, T
<1>5. CASE Passes(r, x)
  <2>1. T = S \cup {h}
    BY <1>2, <1>3, <1>4, <1>5
  <2>2. IsFiniteSet(T) /\ Cardinality(T) = IF h \in S THEN Cardinality(S) ELSE Cardinality(S) + 1
    BY <1>1, <2>1, FS_AddElement
  <2>3. Cardinality(T) + (IF Passes(hnd[h], x) THEN 1 ELSE 0) = Cardinality(S) + 1
    BY <1>1, <1>3, <2>2
  <2> QED BY <1>1, <1>5, <2>2, <2>3 DEF S, T
<1>6. CASE ~Passes(r, x)
  <2>1. T = S \ {h}
    BY <1>2, <1>3, <1>4, <1>6
  <2>2. IsFiniteSet(T) /\ Cardinality(T) = IF h \in S THEN Cardinality(S) - 1 ELSE Cardinality(S)
    BY <1>1, <2>1, FS_RemoveElement
  <2>3. Cardinality(T) + (IF Passes(hnd[h], x) THEN 1 ELSE 0) = Cardinality(S) + 0
    BY <1>1, <1>3, <2>2
  <2> QED BY <1>1, <1>6, <2>2, <2>3 DEF S, T
<1> QED BY <1>5, <1>6

\* What a device may be sent is bounded by the clearings of the counter.
LEMMA AllowedBound ==
    ASSUME RequestInv, NEW x \in Requests
    PROVE  Allowed(x) \in Nat /\ Allowed(x) <= (InLimit - 1) * asked.clears
<1>1. asked.clears \in Nat /\ asked.n[x] \in Nat
  BY DEF RequestInv, CounterType
<1>2. PICK l \in Nat : l = InLimit - 1
  BY Sizes
<1>3. CASE asked.clears = 0
  BY <1>2, <1>3 DEF Allowed
<1>4. CASE asked.clears # 0
  <2>1. PICK c \in Nat : c = asked.clears - 1
    BY <1>1, <1>4
  <2>2. asked.clears = c + 1
    BY <1>1, <2>1
  <2>3. PICK z \in Nat : z = (IF asked.n[x] < InLimit THEN asked.n[x] ELSE InLimit - 1) /\ z <= l
    BY <1>1, <1>2, Sizes
  <2>4. Allowed(x) = l * c + z
    BY <1>2, <1>4, <2>1, <2>3 DEF Allowed
  <2>5. l * (c + 1) = l * c + l /\ l * c \in Nat
    OBVIOUS
  <2> QED BY <1>2, <2>2, <2>3, <2>4, <2>5
<1> QED BY <1>3, <1>4

\* A step of one goroutine that leaves the counter alone.
LEMMA HandlerMoves ==
    ASSUME RequestInv, NEW h \in Handlers, NEW r \in HandlerType,
           r.pc # "idle" => r.dev \in Devices /\ r.key \in Keys,
           hnd' = [hnd EXCEPT ![h] = r],
           now' \in Nat \ {0}, session' \subseteq Devices, asked' = asked,
           resent' \in [Requests -> Nat],
           \A x \in Requests : resent'[x] + (IF Passes(r, x) THEN 1 ELSE 0)
                                 <= resent[x] + (IF Passes(hnd[h], x) THEN 1 ELSE 0)
    PROVE  RequestInv'
<1>1. hnd' \in [Handlers -> HandlerType]
      /\ \A g \in Handlers : hnd'[g].pc # "idle" => hnd'[g].dev \in Devices /\ hnd'[g].key \in Keys
  BY DEF RequestInv
<1>2. ASSUME NEW x \in Requests
      PROVE  IsFiniteSet(Passing(x)') /\ resent'[x] + Cardinality(Passing(x)') <= Allowed(x)'
  <2>1. Allowed(x)' = Allowed(x)
    BY DEF Allowed
  <2>2. resent[x] \in Nat /\ resent'[x] \in Nat /\ Allowed(x) \in Nat
        /\ resent[x] + Cardinality(Passing(x)) <= Allowed(x)
    BY AllowedBound DEF RequestInv
  <2>3. PICK p : p = Cardinality(Passing(x)')
    OBVIOUS
  <2>4. IsFiniteSet(Passing(x)') /\ p \in Nat
    BY <2>3, PassingStep, FS_CardinalityType
  <2>5. p + (IF Passes(hnd[h], x) THEN 1 ELSE 0)
          = Cardinality(Passing(x)) + (IF Passes(r, x) THEN 1 ELSE 0)
        /\ Cardinality(Passing(x)) \in Nat
    BY <2>3, PassingStep
  <2>6. resent'[x] + p <= Allowed(x)
    BY <2>2, <2>4, <2>5
  <2> QED BY <2>1, <2>3, <2>4, <2>6
<1> QED BY <1>1, <1>2 DEF RequestInv

\* incomingRetryRequestCounter lets a request through only while the count of
\* its device and message stays below the limit.
LEMMA CountRequestStep ==
    ASSUME RequestInv, NEW h \in Handlers, CountRequest(h)
    PROVE  RequestInv'
<1> DEFINE x == <<hnd[h].dev, hnd[h].key>>
           c == Increment(asked, x, InEntries, now)
           ok == Accepts(asked, x, InEntries, now)
<1>1. /\ hnd[h].pc = "count" /\ asked' = c /\ now' = now /\ session' = session /\ resent' = resent
      /\ IF ok /\ ~(c.n[x] >= InLimit)
           THEN hnd' = [hnd EXCEPT ![h].pc = "session"] ELSE hnd' = [hnd EXCEPT ![h] = IdleHandler]
  BY DEF CountRequest, TooManyRequests, MoveHandler, DropReceipt
<1>2. /\ hnd[h].dev \in Devices /\ hnd[h].key \in Keys /\ x \in Requests /\ hnd[h] \in HandlerType
      /\ now \in Nat /\ now # 0 /\ asked \in CounterType(Requests) /\ resent \in [Requests -> Nat]
  BY <1>1 DEF RequestInv, Requests
<1>3. /\ asked.n \in [Requests -> Nat] /\ asked.clears \in Nat /\ asked.at \in Nat
      /\ (asked.clears = 0 => asked.at # now)
  BY <1>2 DEF RequestInv, CounterType, Never
<1> HIDE DEF x, c, ok
<1>4. /\ c \in CounterType(Requests) /\ c.at = now /\ c.clears = Cleared(asked, now).clears
      /\ \A j \in Requests : j # x => c.n[j] = Cleared(asked, now).n[j]
      /\ ok => c.n[x] = Cleared(asked, now).n[x] + 1
      /\ ~ok => c = Cleared(asked, now)
  BY <1>2, IncrementFacts DEF c, ok
<1>5. /\ Cleared(asked, now) \in CounterType(Requests)
      /\ asked.at = now => Cleared(asked, now) = asked
      /\ asked.at # now => /\ Cleared(asked, now).clears = asked.clears + 1
                           /\ \A j \in Requests : Cleared(asked, now).n[j] = 0
  BY <1>2, ClearedFacts
<1>6. c.n \in [Requests -> Nat] /\ c.clears \in Nat /\ c.clears # 0
  BY <1>3, <1>4, <1>5 DEF CounterType
<1>7. PICK passed \in BOOLEAN : passed = (ok /\ c.n[x] < InLimit)
  OBVIOUS
<1>8. PICK r \in HandlerType :
         /\ hnd' = [hnd EXCEPT ![h] = r]
         /\ r.pc # "idle" => r.dev \in Devices /\ r.key \in Keys
         /\ \A y \in Requests : Passes(r, y) <=> passed /\ y = x
  <2>1. CASE passed
    <3>1. ok /\ ~(c.n[x] >= InLimit)
      <4>1. ok /\ c.n[x] < InLimit
        BY <1>7, <2>1, Zenon
      <4>2. c.n[x] \in Nat
        BY <1>2, <1>6
      <4> QED BY <4>1, <4>2, Sizes
    <3>2. hnd' = [hnd EXCEPT ![h].pc = "session"]
      BY <1>1, <3>1
    <3>3. PICK r : r = [hnd[h] EXCEPT !.pc = "session"]
      OBVIOUS
    <3>4. hnd' = [hnd EXCEPT ![h] = r]
      BY <3>2, <3>3 DEF RequestInv
    <3>5. r \in HandlerType /\ r.pc = "session" /\ r.dev = hnd[h].dev /\ r.key = hnd[h].key
      BY <1>2, <3>3 DEF HandlerType
    <3>6. \A y \in Requests : Passes(r, y) <=> passed /\ y = x
      BY <2>1, <3>5 DEF Passes, x
    <3> QED BY <1>2, <3>4, <3>5, <3>6
  <2>2. CASE ~passed
    <3>1. ~(ok /\ ~(c.n[x] >= InLimit))
      <4>1. ~(ok /\ c.n[x] < InLimit)
        BY <1>7, <2>2, Zenon
      <4>2. c.n[x] \in Nat
        BY <1>2, <1>6
      <4> QED BY <4>1, <4>2, Sizes
    <3>2. hnd' = [hnd EXCEPT ![h] = IdleHandler]
      BY <1>1, <3>1
    <3>3. IdleHandler \in HandlerType /\ IdleHandler.pc = "idle"
      BY DEF IdleHandler, HandlerType
    <3>4. \A y \in Requests : ~Passes(IdleHandler, y)
      BY <3>3 DEF Passes
    <3> QED BY <2>2, <3>2, <3>3, <3>4
  <2> QED BY <2>1, <2>2
<1>9. hnd' \in [Handlers -> HandlerType]
      /\ \A g \in Handlers : hnd'[g].pc # "idle" => hnd'[g].dev \in Devices /\ hnd'[g].key \in Keys
  BY <1>8 DEF RequestInv
<1>10. ASSUME NEW y \in Requests
       PROVE  IsFiniteSet(Passing(y)') /\ resent'[y] + Cardinality(Passing(y)') <= Allowed(y)'
  <2>1. ~Passes(hnd[h], y)
    BY <1>1 DEF Passes
  <2>2. PICK p : p = Cardinality(Passing(y)')
    OBVIOUS
  <2>3. /\ IsFiniteSet(Passing(y)') /\ Cardinality(Passing(y)) \in Nat
        /\ p + (IF Passes(hnd[h], y) THEN 1 ELSE 0)
             = Cardinality(Passing(y)) + (IF Passes(r, y) THEN 1 ELSE 0)
    BY <1>8, <2>2, PassingStep
  <2>4. p \in Nat
    BY <2>2, <2>3, FS_CardinalityType
  <2>5. p = Cardinality(Passing(y)) + (IF passed /\ y = x THEN 1 ELSE 0)
    BY <1>8, <2>1, <2>3, <2>4
  <2>6. /\ resent[y] \in Nat /\ Allowed(y) \in Nat /\ Allowed(y) <= (InLimit - 1) * asked.clears
        /\ resent[y] + Cardinality(Passing(y)) <= Allowed(y)
    BY <1>2, AllowedBound DEF RequestInv
  <2>7. Allowed(y)' = (InLimit - 1) * (c.clears - 1) + (IF c.n[y] < InLimit THEN c.n[y] ELSE InLimit - 1)
    BY <1>1, <1>6 DEF Allowed
  <2>8. c.n[y] \in Nat /\ asked.n[y] \in Nat
    BY <1>3, <1>6
  <2>9. Allowed(y) + (IF passed /\ y = x THEN 1 ELSE 0) <= Allowed(y)'
    <3>1. CASE asked.at = now
      <4>1. c.clears = asked.clears /\ asked.clears # 0
        BY <1>3, <1>4, <1>5, <3>1
      <4>2. PICK z \in Int : z = (InLimit - 1) * (asked.clears - 1)
        BY <1>3, Sizes
      <4>3. Allowed(y) = z + (IF asked.n[y] < InLimit THEN asked.n[y] ELSE InLimit - 1)
        BY <4>1, <4>2 DEF Allowed
      <4>4. Allowed(y)' = z + (IF c.n[y] < InLimit THEN c.n[y] ELSE InLimit - 1)
        BY <2>7, <4>1, <4>2
      <4>5. CASE y = x /\ ok
        <5>1. c.n[y] = asked.n[y] + 1
          BY <1>4, <1>5, <3>1, <4>5
        <5>2. passed => c.n[y] < InLimit
          BY <1>7, <4>5
        <5> QED BY <2>8, <4>3, <4>4, <4>5, <5>1, <5>2, Sizes
      <4>6. CASE ~(y = x /\ ok)
        <5>1. c.n[y] = asked.n[y]
          BY <1>4, <1>5, <3>1, <4>6
        <5>2. ~(passed /\ y = x)
          BY <1>7, <4>6
        <5> QED BY <2>6, <4>3, <4>4, <5>1, <5>2
      <4> QED BY <4>5, <4>6
    <3>2. CASE asked.at # now
      <4>1. c.clears = asked.clears + 1
        BY <1>4, <1>5, <3>2
      <4>2. PICK z \in Int : z = (InLimit - 1) * asked.clears
        BY <1>3, Sizes
      <4>3. c.clears - 1 = asked.clears
        BY <1>3, <4>1
      <4>4. Allowed(y)' = z + (IF c.n[y] < InLimit THEN c.n[y] ELSE InLimit - 1)
        BY <2>7, <4>2, <4>3
      <4>5. passed /\ y = x => c.n[y] >= 1 /\ c.n[y] < InLimit
        <5>1. passed /\ y = x => ok /\ c.n[x] < InLimit
          BY <1>7
        <5>2. ok => c.n[x] = 1
          BY <1>2, <1>4, <1>5, <3>2
        <5> QED BY <2>8, <5>1, <5>2
      <4> QED BY <2>6, <2>8, <4>2, <4>4, <4>5, Sizes
    <3> QED BY <3>1, <3>2
  <2>10. Allowed(y)' \in Int
    <3>1. (InLimit - 1) * (c.clears - 1) \in Int
      BY <1>6, Sizes
    <3> QED BY <2>7, <2>8, <3>1, Sizes
  <2>11. resent'[y] + p <= Allowed(y)'
    <3>1. PICK e \in Int : e = IF passed /\ y = x THEN 1 ELSE 0
      OBVIOUS
    <3>2. p = Cardinality(Passing(y)) + e /\ Allowed(y) + e <= Allowed(y)'
      BY <2>5, <2>9, <3>1
    <3>3. PICK w : w = Allowed(y)'
      OBVIOUS
    <3>4. resent[y] + p <= w
      BY <2>3, <2>4, <2>6, <2>10, <3>2, <3>3
    <3> QED BY <1>1, <3>3, <3>4
  <2> QED BY <2>2, <2>3, <2>11
<1>11. /\ now' \in Nat \ {0} /\ session' \subseteq Devices /\ asked' \in CounterType(Requests)
       /\ (asked'.clears = 0 => asked'.at = Never) /\ resent' \in [Requests -> Nat]
  BY <1>1, <1>2, <1>4, <1>6 DEF RequestInv
<1> QED BY <1>9, <1>10, <1>11 DEF RequestInv

\* handleRetryReceipt: every step keeps the resends within what the counter let
\* through.
LEMMA RequestStep == RequestInv /\ [Next]_vars => RequestInv'
<1> SUFFICES ASSUME RequestInv, [Next]_vars PROVE RequestInv'
  OBVIOUS
<1>0. /\ now \in Nat /\ now \in Nat \ {0} /\ session \subseteq Devices /\ resent \in [Requests -> Nat]
      /\ hnd \in [Handlers -> HandlerType]
      /\ \A g \in Handlers : hnd[g].pc # "idle" => hnd[g].dev \in Devices /\ hnd[g].key \in Keys
  BY DEF RequestInv
<1>1. CASE UNCHANGED <<asked, hnd, resent>> /\ now' \in Nat \ {0} /\ session' \subseteq Devices
  <2>1. \A x \in Requests : Passing(x)' = Passing(x) /\ Allowed(x)' = Allowed(x)
    BY <1>1 DEF Passing, Allowed
  <2> QED BY <1>1, <2>1 DEF RequestInv
<1>2. IdleHandler \in HandlerType /\ IdleHandler.pc = "idle" /\ \A x : ~Passes(IdleHandler, x)
  BY DEF IdleHandler, HandlerType, Passes
<1>3. ASSUME NEW h \in Handlers, DropReceipt(h), UNCHANGED <<now, asked, resent>>, session' \subseteq Devices
      PROVE  RequestInv'
  <2>1. hnd' = [hnd EXCEPT ![h] = IdleHandler]
    BY <1>3 DEF DropReceipt
  <2>2. now' \in Nat \ {0} /\ asked' = asked /\ resent' \in [Requests -> Nat]
    BY <1>0, <1>3
  <2>3. \A x \in Requests : resent'[x] + (IF Passes(IdleHandler, x) THEN 1 ELSE 0)
                              <= resent[x] + (IF Passes(hnd[h], x) THEN 1 ELSE 0)
    BY <1>0, <1>2, <1>3
  <2> QED BY <1>2, <1>3, <2>1, <2>2, <2>3, HandlerMoves
<1>4. ASSUME NEW h \in Handlers, NEW r \in HandlerType, hnd' = [hnd EXCEPT ![h] = r],
             r.pc # "idle" => r.dev \in Devices /\ r.key \in Keys,
             \A x \in Requests : Passes(r, x) => Passes(hnd[h], x),
             UNCHANGED <<now, asked, resent, session>>
      PROVE  RequestInv'
  <2>1. now' \in Nat \ {0} /\ asked' = asked /\ resent' \in [Requests -> Nat] /\ session' \subseteq Devices
    BY <1>0, <1>4
  <2>2. \A x \in Requests : resent'[x] + (IF Passes(r, x) THEN 1 ELSE 0)
                              <= resent[x] + (IF Passes(hnd[h], x) THEN 1 ELSE 0)
    BY <1>0, <1>4
  <2> QED BY <1>4, <2>1, <2>2, HandlerMoves
<1>5. ASSUME NEW h \in Handlers, NEW d \in Devices, NEW k \in Keys, NEW n \in 1..2, NEW b \in BOOLEAN,
             HandleReceipt(h, d, k, n, b)
      PROVE  RequestInv'
  <2>1. PICK r : r = [pc |-> "lookup", dev |-> d, key |-> k, count |-> n, bundle |-> b]
    OBVIOUS
  <2>2. r \in HandlerType /\ r.pc = "lookup" /\ r.dev = d /\ r.key = k
    BY <2>1 DEF HandlerType
  <2>3. hnd' = [hnd EXCEPT ![h] = r] /\ UNCHANGED <<now, asked, resent, session>>
    BY <1>5, <2>1 DEF HandleReceipt
  <2>4. \A x \in Requests : Passes(r, x) => Passes(hnd[h], x)
    BY <2>2 DEF Passes
  <2> QED BY <1>4, <2>2, <2>3, <2>4
<1>6. ASSUME NEW h \in Handlers, NEW pc \in {"count", "fetch", "send"}, MoveHandler(h, pc),
             hnd[h].pc # "idle",
             pc = "count" \/ hnd[h].pc \in {"session", "fetch"},
             UNCHANGED <<now, asked, resent, session>>
      PROVE  RequestInv'
  <2>1. PICK r : r = [hnd[h] EXCEPT !.pc = pc]
    OBVIOUS
  <2>2. hnd' = [hnd EXCEPT ![h] = r]
    BY <1>0, <1>6, <2>1 DEF MoveHandler
  <2>3. r \in HandlerType /\ r.pc = pc /\ r.dev = hnd[h].dev /\ r.key = hnd[h].key
    BY <1>0, <1>6, <2>1 DEF HandlerType
  <2>4. \A x \in Requests : Passes(r, x) => Passes(hnd[h], x)
    BY <1>6, <2>3 DEF Passes
  <2>5. r.pc # "idle" => r.dev \in Devices /\ r.key \in Keys
    BY <1>0, <1>6, <2>3
  <2> QED BY <1>4, <1>6, <2>2, <2>3, <2>4, <2>5
<1>7. ASSUME NEW h \in Handlers, GetMessageForRetry(h) PROVE RequestInv'
  BY <1>0, <1>3, <1>6, <1>7 DEF GetMessageForRetry
<1>8. ASSUME NEW h \in Handlers, ChooseSession(h) PROVE RequestInv'
  <2>1. /\ hnd[h].pc = "session" /\ UNCHANGED <<now, asked, resent, session>>
        /\ MoveHandler(h, "fetch") \/ MoveHandler(h, "send") \/ DropReceipt(h)
    BY <1>8 DEF ChooseSession, Recreate
  <2> QED BY <1>0, <1>3, <1>6, <2>1
<1>9. ASSUME NEW h \in Handlers, FetchPreKeys(h) PROVE RequestInv'
  <2>1. hnd[h].pc = "fetch" /\ UNCHANGED <<now, asked, resent, session>>
    BY <1>9 DEF FetchPreKeys
  <2>2. CASE DropReceipt(h)
    BY <1>0, <1>3, <2>1, <2>2
  <2>3. CASE hnd' = [hnd EXCEPT ![h].pc = "send", ![h].bundle = TRUE]
    <3>1. PICK r : r = [hnd[h] EXCEPT !.pc = "send", !.bundle = TRUE]
      OBVIOUS
    <3>2. hnd' = [hnd EXCEPT ![h] = r]
      BY <1>0, <2>3, <3>1
    <3>3. r \in HandlerType /\ r.pc = "send" /\ r.dev = hnd[h].dev /\ r.key = hnd[h].key
      BY <1>0, <3>1 DEF HandlerType
    <3>4. \A x \in Requests : Passes(r, x) => Passes(hnd[h], x)
      BY <2>1, <3>3 DEF Passes
    <3>5. r.pc # "idle" => r.dev \in Devices /\ r.key \in Keys
      BY <1>0, <2>1, <3>3
    <3> QED BY <1>4, <2>1, <3>2, <3>3, <3>4, <3>5
  <2> QED BY <1>9, <2>2, <2>3 DEF FetchPreKeys
<1>10. ASSUME NEW h \in Handlers, SendAgain(h) PROVE RequestInv'
  <2> DEFINE y == <<hnd[h].dev, hnd[h].key>>
  <2>1. /\ hnd[h].pc = "send" /\ UNCHANGED <<now, asked>> /\ hnd' = [hnd EXCEPT ![h] = IdleHandler]
        /\ resent' = resent \/ resent' = [resent EXCEPT ![y] = @ + 1]
    BY <1>10 DEF SendAgain, DropReceipt
  <2>2. y \in Requests /\ hnd[h].dev \in Devices
    BY <1>0, <2>1 DEF Requests
  <2>3. session' \subseteq Devices
    <3>1. PICK x \in {hnd[h].dev, LidOf[hnd[h].dev]} :
             \E s \in Migrated(hnd[h].dev, x) : session' = s \/ session' = s \cup {x}
      BY <1>10 DEF SendAgain
    <3>4. PICK s \in Migrated(hnd[h].dev, x) : session' = s \/ session' = s \cup {x}
      BY <3>1
    <3>2. x \in Devices
      BY <2>2, <3>1, LidAssumption
    <3>3. s \subseteq Devices
      BY <1>0, <3>2, <3>4 DEF Migrated
    <3> QED BY <3>2, <3>3, <3>4
  <2>4. Passes(hnd[h], y)
    BY <2>1 DEF Passes
  <2> HIDE DEF y
  <2>5. resent' \in [Requests -> Nat]
        /\ \A x \in Requests : resent'[x] <= resent[x] + (IF Passes(hnd[h], x) THEN 1 ELSE 0)
    BY <1>0, <2>1, <2>2, <2>4
  <2>6. \A x \in Requests : resent'[x] + (IF Passes(IdleHandler, x) THEN 1 ELSE 0)
                              <= resent[x] + (IF Passes(hnd[h], x) THEN 1 ELSE 0)
    BY <1>0, <1>2, <2>5
  <2>7. now' \in Nat \ {0} /\ asked' = asked
    BY <1>0, <2>1
  <2> QED BY <1>2, <2>1, <2>3, <2>5, <2>6, <2>7, HandlerMoves
<1>11. CASE HourPasses
  BY <1>0, <1>1, <1>11 DEF HourPasses
<1>12. ASSUME NEW d \in Devices, LoseSession(d) PROVE RequestInv'
  BY <1>0, <1>1, <1>12 DEF LoseSession
<1>13. \/ UNCHANGED <<now, asked, hnd, resent, session>> \/ HourPasses
       \/ \E d \in Devices : LoseSession(d)
       \/ \E h \in Handlers, d \in Devices, k \in Keys, c \in 1..2, b \in BOOLEAN :
             HandleReceipt(h, d, k, c, b)
       \/ \E h \in Handlers : HandlerStep(h)
  BY DEF Next, vars, outVars, Stanza, Decrypted, Undecryptable, SendMessage,
     ClearDelayedRequests, AskerStep, CountRetry, SendRetryReceipt, PhoneStep,
     RegisterRequest, DelayOver, RequestFromPhone, DeleteRequest, KeepOut
<1>14. CASE UNCHANGED <<now, asked, hnd, resent, session>>
  BY <1>0, <1>1, <1>14
<1> QED BY <1>5, <1>7, <1>8, <1>9, <1>10, <1>11, <1>12, <1>13, <1>14, CountRequestStep DEF HandlerStep

\* The counter bounds the resends.
LEMMA RequestBounds == RequestInv => ResendsBounded
<1> SUFFICES ASSUME RequestInv, NEW x \in Requests PROVE resent[x] <= (InLimit - 1) * asked.clears
  BY DEF ResendsBounded, Requests
<1>1. /\ resent[x] \in Nat /\ Cardinality(Passing(x)) \in Nat
      /\ resent[x] + Cardinality(Passing(x)) <= Allowed(x)
  BY FS_CardinalityType DEF RequestInv
<1>2. PICK z \in Int : z = (InLimit - 1) * asked.clears
  BY Sizes DEF RequestInv, CounterType
<1>3. Allowed(x) \in Nat /\ Allowed(x) <= z
  BY <1>2, AllowedBound
<1> QED BY <1>1, <1>2, <1>3
-------------------------------------------------------------------------------
(* Recreating sessions *)

\* pruneExpiredCache drops times before now, and nothing else.
LEMMA PrunedFacts ==
    ASSUME NEW K, NEW f \in [K -> Nat], NEW t \in Nat, NEW limit
    PROVE  /\ Pruned(f, t, limit) \in [K -> Nat]
           /\ \A j \in K : Pruned(f, t, limit)[j] = f[j] \/ (Pruned(f, t, limit)[j] = 0 /\ f[j] < t)
           /\ Held(Pruned(f, t, limit)) \subseteq Held(f)
<1>1. /\ Pruned(f, t, limit) \in [K -> Nat]
      /\ \A j \in K : Pruned(f, t, limit)[j] = f[j] \/ (Pruned(f, t, limit)[j] = 0 /\ f[j] < t)
  <2>1. CASE Cardinality(Held(f)) < limit
    <3>1. Pruned(f, t, limit) = f
      BY <2>1 DEF Pruned
    <3> QED BY <3>1, Zenon
  <2>2. CASE ~(Cardinality(Held(f)) < limit)
    <3>1. Pruned(f, t, limit) = [j \in K |-> IF f[j] < t THEN 0 ELSE f[j]]
      BY <2>2 DEF Pruned, Never
    <3>2. PICK g : g = [j \in K |-> IF f[j] < t THEN 0 ELSE f[j]]
      OBVIOUS
    <3>3. g \in [K -> Nat] /\ \A j \in K : g[j] = f[j] \/ (g[j] = 0 /\ f[j] < t)
      BY <3>2
    <3> QED BY <3>1, <3>2, <3>3, Zenon
  <2> QED BY <2>1, <2>2
<1> QED BY <1>1 DEF Held

\* A map with room for a key, or with the key, stays within its limit.
LEMMA RoomForOne ==
    ASSUME NEW S, NEW k, NEW limit \in Nat, IsFiniteSet(S), Cardinality(S) <= limit,
           k \in S \/ Cardinality(S) < limit, NEW T \in SUBSET (S \cup {k})
    PROVE  IsFiniteSet(T) /\ Cardinality(T) <= limit
<1>1. /\ IsFiniteSet(S \cup {k}) /\ Cardinality(S) \in Nat
      /\ Cardinality(S \cup {k}) = IF k \in S THEN Cardinality(S) ELSE Cardinality(S) + 1
  BY FS_AddElement, FS_CardinalityType
<1>2. Cardinality(S \cup {k}) \in Nat /\ Cardinality(S \cup {k}) <= limit
  BY <1>1
<1>3. /\ IsFiniteSet(T) /\ Cardinality(T) \in Nat /\ Cardinality(T) <= Cardinality(S \cup {k})
  BY <1>1, FS_Subset, FS_CardinalityType
<1> QED BY <1>2, <1>3

\* putBoundedCache stores the key and drops at most one other.
LEMMA PutsFacts ==
    ASSUME NEW K, NEW f \in [K -> Nat], NEW k \in K, NEW v \in Nat, NEW limit \in Nat,
           NEW g \in Puts(f, k, v, limit)
    PROVE  /\ g \in [K -> Nat] /\ g[k] = v
           /\ \A j \in K : j # k => g[j] = f[j] \/ g[j] = 0
           /\ IsFiniteSet(Held(f)) /\ Cardinality(Held(f)) <= limit
                => IsFiniteSet(Held(g)) /\ Cardinality(Held(g)) <= limit
<1>1. CASE f[k] # Never \/ Cardinality(Held(f)) < limit
  <2>1. g = [f EXCEPT ![k] = v]
    BY <1>1 DEF Puts
  <2>2. g \in [K -> Nat] /\ g[k] = v /\ \A j \in K : j # k => g[j] = f[j]
    BY <2>1
  <2>3. Held(g) \subseteq Held(f) \cup {k}
    BY <2>2 DEF Held
  <2>4. ASSUME IsFiniteSet(Held(f)), Cardinality(Held(f)) <= limit
        PROVE  IsFiniteSet(Held(g)) /\ Cardinality(Held(g)) <= limit
    <3>1. k \in Held(f) \/ Cardinality(Held(f)) < limit
      BY <1>1 DEF Held, Never
    <3> QED BY <2>3, <2>4, <3>1, RoomForOne
  <2> QED BY <2>2, <2>4
<1>2. CASE ~(f[k] # Never \/ Cardinality(Held(f)) < limit)
  <2>1. PICK j \in Held(f) : g = [f EXCEPT ![k] = v, ![j] = Never]
    BY <1>2 DEF Puts
  <2>2. j \in K /\ j # k
    BY <1>2, <2>1 DEF Held, Never
  <2>3. g \in [K -> Nat] /\ g[k] = v /\ g[j] = 0 /\ \A i \in K : i # k /\ i # j => g[i] = f[i]
    BY <2>1, <2>2 DEF Never
  <2>4. Held(g) \subseteq (Held(f) \ {j}) \cup {k}
    BY <2>3 DEF Held
  <2>5. ASSUME IsFiniteSet(Held(f)), Cardinality(Held(f)) <= limit
        PROVE  IsFiniteSet(Held(g)) /\ Cardinality(Held(g)) <= limit
    <3>1. /\ IsFiniteSet(Held(f) \ {j}) /\ Cardinality(Held(f)) \in Nat
          /\ Cardinality(Held(f) \ {j}) = Cardinality(Held(f)) - 1
      BY <2>1, <2>5, FS_RemoveElement, FS_CardinalityType
    <3>2. k \notin Held(f) \ {j}
      BY <1>2 DEF Held, Never
    <3>3. /\ IsFiniteSet((Held(f) \ {j}) \cup {k})
          /\ Cardinality((Held(f) \ {j}) \cup {k}) = Cardinality(Held(f) \ {j}) + 1
      BY <3>1, <3>2, FS_AddElement
    <3>4. /\ IsFiniteSet(Held(g)) /\ Cardinality(Held(g)) \in Nat
          /\ Cardinality(Held(g)) <= Cardinality((Held(f) \ {j}) \cup {k})
      BY <2>4, <3>3, FS_Subset, FS_CardinalityType
    <3> QED BY <2>5, <3>1, <3>3, <3>4
  <2> QED BY <2>3, <2>5
<1> QED BY <1>1, <1>2

\* shouldRecreateSession and the note it leaves: a session that exists is
\* recreated only when the history has no time of this window for its device.
LEMMA RecreateStep == RequestInv /\ RecreateInv /\ [Next]_vars => RecreateInv'
<1> SUFFICES ASSUME RequestInv, RecreateInv, [Next]_vars PROVE RecreateInv'
  OBVIOUS
<1>0. /\ now \in Nat /\ now # 0 /\ recreated \in [Devices -> Nat] /\ again \in [Devices -> AgainType]
      /\ \A d \in Devices : /\ again[d].n <= again[d].missed + 1
                            /\ again[d].n > 0 => recreated[d] = now
  BY DEF RequestInv, RecreateInv
<1>t. \A d \in Devices : again[d] \in AgainType /\ again[d].n \in Nat /\ again[d].missed \in Nat
  BY <1>0 DEF AgainType
<1>1. CASE UNCHANGED <<now, recreated, again>>
  BY <1>1 DEF RecreateInv
<1>2. CASE HourPasses
  BY <1>0, <1>2 DEF HourPasses, RecreateInv, AgainType, NoneAgain
<1>3. ASSUME NEW h \in Handlers, ChooseSession(h) PROVE RecreateInv'
  <2>1. PICK d \in Devices : d = hnd[h].dev
    BY <1>3 DEF ChooseSession, RequestInv
  <2>2. PICK f : f = Pruned(recreated, now, History)
    OBVIOUS
  <2>3. /\ f \in [Devices -> Nat] /\ now' = now
        /\ \A e \in Devices : f[e] = recreated[e] \/ (f[e] = 0 /\ recreated[e] < now)
    BY <1>0, <1>3, <2>2, PrunedFacts DEF ChooseSession
  <2>4. \A e \in Devices : again[e].n > 0 => f[e] = now
    <3> TAKE e \in Devices
    <3> HAVE again[e].n > 0
    <3>1. recreated[e] = now
      BY <1>0
    <3> QED BY <1>0, <2>3, <3>1
  <2>5. CASE /\ d \notin session \/ f[d] # now
             /\ Recreate(h, d)
    <3>1. PICK g : g \in Puts(f, d, now, History) /\ g = recreated'
      BY <2>2, <2>5 DEF Recreate
    <3>2. g \in [Devices -> Nat] /\ g[d] = now /\ \A e \in Devices : e # d => g[e] = f[e] \/ g[e] = 0
      <4>1. History \in Nat
        BY Sizes
      <4>2. f \in [Devices -> Nat] /\ now \in Nat /\ g \in Puts(f, d, now, History)
        BY <1>0, <2>3, <3>1
      <4> QED BY <4>1, <4>2, PutsFacts
    <3>3. again' = [e \in Devices |-> IF g[e] = Never THEN NoneAgain
                                      ELSE IF e = d THEN Again(again[e], d) ELSE again[e]]
      BY <2>5, <3>1 DEF Recreate
    <3>4. ASSUME NEW e \in Devices
          PROVE  /\ again'[e] \in AgainType
                 /\ again'[e].n <= again'[e].missed + 1
                 /\ again'[e].n > 0 => g[e] = now
      <4>1. CASE e = d
        <5>1. again'[d] = Again(again[d], d)
          BY <1>0, <3>2, <3>3 DEF Never
        <5>2. CASE d \in session
          <6>1. again[d].n = 0
            BY <1>0, <2>4, <2>5, <5>2 DEF AgainType
          <6>2. again'[d] = [n |-> again[d].n + 1, missed |-> again[d].missed]
            BY <5>1, <5>2 DEF Again
          <6> QED BY <1>0, <3>2, <4>1, <6>1, <6>2 DEF AgainType
        <5>3. CASE d \notin session /\ LidOf[d] \in session
          <6>1. again'[d] = [n |-> again[d].n + 1, missed |-> again[d].missed + 1]
            BY <5>1, <5>3 DEF Again
          <6>2. /\ again'[d] \in AgainType /\ again'[d].n = again[d].n + 1
                /\ again'[d].missed = again[d].missed + 1
            BY <1>t, <6>1 DEF AgainType
          <6>3. again[d].n <= again[d].missed + 1
            BY <1>0
          <6> QED BY <1>t, <3>2, <4>1, <6>2, <6>3
        <5>4. CASE d \notin session /\ LidOf[d] \notin session
          <6>1. again'[d] = again[d]
            BY <5>1, <5>4 DEF Again
          <6>2. again[d].n <= again[d].missed + 1
            BY <1>0
          <6> QED BY <1>t, <3>2, <4>1, <6>1, <6>2
        <5> QED BY <5>2, <5>3, <5>4
      <4>2. CASE e # d
        <5>1. again'[e] = IF g[e] = 0 THEN NoneAgain ELSE again[e]
          BY <3>3, <4>2 DEF Never
        <5>2. NoneAgain \in AgainType /\ NoneAgain.n = 0 /\ NoneAgain.missed = 0
          BY DEF AgainType, NoneAgain
        <5>3. again[e].n <= again[e].missed + 1 /\ (again[e].n > 0 => f[e] = now)
          BY <1>0, <2>4
        <5> QED BY <1>t, <3>2, <4>2, <5>1, <5>2, <5>3
      <4> QED BY <4>1, <4>2
    <3>5. again' \in [Devices -> AgainType]
      BY <3>3, <3>4
    <3> QED BY <2>3, <3>1, <3>2, <3>4, <3>5 DEF RecreateInv
  <2>6. CASE recreated' = f /\ again' = again
    BY <1>0, <2>3, <2>4, <2>6 DEF RecreateInv
  <2>7. CASE recreated' = recreated /\ again' = again
    BY <1>1, <2>3, <2>7
  <2> QED BY <1>3, <2>1, <2>2, <2>5, <2>6, <2>7 DEF ChooseSession
<1>4. \/ UNCHANGED <<now, recreated, again>> \/ HourPasses
      \/ \E h \in Handlers : ChooseSession(h)
  BY DEF Next, vars, outVars, Stanza, Decrypted, Undecryptable, SendMessage, HandleReceipt,
     LoseSession, HandlerStep, GetMessageForRetry, CountRequest, FetchPreKeys, SendAgain,
     ClearDelayedRequests, AskerStep, CountRetry, SendRetryReceipt, PhoneStep,
     RegisterRequest, DelayOver, RequestFromPhone, DeleteRequest, KeepOut
<1> QED BY <1>1, <1>2, <1>3, <1>4
-------------------------------------------------------------------------------
(* Retry receipts *)

\* The locked part of sendRetryReceipt: whatever it stores, the counter only
\* grows, and a count it takes is above every count taken before.
LEMMA CountedFacts ==
    ASSUME NEW c \in CounterType(Msgs), NEW t \in Nat, NEW m \in Msgs, NEW i \in Nat
    PROVE  LET d == Increment(c, m, OutEntries, t)
               n == RetryCount(d, m, i)
               ok == Accepts(c, m, OutEntries, t)
               e == IF ok THEN Counted(d, m, n) ELSE d
           IN  /\ e \in CounterType(Msgs) /\ e.clears = d.clears
               /\ \A x \in Msgs \X Nat \X Nat : Below(x, c) => Below(x, e)
               /\ ok => /\ n \in Nat /\ Below(<<m, d.clears, n>>, e)
                        /\ ~Below(<<m, d.clears, n>>, c)
<1> DEFINE d == Increment(c, m, OutEntries, t)
           n == RetryCount(d, m, i)
           ok == Accepts(c, m, OutEntries, t)
           e == IF ok THEN Counted(d, m, n) ELSE d
           b == Cleared(c, t)
<1>1. /\ d \in CounterType(Msgs) /\ d.clears = b.clears
      /\ \A j \in Msgs : j # m => d.n[j] = b.n[j]
      /\ ok => d.n[m] = b.n[m] + 1
      /\ ~ok => d = b
  BY IncrementFacts
<1>2. /\ b \in CounterType(Msgs)
      /\ c.at = t => b = c
      /\ c.at # t => b.clears = c.clears + 1 /\ \A j \in Msgs : b.n[j] = 0
  BY ClearedFacts
<1>3. c.n \in [Msgs -> Nat] /\ c.clears \in Nat /\ b.n \in [Msgs -> Nat] /\ b.clears \in Nat
  BY <1>2 DEF CounterType
<1>4. d.n \in [Msgs -> Nat] /\ d.clears \in Nat /\ d.at \in Nat
  BY <1>1 DEF CounterType
<1>5. n = IF d.n[m] = 1 /\ i > 0 THEN i + 1 ELSE d.n[m]
  BY DEF RetryCount
<1>6. n \in Nat /\ (ok => n > b.n[m])
  <2> HIDE DEF n, d, b, ok
  <2> QED BY <1>1, <1>3, <1>4, <1>5
<1>7. /\ e \in CounterType(Msgs) /\ e.clears = d.clears
      /\ \A j \in Msgs : j # m => e.n[j] = d.n[j]
      /\ ok => e.n[m] = n
      /\ ~ok => e = d
  <2>1. CASE ok
    <3>1. e = [d EXCEPT !.n[m] = n]
      BY <2>1 DEF Counted
    <3> HIDE DEF n, d, b, ok, e
    <3>2. PICK f : f = [d.n EXCEPT ![m] = n]
      OBVIOUS
    <3>3. f \in [Msgs -> Nat] /\ f[m] = n /\ \A j \in Msgs : j # m => f[j] = d.n[j]
      BY <1>4, <1>6, <3>2
    <3>4. e \in CounterType(Msgs) /\ e.n = f /\ e.clears = d.clears
      BY <1>1, <1>4, <3>1, <3>2, <3>3 DEF CounterType
    <3> QED BY <2>1, <3>3, <3>4
  <2>2. CASE ~ok
    <3>1. e = d
      BY <2>2
    <3> HIDE DEF n, d, b, ok, e
    <3> QED BY <1>1, <2>2, <3>1
  <2> QED BY <2>1, <2>2
<1>8. /\ e \in CounterType(Msgs) /\ e.clears = d.clears
      /\ \A x \in Msgs \X Nat \X Nat : Below(x, c) => Below(x, e)
      /\ ok => n \in Nat /\ Below(<<m, d.clears, n>>, e) /\ ~Below(<<m, d.clears, n>>, c)
  <2> HIDE DEF n, d, b, ok, e
  <2>1. e.n \in [Msgs -> Nat] /\ e.clears \in Nat
    BY <1>7 DEF CounterType
  <2>2. ASSUME NEW x \in Msgs \X Nat \X Nat, Below(x, c) PROVE Below(x, e)
    <3>1. x[1] \in Msgs /\ x[2] \in Nat /\ x[3] \in Nat
      OBVIOUS
    <3>2. CASE c.at = t
      <4>1. e.clears = c.clears /\ c.n[x[1]] <= e.n[x[1]]
        BY <1>1, <1>2, <1>3, <1>6, <1>7, <2>1, <3>1, <3>2
      <4> QED BY <1>3, <2>1, <2>2, <3>1, <4>1 DEF Below
    <3>3. CASE c.at # t
      <4>1. e.clears = c.clears + 1
        BY <1>1, <1>2, <1>7, <3>3
      <4> QED BY <1>3, <2>2, <3>1, <4>1 DEF Below
    <3> QED BY <3>2, <3>3
  <2>3. ASSUME ok PROVE Below(<<m, d.clears, n>>, e) /\ ~Below(<<m, d.clears, n>>, c)
    <3>1. e.n[m] = n /\ e.clears = d.clears
      BY <1>7, <2>3
    <3>2. Below(<<m, d.clears, n>>, e)
      BY <1>6, <3>1 DEF Below
    <3>3. CASE c.at = t
      <4>1. d.clears = c.clears /\ n > c.n[m] /\ c.n[m] \in Nat
        BY <1>1, <1>2, <1>3, <1>6, <2>3, <3>3
      <4> QED BY <1>3, <1>6, <3>2, <4>1 DEF Below
    <3>4. CASE c.at # t
      <4>1. d.clears = c.clears + 1
        BY <1>1, <1>2, <3>4
      <4> QED BY <1>3, <3>2, <4>1 DEF Below
    <3> QED BY <3>2, <3>3, <3>4
  <2> QED BY <1>6, <1>7, <2>2, <2>3
<1> QED BY <1>8

\* sendRetryReceipt: the counts are taken under the lock, so they are distinct
\* although the receipts are sent outside of it, in any order.
LEMMA ReceiptStep == RequestInv /\ ReceiptInv /\ [Next]_vars => ReceiptInv'
<1> SUFFICES ASSUME RequestInv, ReceiptInv, [Next]_vars PROVE ReceiptInv'
  OBVIOUS
<1>0. /\ now \in Nat /\ retries \in CounterType(Msgs) /\ ask \in [Askers -> AskerType]
      /\ \A a \in Askers : ask[a].pc # "idle" => ask[a].m \in Msgs
      /\ receipts \subseteq Msgs \X Nat \X Nat /\ twice = FALSE
      /\ \A x \in receipts : Below(x, retries)
      /\ \A a \in Askers : ask[a].pc = "send" => Below(Receipt(a), retries) /\ Receipt(a) \notin receipts
      /\ \A a, b \in Askers : a # b /\ ask[a].pc = "send" /\ ask[b].pc = "send"
                               => Receipt(a) # Receipt(b)
  BY DEF RequestInv, ReceiptInv, Counts, Below
<1>1. IdleAsker \in AskerType /\ IdleAsker.pc = "idle"
  BY DEF IdleAsker, AskerType
<1>2. \A a \in Askers : ask[a].pc = "send" => Receipt(a) \in Msgs \X Nat \X Nat
  BY <1>0 DEF Receipt, AskerType
<1>3. ASSUME retries' \in CounterType(Msgs), ask' \in [Askers -> AskerType],
             \A a \in Askers : ask'[a].pc # "idle" => ask'[a].m \in Msgs,
             receipts' \subseteq Msgs \X Nat \X Nat, twice' = FALSE,
             \A x \in receipts' : Below(x, retries'),
             \A a \in Askers : ask'[a].pc = "send"
                 => Below(Receipt(a)', retries') /\ Receipt(a)' \notin receipts',
             \A a, b \in Askers : a # b /\ ask'[a].pc = "send" /\ ask'[b].pc = "send"
                 => Receipt(a)' # Receipt(b)'
      PROVE  ReceiptInv'
  BY <1>3 DEF ReceiptInv, Counts, Below
<1>4. CASE UNCHANGED <<retries, ask, receipts, twice>>
  BY <1>4 DEF ReceiptInv, Counts, Receipt
<1>5. ASSUME NEW a \in Askers, NEW m \in Msgs, NEW i \in 0..1, Undecryptable(a, m, i)
      PROVE  ReceiptInv'
  <2>1. PICK r : r = [pc |-> "count", m |-> m, count |-> i, clear |-> 0]
    OBVIOUS
  <2>2. r \in AskerType /\ r.pc = "count" /\ r.m = m
    BY <2>1 DEF AskerType
  <2>3. ask' = [ask EXCEPT ![a] = r] /\ UNCHANGED <<retries, receipts, twice>>
    BY <1>5, <2>1 DEF Undecryptable
  <2>4. ask' \in [Askers -> AskerType] /\ ask'[a] = r
        /\ \A b \in Askers : b # a => ask'[b] = ask[b] /\ Receipt(b)' = Receipt(b)
    BY <1>0, <2>2, <2>3 DEF Receipt
  <2>5. \A b \in Askers : ask'[b].pc = "send" => /\ b # a /\ ask[b].pc = "send"
                                                /\ Receipt(b)' = Receipt(b)
    BY <2>2, <2>4
  <2>6. \A b \in Askers : ask'[b].pc # "idle" => ask'[b].m \in Msgs
    BY <1>0, <2>2, <2>4
  <2>7. /\ \A b \in Askers : ask'[b].pc = "send" => Below(Receipt(b)', retries) /\ Receipt(b)' \notin receipts
        /\ \A b, c \in Askers : b # c /\ ask'[b].pc = "send" /\ ask'[c].pc = "send"
                              => Receipt(b)' # Receipt(c)'
    BY <1>0, <2>5
  <2> QED BY <1>0, <1>3, <2>3, <2>4, <2>6, <2>7
<1>6. ASSUME NEW a \in Askers, CountRetry(a) PROVE ReceiptInv'
  <2>1. PICK m \in Msgs, i \in Nat : m = ask[a].m /\ i = ask[a].count
    BY <1>0, <1>6 DEF CountRetry, AskerType
  <2>2. PICK d, n, ok :
           /\ d = Increment(retries, m, OutEntries, now)
           /\ n = RetryCount(d, m, i)
           /\ ok = Accepts(retries, m, OutEntries, now)
    OBVIOUS
  <2>3. PICK e : e = IF ok THEN Counted(d, m, n) ELSE d
    OBVIOUS
  <2>4. /\ retries' = e /\ UNCHANGED <<receipts, twice>>
        /\ ask' = IF ok /\ n < OutLimit
                    THEN [ask EXCEPT ![a] = [pc |-> "send", m |-> m, count |-> n, clear |-> d.clears]]
                    ELSE [ask EXCEPT ![a] = IdleAsker]
    BY <1>6, <2>1, <2>2, <2>3 DEF CountRetry
  <2>5. /\ e \in CounterType(Msgs) /\ e.clears = d.clears
        /\ \A x \in Msgs \X Nat \X Nat : Below(x, retries) => Below(x, e)
        /\ ok => n \in Nat /\ Below(<<m, d.clears, n>>, e) /\ ~Below(<<m, d.clears, n>>, retries)
    BY <1>0, <2>2, <2>3, CountedFacts
  <2>6. d.clears \in Nat
    BY <2>5 DEF CounterType
  <2>7. \A x \in receipts : Below(x, e)
    BY <1>0, <2>5
  <2>8. CASE ok /\ n < OutLimit
    <3>1. PICK r : r = [pc |-> "send", m |-> m, count |-> n, clear |-> d.clears]
      OBVIOUS
    <3>2. r \in AskerType /\ r.pc = "send" /\ r.m = m /\ r.clear = d.clears /\ r.count = n
      BY <2>5, <2>6, <2>8, <3>1 DEF AskerType
    <3>3. ask' = [ask EXCEPT ![a] = r]
      BY <2>4, <2>8, <3>1
    <3>4. ask' \in [Askers -> AskerType] /\ ask'[a] = r
          /\ \A b \in Askers : b # a => ask'[b] = ask[b] /\ Receipt(b)' = Receipt(b)
      BY <1>0, <3>2, <3>3 DEF Receipt
    <3>5. Receipt(a)' = <<m, d.clears, n>>
      BY <3>2, <3>4 DEF Receipt
    <3>6. Below(Receipt(a)', e) /\ ~Below(Receipt(a)', retries)
      BY <2>5, <2>8, <3>5
    <3>7. \A b \in Askers : b # a /\ ask'[b].pc = "send" => /\ Below(Receipt(b)', e)
                                                           /\ Below(Receipt(b)', retries)
                                                           /\ Receipt(b)' \notin receipts
      BY <1>0, <1>2, <2>5, <3>4
    <3>8. Receipt(a)' \notin receipts
      BY <1>0, <3>6
    <3>9. \A b, c \in Askers : b # c /\ ask'[b].pc = "send" /\ ask'[c].pc = "send"
                               => Receipt(b)' # Receipt(c)'
      <4> SUFFICES ASSUME NEW b \in Askers, NEW c \in Askers, b # c, ask'[b].pc = "send", ask'[c].pc = "send"
                   PROVE  Receipt(b)' # Receipt(c)'
        OBVIOUS
      <4>1. CASE b = a
        BY <3>6, <3>7, <4>1
      <4>2. CASE c = a
        BY <3>6, <3>7, <4>2
      <4>3. CASE b # a /\ c # a
        BY <1>0, <3>4, <4>3
      <4> QED BY <4>1, <4>2, <4>3
    <3>10. \A b \in Askers : ask'[b].pc # "idle" => ask'[b].m \in Msgs
      BY <1>0, <3>2, <3>4
    <3>11. \A b \in Askers : ask'[b].pc = "send" => Below(Receipt(b)', e) /\ Receipt(b)' \notin receipts
      BY <3>6, <3>7, <3>8
    <3> QED BY <1>0, <1>3, <2>4, <2>5, <2>7, <3>4, <3>9, <3>10, <3>11
  <2>9. CASE ~(ok /\ n < OutLimit)
    <3>1. ask' = [ask EXCEPT ![a] = IdleAsker]
      BY <2>4, <2>9
    <3>2. ask' \in [Askers -> AskerType] /\ ask'[a] = IdleAsker
          /\ \A b \in Askers : b # a => ask'[b] = ask[b] /\ Receipt(b)' = Receipt(b)
      BY <1>0, <1>1, <3>1 DEF Receipt
    <3>3. \A b \in Askers : ask'[b].pc = "send" => /\ b # a /\ ask[b].pc = "send"
                                                  /\ Receipt(b)' = Receipt(b) /\ Below(Receipt(b)', e)
      BY <1>0, <1>1, <1>2, <2>5, <3>2
    <3>4. \A b \in Askers : ask'[b].pc # "idle" => ask'[b].m \in Msgs
      BY <1>0, <1>1, <3>2
    <3>5. /\ \A b \in Askers : ask'[b].pc = "send" => Below(Receipt(b)', e) /\ Receipt(b)' \notin receipts
          /\ \A b, c \in Askers : b # c /\ ask'[b].pc = "send" /\ ask'[c].pc = "send"
                                => Receipt(b)' # Receipt(c)'
      BY <1>0, <3>3
    <3> QED BY <1>0, <1>3, <2>4, <2>5, <2>7, <3>2, <3>4, <3>5
  <2> QED BY <2>8, <2>9
<1>7. ASSUME NEW a \in Askers, SendRetryReceipt(a) PROVE ReceiptInv'
  <2>1. /\ ask[a].pc = "send" /\ ask' = [ask EXCEPT ![a] = IdleAsker] /\ retries' = retries
        /\ \/ receipts' = receipts \cup {Receipt(a)} /\ twice' = (twice \/ Receipt(a) \in receipts)
           \/ UNCHANGED <<receipts, twice>>
    BY <1>7 DEF SendRetryReceipt, Receipt
  <2>2. ask' \in [Askers -> AskerType] /\ ask'[a] = IdleAsker
        /\ \A b \in Askers : b # a => ask'[b] = ask[b] /\ Receipt(b)' = Receipt(b)
    BY <1>0, <1>1, <2>1 DEF Receipt
  <2>3. \A b \in Askers : ask'[b].pc = "send" => /\ b # a /\ ask[b].pc = "send" /\ Receipt(b)' = Receipt(b)
                                                /\ Receipt(b) # Receipt(a)
    BY <1>0, <1>1, <2>1, <2>2
  <2>4. twice' = FALSE
    BY <1>0, <2>1
  <2>5. receipts \subseteq receipts' /\ receipts' \subseteq receipts \cup {Receipt(a)}
    BY <2>1
  <2>6. receipts' \subseteq Msgs \X Nat \X Nat /\ \A x \in receipts' : Below(x, retries')
    BY <1>0, <1>2, <2>1, <2>5
  <2>7. \A b \in Askers : ask'[b].pc # "idle" => ask'[b].m \in Msgs
    BY <1>0, <1>1, <2>2
  <2>8. /\ \A b \in Askers : ask'[b].pc = "send" => Below(Receipt(b)', retries') /\ Receipt(b)' \notin receipts'
        /\ \A b, c \in Askers : b # c /\ ask'[b].pc = "send" /\ ask'[c].pc = "send"
                              => Receipt(b)' # Receipt(c)'
    BY <1>0, <2>1, <2>3, <2>5
  <2> QED BY <1>0, <1>3, <2>1, <2>2, <2>4, <2>6, <2>7, <2>8
<1>8. \/ UNCHANGED <<retries, ask, receipts, twice>>
      \/ \E a \in Askers, m \in Msgs, i \in 0..1 : Undecryptable(a, m, i)
      \/ \E a \in Askers : AskerStep(a)
  BY DEF Next, vars, inVars, Stanza, Decrypted, SendMessage, HandleReceipt, HourPasses,
     LoseSession, HandlerStep, GetMessageForRetry, CountRequest, ChooseSession, FetchPreKeys,
     SendAgain, ClearDelayedRequests, PhoneStep, RegisterRequest, DelayOver, RequestFromPhone,
     DeleteRequest
<1> QED BY <1>4, <1>5, <1>6, <1>7, <1>8 DEF AskerStep
-------------------------------------------------------------------------------
(* Asking the phone *)

\* A step of one goroutine that leaves pendingPhoneRerequests alone.
LEMMA PhoneMoves ==
    ASSUME PhoneInv, NEW p \in Phones, NEW r \in PhoneType,
           phone' = [phone EXCEPT ![p] = r], pending' = pending, read' = read, owed' \subseteq Msgs,
           r.pc # "idle" => r.m \in Msgs,
           r.pc \in {"wait", "request", "delete"} => pending[r.m] = p,
           r.pc = "wait" /\ r.m \in read => r.cancelled \/ r.late
    PROVE  PhoneInv'
<1>1. phone' \in [Phones -> PhoneType] /\ phone'[p] = r /\ \A q \in Phones : q # p => phone'[q] = phone[q]
  BY DEF PhoneInv
<1>2. ASSUME NEW q \in Phones
      PROVE  /\ phone'[q].pc # "idle" => phone'[q].m \in Msgs
             /\ phone'[q].pc \in {"wait", "request", "delete"} => pending'[phone'[q].m] = q
             /\ phone'[q].pc = "wait" /\ phone'[q].m \in read' => phone'[q].cancelled \/ phone'[q].late
  <2>1. CASE q = p
    BY <1>1, <2>1
  <2>2. CASE q # p
    BY <1>1, <2>2 DEF PhoneInv, CancelReaches
  <2> QED BY <2>1, <2>2
<1>3. read' \subseteq Msgs /\ pending' \in [Msgs -> Phones \cup {None}]
  BY DEF PhoneInv
<1> QED BY <1>1, <1>2, <1>3 DEF PhoneInv, CancelReaches

\* pendingPhoneRerequests: the entry of a message is the goroutine that waits for
\* it, so the cancellation of a message that arrives finds it.
LEMMA PhoneInvStep == ReceiptInv /\ PhoneInv /\ [Next]_vars => PhoneInv'
<1> SUFFICES ASSUME ReceiptInv, PhoneInv, [Next]_vars PROVE PhoneInv'
  OBVIOUS
<1>0. /\ read \subseteq Msgs /\ owed \subseteq Msgs
      /\ pending \in [Msgs -> Phones \cup {None}] /\ phone \in [Phones -> PhoneType]
      /\ \A p \in Phones : /\ phone[p].pc # "idle" => phone[p].m \in Msgs
                           /\ phone[p].pc \in {"wait", "request", "delete"} => pending[phone[p].m] = p
                           /\ phone[p].pc = "wait" /\ phone[p].m \in read
                                => phone[p].cancelled \/ phone[p].late
      /\ \A p \in Phones : p # None
  BY NoneAssumption DEF PhoneInv, CancelReaches
<1>1. IdlePhone \in PhoneType /\ IdlePhone.pc = "idle"
  BY DEF IdlePhone, PhoneType
<1>2. CASE UNCHANGED <<read, pending, phone, owed>>
  BY <1>2 DEF PhoneInv, CancelReaches
<1>3. ASSUME NEW m \in Msgs, Decrypted(m) PROVE PhoneInv'
  <2>1. /\ read' = read \cup {m} /\ owed' = owed \ {m} /\ pending' = pending
        /\ IF pending[m] = None THEN phone' = phone
           ELSE phone' = [phone EXCEPT ![pending[m]].cancelled = TRUE]
    BY <1>3 DEF Decrypted, CancelDelayedRequest
  <2>2. /\ phone' \in [Phones -> PhoneType]
        /\ \A p \in Phones : /\ phone'[p].pc = phone[p].pc /\ phone'[p].m = phone[p].m
                             /\ phone'[p].late = phone[p].late
                             /\ phone[p].cancelled => phone'[p].cancelled
                             /\ p = pending[m] => phone'[p].cancelled
    <3>1. CASE pending[m] = None
      BY <1>0, <2>1, <3>1
    <3>2. CASE pending[m] # None
      <4>1. PICK q \in Phones : q = pending[m]
        BY <1>0, <3>2
      <4>2. PICK r : r = [phone[q] EXCEPT !.cancelled = TRUE]
        OBVIOUS
      <4>3. phone' = [phone EXCEPT ![q] = r]
        BY <1>0, <2>1, <3>2, <4>1, <4>2
      <4>4. /\ r \in PhoneType /\ r.pc = phone[q].pc /\ r.m = phone[q].m /\ r.late = phone[q].late
            /\ r.cancelled = TRUE
        <5>1. phone[q] \in PhoneType
          BY <1>0
        <5> QED BY <4>2, <5>1 DEF PhoneType
      <4> QED BY <1>0, <4>1, <4>3, <4>4
    <3> QED BY <3>1, <3>2
  <2>3. ASSUME NEW p \in Phones, phone'[p].pc = "wait", phone'[p].m \in read'
        PROVE  phone'[p].cancelled \/ phone'[p].late
    <3>1. CASE phone[p].m = m
      BY <1>0, <2>2, <2>3, <3>1
    <3>2. CASE phone[p].m # m
      BY <1>0, <2>1, <2>2, <2>3, <3>2
    <3> QED BY <3>1, <3>2
  <2>4. \A p \in Phones : /\ phone'[p].pc # "idle" => phone'[p].m \in Msgs
                          /\ phone'[p].pc \in {"wait", "request", "delete"} => pending'[phone'[p].m] = p
    BY <1>0, <2>1, <2>2
  <2>5. read' \subseteq Msgs /\ owed' \subseteq Msgs /\ pending' \in [Msgs -> Phones \cup {None}]
    BY <1>0, <2>1
  <2> QED BY <2>2, <2>3, <2>4, <2>5 DEF PhoneInv, CancelReaches
<1>4. ASSUME NEW a \in Askers, CountRetry(a) PROVE PhoneInv'
  <2>1. PICK m \in Msgs : m = ask[a].m
    BY <1>4 DEF CountRetry, ReceiptInv
  <2>2. /\ pending' = pending /\ read' = read
        /\ \/ /\ \E p \in Phones : /\ phone[p] = IdlePhone
                                   /\ phone' = [phone EXCEPT ![p].pc = "begin", ![p].m = m]
              /\ owed' = IF m \in read THEN owed ELSE owed \cup {m}
           \/ UNCHANGED <<phone, owed>>
    BY <1>4, <2>1 DEF CountRetry, Free
  <2>3. CASE UNCHANGED <<phone, owed>>
    BY <1>2, <2>2, <2>3
  <2>4. ASSUME NEW p \in Phones, phone[p] = IdlePhone,
               phone' = [phone EXCEPT ![p].pc = "begin", ![p].m = m],
               owed' = IF m \in read THEN owed ELSE owed \cup {m}
        PROVE  PhoneInv'
    <3>1. PICK r : r = [phone[p] EXCEPT !.pc = "begin", !.m = m]
      OBVIOUS
    <3>2. phone' = [phone EXCEPT ![p] = r]
      BY <1>0, <2>4, <3>1
    <3>3. r \in PhoneType /\ r.pc = "begin" /\ r.m = m
      BY <1>0, <3>1 DEF PhoneType
    <3>4. owed' \subseteq Msgs
      BY <1>0, <2>4
    <3> QED BY <2>2, <3>2, <3>3, <3>4, PhoneMoves
  <2> QED BY <2>2, <2>3, <2>4
<1>5. ASSUME NEW p \in Phones, RegisterRequest(p) PROVE PhoneInv'
  <2>1. PICK m \in Msgs : m = phone[p].m
    BY <1>0, <1>5 DEF RegisterRequest
  <2>2. phone[p].pc = "begin" /\ read' = read
    BY <1>5 DEF RegisterRequest
  <2>3. CASE pending[m] # None
    <3>1. phone' = [phone EXCEPT ![p] = IdlePhone] /\ pending' = pending /\ owed' \subseteq Msgs
      BY <1>0, <1>5, <2>1, <2>3 DEF RegisterRequest
    <3> QED BY <1>1, <2>2, <3>1, PhoneMoves
  <2>4. CASE pending[m] = None
    <3>1. PICK b \in BOOLEAN : b = (m \in read)
      <4>1. CASE m \in read
        <5>1. TRUE = (m \in read)
          BY <4>1, Zenon
        <5> QED BY <5>1, Zenon
      <4>2. CASE m \notin read
        <5>1. (m \in read) = FALSE
          BY <4>2
        <5> QED BY <5>1, Zenon
      <4> QED BY <4>1, <4>2, Zenon
    <3>2. pending' = [pending EXCEPT ![m] = p] /\ owed' = owed
          /\ phone' = [phone EXCEPT ![p].pc = "wait", ![p].late = m \in read]
      BY <1>5, <2>1, <2>4 DEF RegisterRequest
    <3>3. phone' = [phone EXCEPT ![p].pc = "wait", ![p].late = b]
      BY <3>1, <3>2, Zenon
    <3>4. m \in read => b
      BY <3>1, Zenon
    <3>5. PICK r : r = [phone[p] EXCEPT !.pc = "wait", !.late = b]
      OBVIOUS
    <3>6. phone' = [phone EXCEPT ![p] = r]
      BY <1>0, <3>3, <3>5
    <3>7. r \in PhoneType /\ r.pc = "wait" /\ r.m = m /\ r.late = b
      BY <1>0, <2>1, <3>5 DEF PhoneType
    <3>8. phone' \in [Phones -> PhoneType] /\ phone'[p] = r
          /\ \A q \in Phones : q # p => phone'[q] = phone[q]
      BY <1>0, <3>6, <3>7
    <3>9. pending' \in [Msgs -> Phones \cup {None}] /\ pending'[m] = p
          /\ \A n \in Msgs : n # m => pending'[n] = pending[n]
      BY <1>0, <3>2
    <3>10. ASSUME NEW q \in Phones
           PROVE  /\ phone'[q].pc # "idle" => phone'[q].m \in Msgs
                  /\ phone'[q].pc \in {"wait", "request", "delete"} => pending'[phone'[q].m] = q
                  /\ phone'[q].pc = "wait" /\ phone'[q].m \in read' => phone'[q].cancelled \/ phone'[q].late
      <4>1. CASE q = p
        BY <2>2, <3>4, <3>7, <3>8, <3>9, <4>1
      <4>2. CASE q # p
        BY <1>0, <2>2, <2>4, <3>8, <3>9, <4>2
      <4> QED BY <4>1, <4>2
    <3> QED BY <1>0, <2>2, <3>2, <3>8, <3>9, <3>10 DEF PhoneInv, CancelReaches
  <2> QED BY <2>3, <2>4
<1>6. ASSUME NEW p \in Phones, NEW pc \in {"request", "delete"},
             phone[p].pc \in {"wait", "request"}, phone' = [phone EXCEPT ![p].pc = pc],
             UNCHANGED <<read, pending>>, owed' \subseteq Msgs
      PROVE  PhoneInv'
  <2>1. PICK r : r = [phone[p] EXCEPT !.pc = pc]
    OBVIOUS
  <2>2. phone' = [phone EXCEPT ![p] = r]
    BY <1>0, <1>6, <2>1
  <2>3. r \in PhoneType /\ r.pc = pc /\ r.m = phone[p].m
    BY <1>0, <1>6, <2>1 DEF PhoneType
  <2>4. r.m \in Msgs /\ pending[r.m] = p /\ r.pc # "wait"
    BY <1>0, <1>6, <2>3
  <2> QED BY <1>6, <2>2, <2>3, <2>4, PhoneMoves
<1>7. ASSUME NEW p \in Phones, DelayOver(p) PROVE PhoneInv'
  <2>1. phone[p].pc = "wait" /\ UNCHANGED <<read, pending>> /\ owed' = owed
        /\ (phone' = [phone EXCEPT ![p].pc = "request"] \/ phone' = [phone EXCEPT ![p].pc = "delete"])
    BY <1>7 DEF DelayOver
  <2> QED BY <1>0, <1>6, <2>1
<1>8. ASSUME NEW p \in Phones, RequestFromPhone(p) PROVE PhoneInv'
  <2>1. phone[p].pc = "request" /\ UNCHANGED <<read, pending>> /\ owed' \subseteq owed
        /\ phone' = [phone EXCEPT ![p].pc = "delete"]
    BY <1>8 DEF RequestFromPhone
  <2> QED BY <1>0, <1>6, <2>1
<1>9. ASSUME NEW p \in Phones, DeleteRequest(p) PROVE PhoneInv'
  <2>1. PICK m \in Msgs : m = phone[p].m
    BY <1>0, <1>9 DEF DeleteRequest
  <2>2. /\ phone[p].pc = "delete" /\ read' = read /\ owed' = owed
        /\ pending' = [pending EXCEPT ![m] = None] /\ phone' = [phone EXCEPT ![p] = IdlePhone]
    BY <1>9, <2>1 DEF DeleteRequest
  <2>3. phone' \in [Phones -> PhoneType] /\ phone'[p] = IdlePhone
        /\ \A q \in Phones : q # p => phone'[q] = phone[q]
    BY <1>0, <1>1, <2>2
  <2>4. pending' \in [Msgs -> Phones \cup {None}] /\ pending[m] = p
        /\ \A n \in Msgs : n # m => pending'[n] = pending[n]
    BY <1>0, <2>1, <2>2
  <2>5. ASSUME NEW q \in Phones
        PROVE  /\ phone'[q].pc # "idle" => phone'[q].m \in Msgs
               /\ phone'[q].pc \in {"wait", "request", "delete"} => pending'[phone'[q].m] = q
               /\ phone'[q].pc = "wait" /\ phone'[q].m \in read' => phone'[q].cancelled \/ phone'[q].late
    <3>1. CASE q = p
      BY <1>1, <2>3, <3>1
    <3>2. CASE q # p
      BY <1>0, <2>2, <2>3, <2>4, <3>2
    <3> QED BY <3>1, <3>2
  <2> QED BY <1>0, <2>2, <2>3, <2>4, <2>5 DEF PhoneInv, CancelReaches
<1>10. CASE ClearDelayedRequests
  <2>1. /\ UNCHANGED <<read, pending>> /\ owed' \subseteq owed
        /\ phone' = [p \in Phones |-> IF \E m \in Msgs : pending[m] = p
                                        THEN [phone[p] EXCEPT !.cancelled = TRUE] ELSE phone[p]]
    BY <1>10 DEF ClearDelayedRequests
  <2>2. ASSUME NEW p \in Phones
        PROVE  /\ phone'[p] \in PhoneType /\ phone'[p].pc = phone[p].pc /\ phone'[p].m = phone[p].m
               /\ phone'[p].late = phone[p].late /\ (phone[p].cancelled => phone'[p].cancelled)
    <3>1. phone'[p] = phone[p] \/ phone'[p] = [phone[p] EXCEPT !.cancelled = TRUE]
      BY <2>1
    <3>2. phone[p] \in PhoneType
      BY <1>0
    <3> QED BY <3>1, <3>2 DEF PhoneType
  <2>3. phone' \in [Phones -> PhoneType]
    BY <2>1, <2>2
  <2>4. \A q \in Phones :
           /\ phone'[q].pc # "idle" => phone'[q].m \in Msgs
           /\ phone'[q].pc \in {"wait", "request", "delete"} => pending'[phone'[q].m] = q
           /\ phone'[q].pc = "wait" /\ phone'[q].m \in read' => phone'[q].cancelled \/ phone'[q].late
    BY <1>0, <2>1, <2>2
  <2>5. read' \subseteq Msgs /\ owed' \subseteq Msgs /\ pending' \in [Msgs -> Phones \cup {None}]
    BY <1>0, <2>1
  <2> QED BY <2>3, <2>4, <2>5 DEF PhoneInv, CancelReaches
<1>11. \/ UNCHANGED <<read, pending, phone, owed>>
       \/ ClearDelayedRequests \/ \E m \in Msgs : Decrypted(m)
       \/ \E a \in Askers : CountRetry(a)
       \/ \E p \in Phones : PhoneStep(p)
  BY DEF Next, vars, inVars, Stanza, Undecryptable, SendMessage, HandleReceipt, HourPasses,
     LoseSession, HandlerStep, GetMessageForRetry, CountRequest, ChooseSession, FetchPreKeys,
     SendAgain, AskerStep, SendRetryReceipt
<1> QED BY <1>2, <1>3, <1>4, <1>5, <1>7, <1>8, <1>9, <1>10, <1>11 DEF PhoneStep
-------------------------------------------------------------------------------
(* The sizes of the maps *)

\* incrementBoundedCounter keeps the map within its limit.
LEMMA IncrementHeld ==
    ASSUME NEW K, NEW c \in CounterType(K), NEW t \in Nat, NEW k \in K, NEW limit \in Nat,
           IsFiniteSet(Held(c.n)), Cardinality(Held(c.n)) <= limit
    PROVE  LET d == Increment(c, k, limit, t)
           IN  IsFiniteSet(Held(d.n)) /\ Cardinality(Held(d.n)) <= limit
<1> DEFINE b == Cleared(c, t)
           d == Increment(c, k, limit, t)
           ok == Accepts(c, k, limit, t)
<1>1. /\ b \in CounterType(K)
      /\ c.at = t => b = c
      /\ c.at # t => \A j \in K : b.n[j] = 0
  BY ClearedFacts
<1>2. /\ d \in CounterType(K)
      /\ \A j \in K : j # k => d.n[j] = b.n[j]
      /\ ~ok => d = b
  BY IncrementFacts
<1>3. ok <=> b.n[k] # 0 \/ Cardinality(Held(b.n)) < limit
  BY DEF Accepts
<1> HIDE DEF b, d, ok
<1>4. b.n \in [K -> Nat] /\ d.n \in [K -> Nat]
  BY <1>1, <1>2 DEF CounterType
<1>5. IsFiniteSet(Held(b.n)) /\ Cardinality(Held(b.n)) <= limit
  <2>1. CASE c.at = t
    BY <1>1, <2>1
  <2>2. CASE c.at # t
    <3>1. Held(b.n) = {}
      BY <1>1, <1>4, <2>2 DEF Held
    <3> QED BY <3>1, FS_EmptySet
  <2> QED BY <2>1, <2>2
<1>6. CASE ok
  <2>1. k \in Held(b.n) \/ Cardinality(Held(b.n)) < limit
    BY <1>3, <1>4, <1>6 DEF Held
  <2>2. Held(d.n) \in SUBSET (Held(b.n) \cup {k})
    BY <1>2, <1>4 DEF Held
  <2> QED BY <1>5, <2>1, <2>2, RoomForOne DEF d
<1>7. CASE ~ok
  BY <1>2, <1>5, <1>7 DEF d
<1> QED BY <1>6, <1>7

\* Every step keeps the maps of cache.go within their limits.
LEMMA SizeStep == RequestInv /\ RecreateInv /\ ReceiptInv /\ SizeInv /\ [Next]_vars => SizeInv'
<1> SUFFICES ASSUME RequestInv, RecreateInv, ReceiptInv, SizeInv, [Next]_vars PROVE SizeInv'
  OBVIOUS
<1>0. /\ now \in Nat /\ asked \in CounterType(Requests) /\ retries \in CounterType(Msgs)
      /\ recreated \in [Devices -> Nat] /\ InEntries \in Nat /\ OutEntries \in Nat /\ History \in Nat
  BY Sizes DEF RequestInv, ReceiptInv, RecreateInv
<1>1. asked' = asked \/ (IsFiniteSet(Held(asked'.n)) /\ Cardinality(Held(asked'.n)) <= InEntries)
  <2>1. ASSUME NEW h \in Handlers, CountRequest(h)
        PROVE  IsFiniteSet(Held(asked'.n)) /\ Cardinality(Held(asked'.n)) <= InEntries
    <3>1. PICK x \in Requests : asked' = Increment(asked, x, InEntries, now)
      BY <2>1 DEF CountRequest, RequestInv, Requests
    <3>2. PICK d : d = Increment(asked, x, InEntries, now)
      OBVIOUS
    <3>3. IsFiniteSet(Held(asked.n)) /\ Cardinality(Held(asked.n)) <= InEntries
      BY DEF SizeInv
    <3>4. IsFiniteSet(Held(d.n)) /\ Cardinality(Held(d.n)) <= InEntries
      BY <1>0, <3>2, <3>3, IncrementHeld
    <3> QED BY <3>1, <3>2, <3>4
  <2>2. asked' = asked \/ \E h \in Handlers : CountRequest(h)
    BY DEF Next, vars, outVars, HourPasses, Stanza, HandleReceipt, Decrypted, Undecryptable,
       ClearDelayedRequests, LoseSession, SendMessage, HandlerStep, GetMessageForRetry,
       ChooseSession, FetchPreKeys, SendAgain, AskerStep, CountRetry, SendRetryReceipt, PhoneStep,
       RegisterRequest, DelayOver, RequestFromPhone, DeleteRequest, KeepOut
  <2> QED BY <2>1, <2>2
<1>2. recreated' = recreated \/ (IsFiniteSet(Held(recreated')) /\ Cardinality(Held(recreated')) <= History)
  <2>1. ASSUME NEW h \in Handlers, ChooseSession(h)
        PROVE  recreated' = recreated
               \/ (IsFiniteSet(Held(recreated')) /\ Cardinality(Held(recreated')) <= History)
    <3>1. PICK f : f = Pruned(recreated, now, History)
      OBVIOUS
    <3>2. PICK d \in Devices : d = hnd[h].dev
      BY <2>1 DEF ChooseSession, RequestInv
    <3>3. f \in [Devices -> Nat] /\ Held(f) \in SUBSET Held(recreated)
      BY <1>0, <3>1, PrunedFacts
    <3>4. IsFiniteSet(Held(f)) /\ Cardinality(Held(f)) <= History
      <4>1. /\ IsFiniteSet(Held(recreated)) /\ Cardinality(Held(recreated)) <= History
            /\ Cardinality(Held(recreated)) \in Nat
        BY FS_CardinalityType DEF SizeInv
      <4>2. IsFiniteSet(Held(f)) /\ Cardinality(Held(f)) <= Cardinality(Held(recreated))
            /\ Cardinality(Held(f)) \in Nat
        BY <3>3, <4>1, FS_Subset, FS_CardinalityType
      <4> QED BY <1>0, <4>1, <4>2
    <3>5. CASE Recreate(h, d)
      <4>1. PICK g : g \in Puts(f, d, now, History) /\ g = recreated'
        BY <3>1, <3>5 DEF Recreate
      <4>2. g \in Puts(f, d, now, History)
        BY <4>1
      <4>3. IsFiniteSet(Held(g)) /\ Cardinality(Held(g)) <= History
        BY <1>0, <3>3, <3>4, <4>2, PutsFacts
      <4> QED BY <4>1, <4>3
    <3>6. CASE recreated' = f
      BY <3>4, <3>6
    <3> QED BY <2>1, <3>1, <3>2, <3>5, <3>6 DEF ChooseSession
  <2>2. recreated' = recreated \/ \E h \in Handlers : ChooseSession(h)
    BY DEF Next, vars, outVars, HourPasses, Stanza, HandleReceipt, Decrypted, Undecryptable,
       ClearDelayedRequests, LoseSession, SendMessage, HandlerStep, GetMessageForRetry,
       CountRequest, FetchPreKeys, SendAgain, AskerStep, CountRetry, SendRetryReceipt, PhoneStep,
       RegisterRequest, DelayOver, RequestFromPhone, DeleteRequest, KeepOut
  <2> QED BY <2>1, <2>2
<1>3. retries' = retries \/ (IsFiniteSet(Held(retries'.n)) /\ Cardinality(Held(retries'.n)) <= OutEntries)
  <2>1. ASSUME NEW a \in Askers, CountRetry(a)
        PROVE  IsFiniteSet(Held(retries'.n)) /\ Cardinality(Held(retries'.n)) <= OutEntries
    <3>0. PICK m \in Msgs : m = ask[a].m
      BY <2>1 DEF CountRetry, ReceiptInv
    <3>1. PICK i : m = ask[a].m /\ i = ask[a].count
      BY <3>0
    <3>2. PICK d : d = Increment(retries, m, OutEntries, now)
      OBVIOUS
    <3>3. PICK n : n = RetryCount(d, m, i)
      OBVIOUS
    <3>4. retries' = IF Accepts(retries, m, OutEntries, now) THEN Counted(d, m, n) ELSE d
      BY <2>1, <3>1, <3>2, <3>3 DEF CountRetry
    <3>5. IsFiniteSet(Held(retries.n)) /\ Cardinality(Held(retries.n)) <= OutEntries
      BY DEF SizeInv
    <3>6. IsFiniteSet(Held(d.n)) /\ Cardinality(Held(d.n)) <= OutEntries
      BY <1>0, <3>2, <3>5, IncrementHeld
    <3>7. CASE ~Accepts(retries, m, OutEntries, now)
      <4>1. retries' = d
        BY <3>4, <3>7
      <4> QED BY <3>6, <4>1
    <3>8. CASE Accepts(retries, m, OutEntries, now)
      <4>1. /\ d \in CounterType(Msgs) /\ d.n[m] = Cleared(retries, now).n[m] + 1
            /\ Cleared(retries, now) \in CounterType(Msgs)
        BY <1>0, <3>2, <3>8, IncrementFacts, ClearedFacts
      <4>2. d.n \in [Msgs -> Nat] /\ d.n[m] # 0
        <5>1. d.n \in [Msgs -> Nat] /\ Cleared(retries, now).n[m] \in Nat
          BY <4>1 DEF CounterType
        <5> QED BY <4>1, <5>1
      <4>3. retries' = [d EXCEPT !.n[m] = n]
        BY <3>4, <3>8 DEF Counted
      <4>4. retries'.n = [d.n EXCEPT ![m] = n]
        BY <4>1, <4>3 DEF CounterType
      <4>5. Held(retries'.n) \subseteq Held(d.n)
        BY <4>2, <4>4 DEF Held
      <4>6. PICK T : T = Held(retries'.n)
        OBVIOUS
      <4>7. T \in SUBSET Held(d.n)
        BY <4>5, <4>6
      <4>8. IsFiniteSet(T) /\ Cardinality(T) <= Cardinality(Held(d.n)) /\ Cardinality(T) \in Nat
            /\ Cardinality(Held(d.n)) \in Nat
        BY <3>6, <4>7, FS_Subset, FS_CardinalityType
      <4>9. Cardinality(T) <= OutEntries
        BY <1>0, <3>6, <4>8
      <4> QED BY <4>6, <4>8, <4>9
    <3> QED BY <3>7, <3>8
  <2>2. retries' = retries \/ \E a \in Askers : CountRetry(a)
    BY DEF Next, vars, inVars, HourPasses, Stanza, HandleReceipt, Decrypted, Undecryptable,
       ClearDelayedRequests, LoseSession, SendMessage, HandlerStep, GetMessageForRetry,
       CountRequest, ChooseSession, FetchPreKeys, SendAgain, AskerStep, SendRetryReceipt,
       PhoneStep, RegisterRequest, DelayOver, RequestFromPhone, DeleteRequest
  <2> QED BY <2>1, <2>2
<1>4. IsFiniteSet(Held(asked'.n)) /\ Cardinality(Held(asked'.n)) <= InEntries
  BY <1>1 DEF SizeInv
<1>5. IsFiniteSet(Held(recreated')) /\ Cardinality(Held(recreated')) <= History
  BY <1>2 DEF SizeInv
<1>6. IsFiniteSet(Held(retries'.n)) /\ Cardinality(Held(retries'.n)) <= OutEntries
  BY <1>3 DEF SizeInv
<1> QED BY <1>4, <1>5, <1>6 DEF SizeInv
-------------------------------------------------------------------------------
(* The theorems *)

\* A client that has just been made: nothing kept, counted, asked or waited for.
LEMMA InitIInv == Init => IInv
<1> SUFFICES ASSUME Init PROVE IInv
  OBVIOUS
<1>1. /\ now = 1 /\ recent = [list |-> <<>>, ptr |-> 0, map |-> {}] /\ order = <<>>
      /\ asked = EmptyCounter(Devices \X Keys) /\ recreated = [d \in Devices |-> 0]
      /\ session = Devices /\ again = [d \in Devices |-> NoneAgain]
      /\ hnd = [h \in Handlers |-> IdleHandler] /\ resent = [x \in Devices \X Keys |-> 0]
      /\ retries = EmptyCounter(Msgs) /\ read = {} /\ ask = [a \in Askers |-> IdleAsker]
      /\ receipts = {} /\ twice = FALSE /\ pending = [m \in Msgs |-> None]
      /\ phone = [p \in Phones |-> IdlePhone] /\ owed = {}
  BY DEF Init, Never
<1>2. ASSUME NEW K PROVE /\ EmptyCounter(K) \in CounterType(K) /\ EmptyCounter(K).at = Never
                         /\ EmptyCounter(K).clears = 0 /\ Held(EmptyCounter(K).n) = {}
  <2>1. EmptyCounter(K) = [n |-> [k \in K |-> 0], at |-> 0, clears |-> 0]
    BY DEF EmptyCounter, Never
  <2>2. /\ EmptyCounter(K) \in CounterType(K) /\ EmptyCounter(K).n = [k \in K |-> 0]
        /\ EmptyCounter(K).at = 0 /\ EmptyCounter(K).clears = 0
    BY <2>1 DEF CounterType
  <2> QED BY <2>2 DEF Held, Never
<1>3. RingInv
  <2>1. recent.list = <<>> /\ recent.ptr = 0 /\ recent.map = {} /\ Len(recent.list) = 0 /\ Len(order) = 0
        /\ recent \in [list : Seq(Keys), ptr : 0..(RecentSize - 1), map : SUBSET Keys]
        /\ order \in Seq(Keys)
    BY <1>1, Sizes, EmptySeq
  <2>2. Range(recent.list) = {} /\ IsInjective(recent.list)
    BY <2>1 DEF Range, IsInjective
  <2> QED BY <2>1, <2>2, Sizes DEF RingInv
<1>4. RequestInv
  <2>1. IdleHandler \in HandlerType /\ IdleHandler.pc = "idle"
    BY DEF IdleHandler, HandlerType
  <2>2. \A x \in Requests : Passing(x) = {}
    BY <1>1, <2>1 DEF Passing, Passes
  <2>3. asked \in CounterType(Requests) /\ asked.at = Never /\ asked.clears = 0
    BY <1>1, <1>2 DEF Requests
  <2>4. \A x \in Requests : Allowed(x) = 0 /\ resent[x] = 0
    BY <1>1, <2>3 DEF Allowed, Requests
  <2>5. \A x \in Requests : IsFiniteSet(Passing(x)) /\ resent[x] + Cardinality(Passing(x)) <= Allowed(x)
    BY <2>2, <2>4, FS_EmptySet
  <2>6. resent \in [Requests -> Nat] /\ hnd \in [Handlers -> HandlerType]
        /\ \A h \in Handlers : hnd[h].pc = "idle"
    BY <1>1, <2>1 DEF Requests
  <2> QED BY <1>1, <2>3, <2>5, <2>6 DEF RequestInv
<1>5. RecreateInv
  BY <1>1 DEF RecreateInv, AgainType, NoneAgain
<1>6. ReceiptInv
  <2>1. IdleAsker \in AskerType /\ IdleAsker.pc = "idle"
    BY DEF IdleAsker, AskerType
  <2>2. ask \in [Askers -> AskerType] /\ \A a \in Askers : ask[a].pc = "idle"
    BY <1>1, <2>1
  <2>3. retries \in CounterType(Msgs)
    BY <1>1, <1>2
  <2> QED BY <1>1, <2>2, <2>3 DEF ReceiptInv
<1>7. PhoneInv
  <2>1. IdlePhone \in PhoneType /\ IdlePhone.pc = "idle"
    BY DEF IdlePhone, PhoneType
  <2> QED BY <1>1, <2>1 DEF PhoneInv, CancelReaches
<1>8. SizeInv
  <2>1. Held(asked.n) = {} /\ Held(retries.n) = {}
    BY <1>1, <1>2
  <2>2. Held(recreated) = {}
    BY <1>1 DEF Held
  <2> QED BY <2>1, <2>2, FS_EmptySet, Sizes DEF SizeInv
<1> QED BY <1>3, <1>4, <1>5, <1>6, <1>7, <1>8 DEF IInv

\* The parts of the invariant hold of every behaviour of the client.
THEOREM Invariance == Spec => []IInv
<1>1. IInv /\ [Next]_vars => IInv'
  BY RingStep, RequestStep, RecreateStep, ReceiptStep, PhoneInvStep, SizeStep DEF IInv
<1> QED BY <1>1, InitIInv, PTL DEF Spec

\* The ring, the maps and the goroutines keep their types, and the maps their
\* limits (retry.go, cache.go).
THEOREM TypeCorrect == Spec => []TypeOK
<1>1. IInv => TypeOK
  <2> SUFFICES ASSUME IInv PROVE TypeOK
    OBVIOUS
  <2>1. /\ recent.list \in Seq(Keys) /\ recent.ptr \in 0..(RecentSize - 1)
        /\ recent.map = Range(recent.list) /\ IsInjective(recent.list)
    BY DEF IInv, RingInv
  <2>2. Len(recent.list) <= RecentSize
    <3>1. Len(order) \in Nat
      BY LenProperties DEF IInv, RingInv
    <3> QED BY <3>1, Sizes DEF IInv, RingInv
  <2>3. /\ Cardinality(Held(asked.n)) <= InEntries /\ Cardinality(Held(recreated)) <= History
        /\ Cardinality(Held(retries.n)) <= OutEntries
    BY DEF IInv, SizeInv
  <2>4. \A h \in Handlers : hnd[h].pc \in {"idle", "lookup", "count", "session", "fetch", "send"}
    BY DEF IInv, RequestInv, HandlerType
  <2>5. \A a \in Askers : ask[a].pc \in {"idle", "count", "send"}
    BY DEF IInv, ReceiptInv, AskerType
  <2>6. \A p \in Phones : phone[p].pc \in {"idle", "begin", "wait", "request", "delete"}
    BY DEF IInv, PhoneInv, PhoneType
  <2>7. session \subseteq Devices /\ read \subseteq Msgs /\ owed \subseteq Msgs
        /\ pending \in [Msgs -> Phones \cup {None}]
    BY DEF IInv, RequestInv, PhoneInv
  <2> QED BY <2>1, <2>2, <2>3, <2>4, <2>5, <2>6, <2>7 DEF TypeOK
<1> QED BY <1>1, Invariance, PTL

\* addRecentMessage: recentMessagesMap always holds exactly the messages that
\* came in last, for any size of the ring and any repetition of keys.
THEOREM RingKeepsLast == Spec => []KeepsLast
<1>1. IInv => KeepsLast
  BY RingKeeps DEF IInv
<1> QED BY <1>1, Invariance, PTL

\* handleRetryReceipt: however many goroutines handle the receipts of a device,
\* a message is sent to it again less often than the limit in each window.
THEOREM ResendLimit == Spec => []ResendsBounded
<1>1. IInv => ResendsBounded
  BY RequestBounds DEF IInv
<1> QED BY <1>1, Invariance, PTL

\* shouldRecreateSession: concurrent receipts recreate a session it finds once an
\* hour, for any size of the history; only those it misses, because they are under
\* the LID of the sender, come on top.
THEOREM SessionOnce == Spec => []RecreatedOnce
<1>1. IInv => RecreatedOnce
  BY DEF IInv, RecreateInv, RecreatedOnce
<1> QED BY <1>1, Invariance, PTL

\* sendRetryReceipt: no two retry receipts for a message carry one count between
\* two clearings, whatever counts the stanzas bring and in whatever order the
\* receipts are sent.
THEOREM ReceiptsDiffer == Spec => []CountsDistinct
<1>1. IInv => CountsDistinct
  BY DEF IInv, ReceiptInv, CountsDistinct
<1> QED BY <1>1, Invariance, PTL

\* cancelDelayedRequestFromPhone reaches the goroutine that waits for a message
\* which has been decrypted, unless that one registered afterwards.
THEOREM CancelFinds == Spec => []CancelReaches
<1>1. IInv => CancelReaches
  BY DEF IInv, PhoneInv
<1> QED BY <1>1, Invariance, PTL
===============================================================================
