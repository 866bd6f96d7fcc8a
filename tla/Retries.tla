-------------------------------- MODULE Retries --------------------------------
(***************************************************************************)
(* Retries of messages that could not be decrypted: retry.go, with its     *)
(* callers in message.go, receipt.go and send.go.                          *)
(*                                                                         *)
(* One side keeps what was sent and sends it again when a device asks: one *)
(* goroutine per retry receipt.  The other side asks: one goroutine per    *)
(* undecryptable stanza for the receipt, and one per message that asks the *)
(* phone after a delay unless the message comes or the user disconnects.   *)
(* The options of the client have their defaults, with                     *)
(* AutomaticMessageRerequestFromPhone set.                                 *)
(***************************************************************************)
EXTENDS BoundedCache, Sequences, SequencesExt

CONSTANTS Keys,         \* chat and id of messages that are sent
          Devices,      \* JIDs of the devices that ask for them
          LidOf,        \* the LID of a device, itself if no other is known
          Handlers,     \* goroutines of tryHandleRetryReceipt
          RecentSize,   \* recentMessagesSize
          InEntries,    \* maxIncomingRetryEntries
          InLimit,      \* retry requests of one device for one message that are too many
          History,      \* maxSessionRecreateHistoryItems
          Msgs,         \* ids of messages that are received
          Askers,       \* goroutines of sendRetryReceipt
          Phones,       \* goroutines of delayedRequestMessageFromPhone
          OutEntries,   \* maxMessageRetryEntries
          OutLimit,     \* retry receipts for one message that are too many
          Inputs,       \* kinds of stanzas, user operations and other events
          Budgets       \* how many of each kind a behaviour may have

ASSUME SizeAssumption ==
    /\ {RecentSize, InEntries, InLimit, History, OutEntries, OutLimit} \subseteq Nat \ {0}
    /\ Budgets \subseteq [Inputs -> Nat]

ASSUME LidAssumption ==
    LidOf \in [Devices -> Devices] /\ \A d \in Devices : LidOf[LidOf[d]] = LidOf[d]

None == "none"

ASSUME NoneAssumption == None \notin Phones

VARIABLES now,        \* the window of time
          recent,     \* recentMessagesList, recentMessagesPtr and the keys of recentMessagesMap
          order,      \* history: keys in the order in which they came into the map
          asked,      \* incomingRetryRequestCounter
          recreated,  \* sessionRecreateHistory
          session,    \* JIDs with a Signal session
          again,      \* history: sessions recreated in spite of one, since the last reason to
          hnd,        \* the goroutines of tryHandleRetryReceipt
          resent,     \* history: how often each device was sent each message again
          retries,    \* messageRetries
          read,       \* messages that were decrypted
          ask,        \* the goroutines of sendRetryReceipt
          receipts,   \* history: retry receipts sent, as message, clearing and count
          twice,      \* history: one of them was sent before
          pending,    \* pendingPhoneRerequests
          phone,      \* the goroutines of delayedRequestMessageFromPhone
          owed,       \* history: messages the phone is still to be asked for
          left        \* inputs not used yet

outVars == <<recent, order, asked, recreated, session, again, hnd, resent>>
inVars == <<retries, read, ask, receipts, twice, pending, phone, owed>>
vars == <<now, outVars, inVars, left>>

NoneAgain == [n |-> 0, missed |-> 0]
IdleHandler == [pc |-> "idle", dev |-> None, key |-> None, count |-> 0, bundle |-> FALSE]
IdleAsker == [pc |-> "idle", m |-> None, count |-> 0, clear |-> 0]
IdlePhone == [pc |-> "idle", m |-> None, cancelled |-> FALSE, late |-> FALSE]

TypeOK ==
    /\ recent.list \in Seq(Keys) /\ Len(recent.list) <= RecentSize
    /\ recent.ptr \in 0..(RecentSize - 1) /\ recent.map = Range(recent.list)
    /\ IsInjective(recent.list)
    /\ Cardinality(Held(asked.n)) <= InEntries /\ Cardinality(Held(recreated)) <= History
    /\ Cardinality(Held(retries.n)) <= OutEntries
    /\ session \subseteq Devices /\ read \subseteq Msgs /\ owed \subseteq Msgs
    /\ pending \in [Msgs -> Phones \cup {None}]
    /\ \A h \in Handlers : hnd[h].pc \in {"idle", "lookup", "count", "session", "fetch", "send"}
    /\ \A a \in Askers : ask[a].pc \in {"idle", "count", "send"}
    /\ \A p \in Phones : phone[p].pc \in {"idle", "begin", "wait", "request", "delete"}

Init ==
    /\ now = 1
    /\ recent = [list |-> <<>>, ptr |-> 0, map |-> {}] /\ order = <<>>
    /\ asked = EmptyCounter(Devices \X Keys)
    /\ recreated = [d \in Devices |-> Never] /\ session = Devices
    /\ again = [d \in Devices |-> NoneAgain]
    /\ hnd = [h \in Handlers |-> IdleHandler]
    /\ resent = [x \in Devices \X Keys |-> 0]
    /\ retries = EmptyCounter(Msgs) /\ read = {}
    /\ ask = [a \in Askers |-> IdleAsker] /\ receipts = {} /\ twice = FALSE
    /\ pending = [m \in Msgs |-> None]
    /\ phone = [p \in Phones |-> IdlePhone] /\ owed = {}
    /\ left \in Budgets
-------------------------------------------------------------------------------
\* Goroutines are alike: a new one takes the first free place.
Free(f, idle, x) == f[x] = idle /\ x = CHOOSE y \in DOMAIN f : f[y] = idle

Spend(k) == left[k] > 0 /\ left' = [left EXCEPT ![k] = @ - 1]

\* More than an hour passes.
HourPasses ==
    /\ Spend("hour") /\ now' = now + 1
    /\ again' = [d \in Devices |-> NoneAgain]
    /\ UNCHANGED <<recent, order, asked, recreated, session, hnd, resent>> /\ UNCHANGED inVars

-------------------------------------------------------------------------------
(* Sending, and the messages kept for a retry *)

\* Mutant: the pointer stays.
RememberedStuck(k) ==
    IF k \in recent.map THEN recent
    ELSE IF Len(recent.list) < RecentSize
      THEN [recent EXCEPT !.list = Append(@, k), !.map = @ \cup {k}]
      ELSE [recent EXCEPT !.list[recent.ptr + 1] = k,
                          !.map = (@ \ {recent.list[recent.ptr + 1]}) \cup {k}]

\* The map and its ring after addRecentMessage: a key that is there keeps its
\* place, any other takes that of the oldest.
Remembered(k) ==
    IF k \in recent.map THEN recent
    ELSE IF Len(recent.list) < RecentSize
      THEN [recent EXCEPT !.list = Append(@, k), !.map = @ \cup {k}]
      ELSE [list |-> [recent.list EXCEPT ![recent.ptr + 1] = k],
            ptr |-> (recent.ptr + 1) % RecentSize,
            map |-> (recent.map \ {recent.list[recent.ptr + 1]}) \cup {k}]

\* SendMessage remembers the message before it is sent, whatever becomes of it.
SendMessage(k) ==
    /\ Spend("send")
    /\ recent' = Remembered(k)
    /\ order' = IF k \in recent.map THEN order ELSE Append(order, k)
    /\ UNCHANGED <<now, asked, recreated, session, again, hnd, resent>> /\ UNCHANGED inVars

\* The session with a device goes away: an identity changed, or was cleared.
LoseSession(d) ==
    /\ d \in session /\ Spend("lose")
    /\ session' = session \ {d}
    /\ UNCHANGED <<now, recent, order, asked, recreated, again, hnd, resent>> /\ UNCHANGED inVars

-------------------------------------------------------------------------------
(* A retry receipt *)

MoveHandler(h, pc) == hnd' = [hnd EXCEPT ![h].pc = pc]
DropReceipt(h) == hnd' = [hnd EXCEPT ![h] = IdleHandler]

\* A device asks for a message it was sent, with a prekey bundle or without.
HandleReceipt(h, d, k, count, bundle) ==
    /\ Free(hnd, IdleHandler, h) /\ Spend("receipt")
    /\ k \in Range(order)
    /\ hnd' = [hnd EXCEPT ![h] = [pc |-> "lookup", dev |-> d, key |-> k, count |-> count,
                                  bundle |-> bundle]]
    /\ UNCHANGED <<now, recent, order, asked, recreated, session, again, resent>>
    /\ UNCHANGED inVars

\* getMessageForRetry.
GetMessageForRetry(h) ==
    /\ hnd[h].pc = "lookup"
    /\ IF hnd[h].key \in recent.map THEN MoveHandler(h, "count") ELSE DropReceipt(h)
    /\ UNCHANGED <<now, recent, order, asked, recreated, session, again, resent, left>>
    /\ UNCHANGED inVars

\* Mutant: off by one.
TooManyRequestsLate(n) == n > InLimit

TooManyRequests(n) == n >= InLimit

\* incomingRetryRequestCounter.
CountRequest(h) ==
    /\ hnd[h].pc = "count"
    /\ LET x == <<hnd[h].dev, hnd[h].key>>
           c == Increment(asked, x, InEntries, now)
       IN  /\ asked' = c
           /\ IF Accepts(asked, x, InEntries, now) /\ ~TooManyRequests(c.n[x])
                THEN MoveHandler(h, "session") ELSE DropReceipt(h)
    /\ UNCHANGED <<now, recent, order, recreated, session, again, resent, left>>
    /\ UNCHANGED inVars

\* One more session recreated, if there was one for d under either JID; it is
\* missed if only the LID had it.
Again(x, d) ==
    IF {d, LidOf[d]} \cap session = {} THEN x
    ELSE [n |-> x.n + 1, missed |-> IF d \in session THEN x.missed ELSE x.missed + 1]

\* Mutant: the time of a recreation is not kept.
RecreateForgets(h, d) ==
    /\ MoveHandler(h, "fetch")
    /\ again' = [again EXCEPT ![d] = Again(@, d)]
    /\ UNCHANGED recreated

\* A recreation is noted before the prekeys are fetched.
Recreate(h, d) ==
    /\ MoveHandler(h, "fetch")
    /\ recreated' \in Puts(Pruned(recreated, now, History), d, now, History)
    /\ again' = [e \in Devices |-> IF recreated'[e] = Never THEN NoneAgain
                                   ELSE IF e = d THEN Again(again[e], d)
                                   ELSE again[e]]

\* The bundle in the receipt, which may be unreadable, or shouldRecreateSession;
\* when the store cannot tell whether the sender has a session, none is recreated.
\* The sender is asked for under the JID it writes from.
ChooseSession(h) ==
    /\ hnd[h].pc = "session"
    /\ LET d == hnd[h].dev
           history == Pruned(recreated, now, History)
       IN  \/ /\ ~hnd[h].bundle
              /\ d \notin session \/ (hnd[h].count >= 2 /\ history[d] # now)
              /\ Recreate(h, d)
           \/ /\ ~hnd[h].bundle
              /\ MoveHandler(h, "send") /\ recreated' = history /\ UNCHANGED again
           \/ /\ hnd[h].bundle
              /\ MoveHandler(h, "send") \/ DropReceipt(h)
              /\ UNCHANGED <<recreated, again>>
    /\ UNCHANGED <<now, recent, order, asked, session, resent, left>> /\ UNCHANGED inVars

\* fetchPreKeys, a query that may fail.
FetchPreKeys(h) ==
    /\ hnd[h].pc = "fetch"
    /\ \/ hnd' = [hnd EXCEPT ![h].pc = "send", ![h].bundle = TRUE]
       \/ DropReceipt(h)
    /\ UNCHANGED <<now, recent, order, asked, recreated, session, again, resent, left>>
    /\ UNCHANGED inVars

\* migrateSessionStore moves the session of d to x, or fails, or finds its user in
\* migratedPNSessionsCache.
Migrated(d, x) == {session} \cup {(session \ {d}) \cup {x} : y \in session \cap {d}}

\* A WhatsApp message is encrypted to the LID of its sender, if the store has it,
\* an FB message to the sender.  encryptMessageForDevice makes a session of a
\* bundle and needs one otherwise; sendNode may fail.
SendAgain(h) ==
    /\ hnd[h].pc = "send"
    /\ LET d == hnd[h].dev
       IN  \E x \in {d, LidOf[d]} : \E s \in Migrated(d, x) :
              LET ok == hnd[h].bundle \/ x \in s
              IN  /\ session' = IF ok THEN s \cup {x} ELSE s
                  /\ \/ /\ ok
                        /\ resent' = [resent EXCEPT ![<<d, hnd[h].key>>] = @ + 1]
                     \/ UNCHANGED resent
    /\ DropReceipt(h)
    /\ UNCHANGED <<now, recent, order, asked, recreated, again, left>> /\ UNCHANGED inVars

-------------------------------------------------------------------------------
(* A message that comes in *)

KeepOut == UNCHANGED outVars /\ UNCHANGED now

\* Mutant: the phone's answer is awaited, nothing is cancelled.
CancelDelayedRequestNot(m) == UNCHANGED phone

\* cancelDelayedRequestFromPhone.
CancelDelayedRequest(m) ==
    IF pending[m] = None THEN UNCHANGED phone
    ELSE phone' = [phone EXCEPT ![pending[m]].cancelled = TRUE]

\* decryptMessages succeeds; a message comes through once.
Decrypted(m) ==
    /\ Spend("message") /\ m \notin read
    /\ read' = read \cup {m} /\ owed' = owed \ {m}
    /\ CancelDelayedRequest(m)
    /\ KeepOut /\ UNCHANGED <<retries, ask, receipts, twice, pending>>

\* decryptMessages fails, also for a part of a message of which another part was
\* read: a goroutine sends the retry receipt.  count is the retry count in the
\* stanza.
Undecryptable(a, m, count) ==
    /\ Spend("message") /\ Free(ask, IdleAsker, a)
    /\ ask' = [ask EXCEPT ![a] = [pc |-> "count", m |-> m, count |-> count, clear |-> 0]]
    /\ KeepOut /\ UNCHANGED <<retries, read, receipts, twice, pending, phone, owed>>

\* messageRetries holds n; a first count takes up that of the stanza: "In case
\* the message is a retry response, and we restarted in between".
RetryCount(c, m, inMsg) == IF c.n[m] = 1 /\ inMsg > 0 THEN inMsg + 1 ELSE c.n[m]

\* Mutant: the count that was taken up is not stored.
CountedNot(c, m, n) == c

Counted(c, m, n) == [c EXCEPT !.n[m] = n]

\* The locked part of sendRetryReceipt; with the first count a goroutine is
\* started that will ask the phone.
CountRetry(a) ==
    /\ ask[a].pc = "count"
    /\ LET m == ask[a].m
           c == Increment(retries, m, OutEntries, now)
           n == RetryCount(c, m, ask[a].count)
           ok == Accepts(retries, m, OutEntries, now)
       IN  /\ retries' = IF ok THEN Counted(c, m, n) ELSE c
           /\ ask' = IF ok /\ n < OutLimit
                       THEN [ask EXCEPT ![a] = [pc |-> "send", m |-> m, count |-> n, clear |-> c.clears]]
                       ELSE [ask EXCEPT ![a] = IdleAsker]
           /\ IF ok /\ n = 1 /\ n < OutLimit
                THEN /\ \E p \in Phones :
                           /\ Free(phone, IdlePhone, p)
                           /\ phone' = [phone EXCEPT ![p].pc = "begin", ![p].m = m]
                     /\ owed' = IF m \in read THEN owed ELSE owed \cup {m}
                ELSE UNCHANGED <<phone, owed>>
    /\ KeepOut /\ UNCHANGED <<read, receipts, twice, pending, left>>

\* sendNode of the receipt, which may fail.
SendRetryReceipt(a) ==
    /\ ask[a].pc = "send"
    /\ \/ LET r == <<ask[a].m, ask[a].clear, ask[a].count>>
          IN  receipts' = receipts \cup {r} /\ twice' = (twice \/ r \in receipts)
       \/ UNCHANGED <<receipts, twice>>
    /\ ask' = [ask EXCEPT ![a] = IdleAsker]
    /\ KeepOut /\ UNCHANGED <<retries, read, pending, phone, owed, left>>

-------------------------------------------------------------------------------
(* Asking the phone *)

\* delayedRequestMessageFromPhone up to the select.
RegisterRequest(p) ==
    /\ phone[p].pc = "begin"
    /\ LET m == phone[p].m
           q == pending[m]
       IN  IF q # None
             THEN /\ phone' = [phone EXCEPT ![p] = IdlePhone] /\ UNCHANGED pending
                  /\ owed' = IF phone[q].cancelled \/ phone[q].pc = "delete" THEN owed \ {m} ELSE owed
             ELSE /\ pending' = [pending EXCEPT ![m] = p] /\ UNCHANGED owed
                  /\ phone' = [phone EXCEPT ![p].pc = "wait", ![p].late = m \in read]
    /\ KeepOut /\ UNCHANGED <<retries, read, ask, receipts, twice, left>>

\* The select: the delay is over, or the context is done; either, if both.
DelayOver(p) ==
    /\ phone[p].pc = "wait"
    /\ \/ phone' = [phone EXCEPT ![p].pc = "request"]
       \/ phone[p].cancelled /\ phone' = [phone EXCEPT ![p].pc = "delete"]
    /\ KeepOut /\ UNCHANGED <<retries, read, ask, receipts, twice, pending, owed, left>>

\* immediateRequestMessageFromPhone; what it returns is only logged.
RequestFromPhone(p) ==
    /\ phone[p].pc = "request"
    /\ phone' = [phone EXCEPT ![p].pc = "delete"]
    /\ owed' = owed \ {phone[p].m}
    /\ KeepOut /\ UNCHANGED <<retries, read, ask, receipts, twice, pending, left>>

\* Mutant: no deferred delete.
DeleteRequestNot(p) ==
    /\ phone[p].pc = "delete"
    /\ phone' = [phone EXCEPT ![p] = IdlePhone]
    /\ KeepOut /\ UNCHANGED <<retries, read, ask, receipts, twice, pending, owed, left>>

\* The deferred delete, by the id.
DeleteRequest(p) ==
    /\ phone[p].pc = "delete"
    /\ pending' = [pending EXCEPT ![phone[p].m] = None]
    /\ phone' = [phone EXCEPT ![p] = IdlePhone]
    /\ KeepOut /\ UNCHANGED <<retries, read, ask, receipts, twice, owed, left>>

\* clearDelayedMessageRequests, at the end of Disconnect.
ClearDelayedRequests ==
    /\ Spend("disconnect")
    /\ phone' = [p \in Phones |-> IF \E m \in Msgs : pending[m] = p
                                    THEN [phone[p] EXCEPT !.cancelled = TRUE] ELSE phone[p]]
    /\ owed' = {m \in owed : pending[m] = None}
    /\ KeepOut /\ UNCHANGED <<retries, read, ask, receipts, twice, pending>>
-------------------------------------------------------------------------------
HandlerStep(h) ==
    GetMessageForRetry(h) \/ CountRequest(h) \/ ChooseSession(h) \/ FetchPreKeys(h) \/ SendAgain(h)
AskerStep(a) == CountRetry(a) \/ SendRetryReceipt(a)
PhoneStep(p) == RegisterRequest(p) \/ DelayOver(p) \/ RequestFromPhone(p) \/ DeleteRequest(p)

Stanza ==
    \/ \E h \in Handlers, d \in Devices, k \in Keys, c \in 1..2, b \in BOOLEAN :
          HandleReceipt(h, d, k, c, b)
    \/ \E m \in Msgs : Decrypted(m) \/ \E a \in Askers, c \in 0..1 : Undecryptable(a, m, c)

Next ==
    \/ HourPasses \/ Stanza \/ ClearDelayedRequests
    \/ \E k \in Keys : SendMessage(k)
    \/ \E d \in Devices : LoseSession(d)
    \/ \E h \in Handlers : HandlerStep(h)
    \/ \E a \in Askers : AskerStep(a)
    \/ \E p \in Phones : PhoneStep(p)

\* Goroutines that can run do, and delays come to an end.
Fairness ==
    /\ \A a \in Askers : WF_vars(AskerStep(a))
    /\ \A p \in Phones : WF_vars(PhoneStep(p))

Spec == Init /\ [][Next]_vars /\ Fairness
-------------------------------------------------------------------------------
\* The ring keeps exactly the last messages that came into it, also when keys
\* are sent again before or after they were dropped (addRecentMessage).
KeepsLast ==
    recent.map = Range(SubSeq(order, IF Len(order) > RecentSize THEN Len(order) - RecentSize + 1 ELSE 1,
                              Len(order)))

\* However its receipts are interleaved, a device is sent a message again less
\* than InLimit times between two clearings of the counter (handleRetryReceipt).
ResendsBounded == \A x \in Devices \X Keys : resent[x] <= (InLimit - 1) * asked.clears

\* "over an hour since last recreation": concurrent receipts of a device recreate
\* a session that exists once an hour, unless the full history has dropped the
\* device.  Those it misses come on top, without a limit: shouldRecreateSession
\* looks under the phone number the receipt comes from, and the session is under
\* its user's LID.
RecreatedOnce == \A d \in Devices : again[d].n <= again[d].missed + 1

\* Between two clearings no two retry receipts for a message carry one count.
CountsDistinct == ~twice

\* A goroutine that waits to ask the phone can be cancelled: once the message
\* has been decrypted it is, unless it registered only afterwards.
CancelReaches ==
    \A p \in Phones :
       phone[p].pc = "wait" /\ phone[p].m \in read => phone[p].cancelled \/ phone[p].late

\* A message with a first retry receipt is decrypted, or asked for from the phone,
\* or given up by a Disconnect: no clearing of the counters loses it.  A request
\* that finds another one, cancelled or done but not deleted yet, is given up too.
PhoneAsked == \A m \in Msgs : m \in owed ~> m \notin owed
===============================================================================
