---------------------------- MODULE GroupCallProofs ----------------------------
(***************************************************************************)
(* GroupCall for any rosters, key epochs, threads and number of attempts:  *)
(* what the server sends reaches the receivers and the handle, media is    *)
(* started and fails for the reasons given only, no key survives, and the  *)
(* whole implements GroupView.                                             *)
(***************************************************************************)
EXTENDS GroupCall, FiniteSetTheorems, WellFoundedInduction, TLAPS

-------------------------------------------------------------------------------
(* The inductive invariant *)

\* A roster has released every epoch it covers.
Sorted(x) == x.epoch <= x.tx /\ \A t \in Txs : x.pending[t] # NoKey => t > x.tx

\* Receivers x know no epoch newer than e, and none but k under e ...
AtMost(x, e, k) ==
    /\ x.epoch <= e /\ (x.epoch = e /\ e > 0 => x.key = k)
    /\ \A t \in Txs : x.pending[t] # NoKey => t <= e /\ (t = e => x.pending[t] = k)

\* ... and have that one, buffered until its roster comes.
Holds(x, e, k) ==
    /\ AtMost(x, e, k)
    /\ e > 0 => k # NoKey /\ IF e <= x.tx THEN x.epoch = e /\ x.key = k ELSE x.pending[e] = k

Preparing == {"snap", "fill", "publish"}
Unmaking == {"none", "pending", "connect", "mode", "early"}
Telling == {"admit", "admitted", "state"}

MType == [reg : BOOLEAN, group : BOOLEAN, direct : BOOLEAN, incoming : BOOLEAN,
          update : Updates \cup {NoUpdate}, epoch : Txs \cup {0},
          key : Keys \cup {NoKey}, call : 0..MaxCalls, media : 0..MaxCalls,
          recv : 0..MaxCalls]
CallType == [phase : {"none", "calling", "ringing", "room", "connecting", "ended"},
             groupTx : Txs \cup {0}, inRoom : BOOLEAN, roomTx : Txs \cup {0}]
MediaType == [st : {"direct", "running", "failed"} \cup Unmaking \cup Preparing,
              tx : Txs \cup {0}, bad : BOOLEAN, epoch : Txs \cup {0},
              key : Keys \cup {NoKey}, tries : 0..Attempts, cancelled : BOOLEAN]
Pcs == {"idle", "offer", "update", "apply", "install", "start", "launch", "distribute",
        "epoch", "applyEpoch", "installEpoch", "heart", "room", "inRoom", "answered",
        "clear", "end"} \cup Telling
UType == UpdateType \cup [tx : Txs \cup {0}, relay : {FALSE}, rekey : {FALSE}, bad : {FALSE}]
ThType == [pc : Pcs, u : UType, key : Keys \cup {NoKey}, h : 0..MaxCalls, recv : 0..MaxCalls,
           media : 0..MaxCalls, then : {"idle", "distribute"}]

TypeInv ==
    /\ m \in MType /\ call \in CallType
    /\ r \in [Calls -> ReceiversType] /\ md \in [Calls -> MediaType]
    /\ heart \in BOOLEAN /\ th \in [Threads -> ThType]
    /\ hist \subseteq {"roster", "epoch", "key", "handle"} /\ left \in [Inputs -> Nat]

\* What is true of thread t in state x: it has what its handler needs; epochs come
\* on the socket reader only; the receivers it has in hand have been published,
\* and what it takes down is not of the entry any more.
Local(t, x) ==
    /\ x.pc \in {"update", "apply", "install"} => x.u \in Updates
    /\ x.pc \in Telling \cup {"distribute"} \/ x.then = "distribute" => x.u.tx \in Txs
    /\ x.pc \in {"epoch", "applyEpoch", "installEpoch"} => x.u.tx \in Txs /\ x.key \in Keys
    /\ x.pc \in {"distribute", "epoch", "applyEpoch", "installEpoch"} \/ x.then = "distribute"
          => t = "raw"
    /\ x.pc \in {"applyEpoch", "installEpoch"} => m.group /\ x.u.tx > m.epoch
    /\ x.h <= m.call
    /\ x.pc \in Telling /\ x.h = m.call => x.u.tx <= m.update.tx
    /\ x.pc = "launch" => x.h # 0 /\ md[x.h].st = "pending"
    /\ x.recv # 0 => md[x.recv].st = "running" /\ r[x.recv].st # "none"
    /\ x.pc \in {"apply", "applyEpoch"} => x.recv # 0
    /\ x.pc = "clear" /\ x.recv # 0 => x.recv # m.recv
    /\ x.pc = "clear" /\ x.media # 0 => md[x.media].st # "none" /\ x.media # m.media

ThreadInv == \A t \in Threads : Local(t, th[t])

\* The entry, the goroutine started for it and the receivers it has.
EntryInv ==
    /\ m.call = 0 => ~m.reg /\ ~m.group
    /\ ~m.reg => m.media = 0 /\ m.recv = 0
    /\ m.reg /\ m.media = 0 => md[m.call].st = "none"
    /\ m.media # 0 => md[m.media].st # "none" /\ ~md[m.media].cancelled
    /\ m.recv # 0 => md[m.recv].st = "running" /\ r[m.recv].st = "made"
    /\ \A n \in Calls : n > m.call => md[n].st = "none"
    /\ \A t, s \in Threads : th[t].pc = "launch" /\ th[s].pc = "launch" /\ th[t].h = th[s].h
          => t = s

\* Media goroutine n and its receivers, of whichever call.
Goroutine(n) ==
    /\ md[n].st = "none" => ~md[n].cancelled
    /\ md[n].st \in Unmaking => /\ r[n] = Unmade
                                /\ md[n].tx = 0 /\ md[n].epoch = 0 /\ md[n].key = NoKey
    /\ md[n].st = "direct" => r[n] = [Unmade EXCEPT !.st = "made"]
    /\ md[n].st \in Preparing => r[n].st = "made"
    /\ md[n].st \in {"fill", "publish"} => md[n].epoch \in Txs /\ md[n].key \in Keys
    /\ md[n].st = "failed" => r[n].st = "cleared"
    /\ r[n].st = "made" => \/ md[n].st \in Preparing \cup {"direct"}
                           \/ n = m.recv
                           \/ \E t \in Threads : th[t].pc = "clear" /\ th[t].recv = n
    /\ r[n].st # "made" /\ "key" \notin hist => ~HoldsKeys(r[n])
    /\ Sorted(r[n])

GoInv == \A n \in Calls : Goroutine(n)

\* What the media of the entry was started with, and what it has put into its
\* receivers (x, made by goroutine g).
Filled(g, x) ==
    /\ AtMost(x, g.epoch, g.key) /\ x.tx <= g.tx
    /\ g.tx <= m.update.tx /\ g.epoch <= m.epoch /\ (g.epoch = m.epoch => g.key = m.key)
    /\ g.st = "publish" => x.tx = g.tx /\ Holds(x, g.epoch, g.key)

MediaInv ==
    /\ m.reg => (m.key = NoKey <=> m.epoch = 0) /\ (m.group \/ m.direct)
    /\ m.key # NoKey => m.group
    /\ m.media # 0 => m.direct \/ Prerequisites
    /\ m.media # 0 /\ md[m.media].st \in Preparing => Filled(md[m.media], r[m.media])
    /\ MediaFailureExplained

\* Published receivers are never behind the entry, and ahead of it only for a
\* handler that has told them and is about to install.
RosterInv ==
    m.recv # 0 /\ "roster" \notin hist =>
       /\ m.update.tx <= r[m.recv].tx
       /\ r[m.recv].tx = m.update.tx
            \/ \E t \in Threads : th[t].pc = "install" /\ th[t].u.tx = r[m.recv].tx
       /\ \A t \in Threads : th[t].pc = "install" \/ (th[t].pc = "apply" /\ th[t].recv # m.recv)
                                => th[t].u.tx <= r[m.recv].tx

EpochInv ==
    m.recv # 0 /\ "epoch" \notin hist =>
       /\ th["raw"].pc \in {"applyEpoch", "installEpoch"} => th["raw"].recv = m.recv
       /\ IF th["raw"].pc = "installEpoch" THEN Holds(r[m.recv], th["raw"].u.tx, th["raw"].key)
                                           ELSE Holds(r[m.recv], m.epoch, m.key)

\* The handle is behind the entry only while a thread is about to tell it, or
\* when it took the place of one that had been told.
HandleInv ==
    /\ call.groupTx <= m.update.tx
    /\ "handle" \in hist => /\ call.groupTx = 0
                            /\ \A t \in Threads : th[t].pc \in Telling => th[t].h # m.call
    /\ "handle" \notin hist =>
          call.groupTx = m.update.tx
            \/ \E t \in Threads : /\ th[t].pc \in Telling /\ th[t].h = m.call
                                  /\ th[t].u.tx = m.update.tx

\* Media that could be started is, or a thread is on its way to do so.
StartInv ==
    m.reg /\ m.group /\ m.key # NoKey /\ m.update.relay =>
       m.media # 0 \/ \E t \in Threads : th[t].pc \in Telling \cup {"start"}

IInv == /\ TypeInv /\ EntryInv /\ GoInv /\ ThreadInv /\ MediaInv /\ RosterInv /\ EpochInv
        /\ HandleInv /\ StartInv
-------------------------------------------------------------------------------
(* The receivers *)

\* Transaction ids are positive; no key is NoKey.
LEMMA Ids ==
    /\ Txs \subseteq Nat /\ \A t \in Txs : t \in Nat /\ t > 0
    /\ \A t \in Txs \cup {0} : t \in Nat /\ (t # 0 => t \in Txs)
    /\ \A k \in Keys : k # NoKey
<1>1. Txs \subseteq Nat /\ 0 \notin Txs /\ NoKey \notin Keys
  BY TxAssumption
<1> QED BY <1>1

\* The fields of the receivers.
LEMMA Fields ==
    ASSUME NEW x \in ReceiversType
    PROVE  /\ x.st \in {"none", "made", "cleared"} /\ x.tx \in Txs \cup {0} /\ x.tx \in Nat
           /\ x.epoch \in Txs \cup {0} /\ x.epoch \in Nat /\ x.key \in Keys \cup {NoKey}
           /\ x.pending \in [Txs -> Keys \cup {NoKey}]
<1>1. /\ x.st \in {"none", "made", "cleared"} /\ x.tx \in Txs \cup {0}
      /\ x.epoch \in Txs \cup {0} /\ x.key \in Keys \cup {NoKey}
      /\ x.pending \in [Txs -> Keys \cup {NoKey}]
  BY DEF ReceiversType
<1> QED BY <1>1, Ids

\* A bounded set of transaction ids has a newest one.
LEMMA BoundedMax ==
    ASSUME NEW S \in SUBSET Nat, NEW n \in Nat, \A y \in S : y <= n, S # {}
    PROVE  Max(S) \in S /\ \A y \in S : y <= Max(S)
<1>1. IsFiniteSet(S)
  BY FS_BoundedSetOfNaturals
<1> DEFINE Above(x) == {y \in S : y > x}
           T == {Above(x) : x \in S}
<1>2. T \subseteq FiniteSubsetsOf(S) /\ T # {}
  <2>1. ASSUME NEW x \in S PROVE Above(x) \in SUBSET S /\ IsFiniteSet(Above(x))
    <3>1. Above(x) \in SUBSET S
      OBVIOUS
    <3> QED BY <1>1, <3>1, FS_Subset
  <2> QED BY <2>1 DEF FiniteSubsetsOf
<1>3. PICK U \in T : \A V \in T : ~(<<V, U>> \in StrictSubsetOrdering(S))
  <2> HIDE DEF T
  <2> QED BY <1>2, FS_StrictSubsetOrderingWellFounded, WFMin
<1>4. PICK x \in S : U = Above(x)
  OBVIOUS
<1>5. \A y \in S : ~(y > x)
  <2> SUFFICES ASSUME NEW y \in S, y > x PROVE FALSE
    OBVIOUS
  <2>1. Above(y) \in T /\ Above(y) \subseteq Above(x) /\ y \in Above(x) /\ y \notin Above(y)
    <3>1. x \in Nat /\ y \in Nat /\ \A z \in S : z \in Nat
      OBVIOUS
    <3>2. \A z \in S : z > y => z > x
      BY <3>1
    <3>3. ~(y > y)
      BY <3>1
    <3> QED BY <3>2, <3>3
  <2>2. <<Above(y), U>> \in StrictSubsetOrdering(S)
    BY <1>4, <2>1 DEF StrictSubsetOrdering
  <2> QED BY <1>3, <2>1, <2>2
<1>6. \A y \in S : x >= y
  BY <1>5
<1> QED BY <1>6 DEF Max

\* The newest buffered epoch a roster releases.
LEMMA NewestFacts ==
    ASSUME NEW x \in ReceiversType, NEW tx \in Txs \cup {0}
    PROVE  LET n == Newest(x, tx)
           IN  /\ n \in Txs \cup {0} /\ n <= tx
               /\ n # 0 => x.pending[n] # NoKey
               /\ \A t \in Txs : t <= tx /\ x.pending[t] # NoKey => t <= n
<1> DEFINE S == Released(x, tx) \cup {0}
<1>1. Txs \subseteq Nat /\ tx \in Nat
  BY Ids
<1>2. S \in SUBSET Nat /\ S # {} /\ \A y \in S : y <= tx
  <2>1. \A y \in Released(x, tx) : y \in Nat /\ y <= tx
    BY <1>1 DEF Released
  <2>2. 0 <= tx /\ 0 \in Nat
    BY <1>1
  <2> QED BY <2>1, <2>2
<1>3. Max(S) \in S /\ \A y \in S : y <= Max(S)
  <2> HIDE DEF S
  <2> QED BY <1>1, <1>2, BoundedMax
<1>4. Newest(x, tx) = Max(S)
  BY DEF Newest
<1>5. PICK n : n = Max(S)
  OBVIOUS
<1>6. n \in S /\ \A y \in S : y <= n
  BY <1>3, <1>5
<1>7. n \in Txs \cup {0} /\ n <= tx /\ (n # 0 => x.pending[n] # NoKey)
      /\ \A t \in Txs : t <= tx /\ x.pending[t] # NoKey => t <= n
  BY <1>1, <1>2, <1>6 DEF Released
<1> QED BY <1>4, <1>5, <1>7

\* What an epoch that is held implies about newer ones.
LEMMA HoldsNewer ==
    ASSUME NEW x \in ReceiversType, NEW e \in Txs \cup {0}, NEW k, NEW f \in Txs, NEW l,
           AtMost(x, e, k), e < f
    PROVE  AtMost(x, f, l)
<1>1. Txs \subseteq Nat /\ e \in Nat /\ f \in Nat /\ x.epoch \in Nat
  BY Ids, Fields
<1> QED BY <1>1 DEF AtMost

\* The roster that commitGroupUpdateLocked leaves, and the epoch it releases.
LEMMA CommitFacts ==
    ASSUME NEW x \in ReceiversType, Sorted(x), NEW tx \in Txs, tx > x.tx
    PROVE  /\ Commit(x, tx) \in ReceiversType /\ Sorted(Commit(x, tx))
           /\ Commit(x, tx).st = x.st /\ Commit(x, tx).tx = tx /\ Commit(x, tx).epoch >= x.epoch
           /\ ~HoldsKeys(x) => ~HoldsKeys(Commit(x, tx))
           /\ \A e \in Txs \cup {0}, k \in Keys \cup {NoKey} :
                 /\ AtMost(x, e, k) => AtMost(Commit(x, tx), e, k)
                 /\ Holds(x, e, k) => Holds(Commit(x, tx), e, k)
<1>1. PICK n : n = Newest(x, tx)
  OBVIOUS
<1>2. /\ n \in Txs \cup {0} /\ n <= tx /\ (n # 0 => x.pending[n] # NoKey)
      /\ \A t \in Txs : t <= tx /\ x.pending[t] # NoKey => t <= n
  BY <1>1, NewestFacts
<1>3. /\ Txs \subseteq Nat /\ tx \in Nat /\ n \in Nat /\ x.tx \in Txs \cup {0} /\ x.tx \in Nat
      /\ x.epoch \in Txs \cup {0} /\ x.epoch \in Nat /\ x.key \in Keys \cup {NoKey}
      /\ x.pending \in [Txs -> Keys \cup {NoKey}] /\ x.st \in {"none", "made", "cleared"}
      /\ x.epoch <= x.tx /\ \A t \in Txs : x.pending[t] # NoKey => t > x.tx
  BY <1>2, Ids, Fields DEF Sorted
<1>4. PICK f : f = [t \in Txs |-> IF t <= tx THEN NoKey ELSE x.pending[t]]
  OBVIOUS
<1>5. f \in [Txs -> Keys \cup {NoKey}] /\ \A t \in Txs : f[t] = IF t <= tx THEN NoKey ELSE x.pending[t]
  BY <1>3, <1>4
<1>6. PICK b : b = [x EXCEPT !.tx = tx, !.pending = f]
  OBVIOUS
<1>7. /\ b \in ReceiversType /\ b.tx = tx /\ b.pending = f /\ b.st = x.st /\ b.epoch = x.epoch
      /\ b.key = x.key
  BY <1>3, <1>5, <1>6 DEF ReceiversType
<1>8. PICK y : y = Commit(x, tx)
  OBVIOUS
<1>9. y = IF n > x.epoch THEN [b EXCEPT !.epoch = n, !.key = x.pending[n]] ELSE b
  BY <1>1, <1>3, <1>4, <1>6, <1>8 DEF Commit
<1>10. n > x.epoch => n \in Txs /\ x.pending[n] \in Keys \cup {NoKey}
  BY <1>2, <1>3
<1>11. /\ y \in ReceiversType /\ y.st = x.st /\ y.tx = tx /\ y.pending = f
       /\ y.epoch = (IF n > x.epoch THEN n ELSE x.epoch)
       /\ y.key = (IF n > x.epoch THEN x.pending[n] ELSE x.key)
  <2>1. CASE n > x.epoch
    <3>1. y = [b EXCEPT !.epoch = n, !.key = x.pending[n]]
      BY <1>9, <2>1
    <3> QED BY <1>2, <1>7, <1>10, <2>1, <3>1 DEF ReceiversType
  <2>2. CASE ~(n > x.epoch)
    BY <1>7, <1>9, <2>2
  <2> QED BY <2>1, <2>2
<1>12. Sorted(y) /\ y.epoch >= x.epoch
  BY <1>2, <1>3, <1>5, <1>11 DEF Sorted
<1>13. ASSUME ~HoldsKeys(x) PROVE ~HoldsKeys(y)
  <2>1. x.key = NoKey /\ x.pending = NoPending
    BY <1>13 DEF HoldsKeys
  <2>2. \A t \in Txs : x.pending[t] = NoKey
    BY <2>1 DEF NoPending
  <2>3. n = 0
    BY <1>2, <2>2
  <2>4. y.key = NoKey
    BY <1>3, <1>11, <2>1, <2>3
  <2>5. f = NoPending
    BY <1>4, <2>2 DEF NoPending
  <2> QED BY <1>11, <2>4, <2>5 DEF HoldsKeys
<1>14. ASSUME NEW e \in Txs \cup {0}, NEW k \in Keys \cup {NoKey}, AtMost(x, e, k)
       PROVE  AtMost(y, e, k)
  <2>1. e \in Nat
    BY Ids
  <2>2. /\ x.epoch <= e /\ (x.epoch = e /\ e > 0 => x.key = k)
        /\ \A t \in Txs : x.pending[t] # NoKey => t <= e /\ (t = e => x.pending[t] = k)
    BY <1>14 DEF AtMost
  <2>3. y.epoch <= e /\ (y.epoch = e /\ e > 0 => y.key = k)
    BY <1>2, <1>3, <1>10, <1>11, <2>1, <2>2
  <2>4. \A t \in Txs : y.pending[t] # NoKey => t <= e /\ (t = e => y.pending[t] = k)
    BY <1>5, <1>11, <2>2
  <2> QED BY <2>3, <2>4 DEF AtMost
<1>15. ASSUME NEW e \in Txs \cup {0}, NEW k \in Keys \cup {NoKey}, Holds(x, e, k)
       PROVE  Holds(y, e, k)
  <2>0. AtMost(x, e, k) /\ AtMost(y, e, k) /\ (e > 0 => k # NoKey)
        /\ (e > 0 => IF e <= x.tx THEN x.epoch = e /\ x.key = k ELSE x.pending[e] = k)
    BY <1>14, <1>15 DEF Holds
  <2>1. e \in Nat
    BY Ids
  <2>2. ASSUME e > 0 PROVE IF e <= tx THEN y.epoch = e /\ y.key = k ELSE y.pending[e] = k
    <3>0. e \in Txs
      BY <2>2
    <3>1. CASE e <= x.tx
      <4>1. x.epoch = e /\ x.key = k /\ e <= tx
        BY <1>3, <2>0, <2>1, <2>2, <3>1
      <4>2. n <= e
        BY <1>2, <1>3, <2>0, <2>1 DEF AtMost
      <4> QED BY <1>3, <1>11, <2>1, <4>1, <4>2
    <3>2. CASE ~(e <= x.tx)
      <4>1. x.pending[e] = k
        BY <2>0, <2>2, <3>2
      <4>2. CASE e <= tx
        <5>1. n = e
          BY <1>2, <1>3, <2>0, <2>1, <2>2, <3>0, <4>1, <4>2 DEF AtMost
        <5> QED BY <1>3, <1>11, <2>1, <3>2, <4>1, <4>2, <5>1
      <4>3. CASE ~(e <= tx)
        BY <1>5, <1>11, <3>0, <4>1, <4>3
      <4> QED BY <4>2, <4>3
    <3> QED BY <3>1, <3>2
  <2> QED BY <1>11, <2>0, <2>2 DEF Holds
<1> QED BY <1>8, <1>11, <1>12, <1>13, <1>14, <1>15

\* ApplyGroupUpdate: a roster goes forward or is refused for its own fault only;
\* no epoch is lost by it.
LEMMA UpdateFacts ==
    ASSUME NEW x \in ReceiversType, Sorted(x), NEW tx \in Txs \cup {0}, NEW bad
    PROVE  LET y == ApplyGroupUpdate(x, tx, bad)
           IN  /\ y.err => bad /\ y.recv = x
               /\ ~y.err => y.recv.tx = IF tx <= x.tx THEN x.tx ELSE tx
               /\ y.recv \in ReceiversType /\ Sorted(y.recv)
               /\ y.recv.st = x.st /\ y.recv.tx >= x.tx /\ y.recv.epoch >= x.epoch
               /\ ~HoldsKeys(x) => ~HoldsKeys(y.recv)
               /\ \A e \in Txs \cup {0}, k \in Keys \cup {NoKey} :
                     /\ AtMost(x, e, k) => AtMost(y.recv, e, k)
                     /\ Holds(x, e, k) => Holds(y.recv, e, k)
<1> DEFINE n == Newest(x, tx)
           y == ApplyGroupUpdate(x, tx, bad)
           clash == n # 0 /\ n = x.epoch /\ x.pending[n] # x.key
<1>1. tx \in Nat /\ x.tx \in Nat /\ x.epoch \in Nat /\ x.tx >= x.tx /\ x.epoch >= x.epoch
  BY Ids, Fields
<1>2. ~clash
  <2>1. n \in Txs \cup {0} /\ (n # 0 => x.pending[n] # NoKey)
    BY NewestFacts
  <2> HIDE DEF n
  <2>2. n \in Nat /\ (n # 0 => n \in Txs)
    BY <2>1, Ids
  <2>3. n # 0 => n > x.tx
    BY <2>1, <2>2 DEF Sorted
  <2> QED BY <1>1, <2>2, <2>3 DEF Sorted
<1>3. CASE tx <= x.tx
  <2>1. y = [recv |-> x, err |-> FALSE]
    BY <1>1, <1>3 DEF ApplyGroupUpdate, Done
  <2>2. y.recv = x /\ ~y.err
    BY <2>1
  <2> HIDE DEF y
  <2> QED BY <1>1, <1>3, <2>2 DEF y
<1>4. CASE ~(tx <= x.tx) /\ bad
  <2>1. y = [recv |-> x, err |-> TRUE]
    BY <1>1, <1>4 DEF ApplyGroupUpdate, Failed
  <2>2. y.recv = x /\ y.err
    BY <2>1
  <2> HIDE DEF y
  <2> QED BY <1>1, <1>4, <2>2 DEF y
<1>5. CASE ~(tx <= x.tx) /\ ~bad
  <2>0. tx > x.tx /\ tx \in Txs
    BY <1>1, <1>5, Ids
  <2>1. y = [recv |-> Commit(x, tx), err |-> FALSE]
    <3> HIDE DEF clash
    <3>1. y = CASE tx <= x.tx -> Done(x)
                [] tx > x.tx /\ (bad \/ clash) -> Failed(x)
                [] OTHER -> Done(Commit(x, tx))
      BY DEF ApplyGroupUpdate, clash
    <3> QED BY <1>2, <1>5, <2>0, <3>1 DEF Done
  <2>2. y.recv = Commit(x, tx) /\ ~y.err
    BY <2>1
  <2>3. /\ Commit(x, tx) \in ReceiversType /\ Sorted(Commit(x, tx))
        /\ Commit(x, tx).st = x.st /\ Commit(x, tx).tx = tx /\ Commit(x, tx).epoch >= x.epoch
        /\ ~HoldsKeys(x) => ~HoldsKeys(Commit(x, tx))
        /\ \A e \in Txs \cup {0}, k \in Keys \cup {NoKey} :
              /\ AtMost(x, e, k) => AtMost(Commit(x, tx), e, k)
              /\ Holds(x, e, k) => Holds(Commit(x, tx), e, k)
    BY <2>0, CommitFacts
  <2>4. tx >= x.tx
    BY <1>1, <2>0
  <2>5. PICK c : c = Commit(x, tx)
    OBVIOUS
  <2> HIDE DEF y
  <2> QED BY <1>5, <2>2, <2>3, <2>4, <2>5 DEF y
<1> QED BY <1>3, <1>4, <1>5

\* ApplyGroupRawEpoch: an epoch newer than all that is known, or known with the
\* same key, is taken.
LEMMA EpochFacts ==
    ASSUME NEW x \in ReceiversType, Sorted(x), NEW tx \in Txs, NEW k \in Keys
    PROVE  LET y == ApplyGroupRawEpoch(x, tx, k)
           IN  /\ y.recv \in ReceiversType /\ Sorted(y.recv)
               /\ y.recv.st = x.st /\ y.recv.tx = x.tx /\ y.recv.epoch >= x.epoch
               /\ AtMost(x, tx, k) => ~y.err /\ Holds(y.recv, tx, k)
<1>0. /\ tx \in Nat /\ tx > 0 /\ k # NoKey /\ x.tx \in Nat /\ x.epoch \in Nat /\ x.key \in Keys \cup {NoKey}
      /\ x.pending \in [Txs -> Keys \cup {NoKey}] /\ x.epoch >= x.epoch /\ Txs \subseteq Nat
      /\ x.st \in {"none", "made", "cleared"} /\ x.tx \in Txs \cup {0}
  BY Ids, Fields
<1> DEFINE y == ApplyGroupRawEpoch(x, tx, k)
<1>1. CASE tx > x.tx /\ x.pending[tx] = NoKey
  <2>1. y = [recv |-> [x EXCEPT !.pending[tx] = k], err |-> FALSE]
    BY <1>0, <1>1 DEF ApplyGroupRawEpoch, Done
  <2>2. PICK f : f = [x.pending EXCEPT ![tx] = k]
    OBVIOUS
  <2>3. f \in [Txs -> Keys \cup {NoKey}] /\ f[tx] = k /\ \A t \in Txs : t # tx => f[t] = x.pending[t]
    BY <1>0, <2>2
  <2>4. PICK z : z = y.recv
    OBVIOUS
  <2>5. z = [x EXCEPT !.pending[tx] = k] /\ ~y.err
    BY <2>1, <2>4
  <2>6. z \in ReceiversType /\ z.pending = f /\ z.st = x.st /\ z.tx = x.tx /\ z.epoch = x.epoch /\ z.key = x.key
    BY <1>0, <2>2, <2>3, <2>5 DEF ReceiversType
  <2>7. Sorted(z)
    BY <1>1, <2>3, <2>6 DEF Sorted
  <2>8. AtMost(x, tx, k) => AtMost(z, tx, k)
    BY <1>0, <2>3, <2>6 DEF AtMost
  <2>9. ~(tx <= z.tx)
    BY <1>0, <1>1, <2>6
  <2>10. AtMost(x, tx, k) => Holds(z, tx, k)
    BY <1>0, <2>3, <2>6, <2>8, <2>9 DEF Holds
  <2> HIDE DEF y
  <2> QED BY <1>0, <2>4, <2>5, <2>6, <2>7, <2>10 DEF y
<1>2. CASE tx > x.tx /\ x.pending[tx] # NoKey
  <2>1. y = IF x.pending[tx] = k THEN [recv |-> x, err |-> FALSE] ELSE [recv |-> x, err |-> TRUE]
    BY <1>0, <1>2 DEF ApplyGroupRawEpoch, Done, Failed
  <2>2. y.recv = x /\ (y.err <=> x.pending[tx] # k)
    BY <2>1
  <2>3. AtMost(x, tx, k) => x.pending[tx] = k
    BY <1>2 DEF AtMost
  <2>4. ~(tx <= x.tx)
    BY <1>0, <1>2
  <2>5. AtMost(x, tx, k) => Holds(x, tx, k)
    BY <1>0, <2>3, <2>4 DEF Holds
  <2> HIDE DEF y
  <2> QED BY <1>0, <2>2, <2>3, <2>5 DEF y
<1>3. CASE tx <= x.tx /\ tx < x.epoch
  <2>1. y = [recv |-> x, err |-> FALSE]
    BY <1>0, <1>3 DEF ApplyGroupRawEpoch, Done
  <2>2. y.recv = x
    BY <2>1
  <2>3. ~AtMost(x, tx, k)
    BY <1>0, <1>3 DEF AtMost
  <2> HIDE DEF y
  <2> QED BY <1>0, <2>2, <2>3 DEF y
<1>4. CASE tx <= x.tx /\ tx = x.epoch
  <2>1. y = IF x.key = k THEN [recv |-> x, err |-> FALSE] ELSE [recv |-> x, err |-> TRUE]
    BY <1>0, <1>4 DEF ApplyGroupRawEpoch, Done, Failed
  <2>2. y.recv = x /\ (y.err <=> x.key # k)
    BY <2>1
  <2>3. AtMost(x, tx, k) => x.key = k
    BY <1>0, <1>4 DEF AtMost
  <2>4. AtMost(x, tx, k) => Holds(x, tx, k)
    BY <1>0, <1>4, <2>3 DEF Holds
  <2> HIDE DEF y
  <2> QED BY <1>0, <2>2, <2>3, <2>4 DEF y
<1>5. CASE tx <= x.tx /\ tx > x.epoch
  <2>1. y = [recv |-> [x EXCEPT !.epoch = tx, !.key = k], err |-> FALSE]
    BY <1>0, <1>5 DEF ApplyGroupRawEpoch, Done
  <2>2. PICK z : z = y.recv
    OBVIOUS
  <2>3. z = [x EXCEPT !.epoch = tx, !.key = k] /\ ~y.err
    BY <2>1, <2>2
  <2>4. z \in ReceiversType /\ z.pending = x.pending /\ z.st = x.st /\ z.tx = x.tx /\ z.epoch = tx /\ z.key = k
    BY <1>0, <2>3 DEF ReceiversType
  <2>5. Sorted(z) /\ z.epoch >= x.epoch
    BY <1>0, <1>5, <2>4 DEF Sorted
  <2>6. AtMost(x, tx, k) => AtMost(z, tx, k)
    BY <1>0, <2>4 DEF AtMost
  <2>7. AtMost(x, tx, k) => Holds(z, tx, k)
    BY <1>0, <1>5, <2>4, <2>6 DEF Holds
  <2> HIDE DEF y
  <2> QED BY <2>2, <2>3, <2>4, <2>5, <2>7 DEF y
<1>6. tx > x.tx \/ (tx <= x.tx /\ (tx < x.epoch \/ tx = x.epoch \/ tx > x.epoch))
  BY <1>0
<1> QED BY <1>1, <1>2, <1>3, <1>4, <1>5, <1>6

\* clear wipes every key and keeps the roster's transaction id.
LEMMA ClearFacts ==
    ASSUME NEW x \in ReceiversType
    PROVE  /\ Clear(x) \in ReceiversType /\ Sorted(Clear(x)) /\ ~HoldsKeys(Clear(x))
           /\ Clear(x).st = "cleared" /\ Clear(x).tx = x.tx
<1>1. x.tx \in Txs \cup {0} /\ x.tx \in Nat
  BY Fields
<1>2. NoPending \in [Txs -> Keys \cup {NoKey}] /\ \A t \in Txs : NoPending[t] = NoKey
  BY DEF NoPending
<1>3. PICK y : y = Clear(x)
  OBVIOUS
<1>4. y \in ReceiversType /\ y.st = "cleared" /\ y.tx = x.tx /\ y.epoch = 0 /\ y.key = NoKey
      /\ y.pending = NoPending
  BY <1>2, <1>3 DEF Clear, ReceiversType
<1>5. Sorted(y) /\ ~HoldsKeys(y)
  BY <1>1, <1>2, <1>4 DEF Sorted, HoldsKeys
<1> QED BY <1>3, <1>4, <1>5

\* Receivers that have just been made.
LEMMA UnmadeFacts ==
    ASSUME NEW s \in {"none", "made"}
    PROVE  LET x == [Unmade EXCEPT !.st = s]
           IN  /\ x \in ReceiversType /\ Sorted(x) /\ ~HoldsKeys(x) /\ x.st = s /\ x.tx = 0
               /\ x.epoch = 0 /\ x.key = NoKey /\ Holds(x, 0, NoKey)
<1>1. NoPending \in [Txs -> Keys \cup {NoKey}] /\ \A t \in Txs : NoPending[t] = NoKey
  BY DEF NoPending
<1>2. PICK x : x = [Unmade EXCEPT !.st = s]
  OBVIOUS
<1>3. x \in ReceiversType /\ x.st = s /\ x.tx = 0 /\ x.epoch = 0 /\ x.key = NoKey /\ x.pending = NoPending
  BY <1>1, <1>2 DEF Unmade, ReceiversType
<1>4. Sorted(x) /\ ~HoldsKeys(x) /\ Holds(x, 0, NoKey)
  BY <1>1, <1>3 DEF Sorted, HoldsKeys, Holds, AtMost
<1> QED BY <1>2, <1>3, <1>4
-------------------------------------------------------------------------------
(* Types and threads *)

\* The transaction id of what a thread handles.
LEMMA UpdateTx ==
    /\ \A u \in UType : u.tx \in Txs \cup {0} /\ u.tx \in Nat
    /\ \A u \in Updates : u \in UType /\ u.tx \in Txs
    /\ NoUpdate \in UType /\ NoUpdate.tx = 0 /\ NoUpdate.relay = FALSE /\ NoUpdate.bad = FALSE
    /\ \A t \in Txs \cup {0} : [NoUpdate EXCEPT !.tx = t] \in UType /\ [NoUpdate EXCEPT !.tx = t].tx = t
<1>1. \A u \in UType : u.tx \in Txs \cup {0}
  BY DEF UType, UpdateType
<1>2. \A u \in Updates : u \in UpdateType
  BY GroupAssumption
<1>3. \A u \in Updates : u \in UType /\ u.tx \in Txs
  BY <1>2 DEF UpdateType, UType
<1>4. NoUpdate \in UType /\ NoUpdate.tx = 0 /\ NoUpdate.relay = FALSE /\ NoUpdate.bad = FALSE
  BY DEF NoUpdate, UType
<1>5. \A t \in Txs \cup {0} : [NoUpdate EXCEPT !.tx = t] \in UType /\ [NoUpdate EXCEPT !.tx = t].tx = t
  BY DEF NoUpdate, UType
<1> QED BY <1>1, <1>3, <1>4, <1>5, Ids

\* The numbers of handles and media goroutines.
LEMMA CallIds ==
    /\ \A n \in 0..MaxCalls : n \in Nat /\ (n # 0 => n \in Calls)
    /\ \A n \in Calls : n \in Nat /\ n # 0 /\ n \in 0..MaxCalls
    /\ 0 \in 0..MaxCalls /\ MaxCalls \in Nat
  BY GroupAssumption DEF Calls

\* The fields of the entry and of its handle.
LEMMA Types ==
    ASSUME TypeInv
    PROVE  /\ m.reg \in BOOLEAN /\ m.group \in BOOLEAN /\ m.direct \in BOOLEAN /\ m.incoming \in BOOLEAN
           /\ m.call \in 0..MaxCalls /\ m.media \in 0..MaxCalls /\ m.recv \in 0..MaxCalls
           /\ m.call \in Nat /\ (m.media # 0 => m.media \in Calls) /\ (m.recv # 0 => m.recv \in Calls)
           /\ m.update \in Updates \cup {NoUpdate} /\ m.update.tx \in Txs \cup {0} /\ m.update.tx \in Nat
           /\ m.update.bad \in BOOLEAN /\ (m.update.relay => m.update.tx > 0)
           /\ m.epoch \in Txs \cup {0} /\ m.epoch \in Nat /\ m.key \in Keys \cup {NoKey}
           /\ call.groupTx \in Txs \cup {0} /\ call.groupTx \in Nat /\ call.roomTx \in Txs \cup {0}
           /\ call.inRoom \in BOOLEAN
<1>1. /\ m.reg \in BOOLEAN /\ m.group \in BOOLEAN /\ m.direct \in BOOLEAN /\ m.incoming \in BOOLEAN
      /\ m.call \in 0..MaxCalls /\ m.media \in 0..MaxCalls /\ m.recv \in 0..MaxCalls
      /\ m.update \in Updates \cup {NoUpdate} /\ m.epoch \in Txs \cup {0} /\ m.key \in Keys \cup {NoKey}
  BY DEF TypeInv, MType
<1>2. m.update \in UType /\ m.update.tx \in Txs \cup {0}
  BY <1>1, UpdateTx
<1>3. m.update.bad \in BOOLEAN
  BY <1>2 DEF UType, UpdateType
<1>4. call.groupTx \in Txs \cup {0} /\ call.roomTx \in Txs \cup {0} /\ call.inRoom \in BOOLEAN
  BY DEF TypeInv, CallType
<1>5. m.update.relay => m.update.tx > 0
  <2>1. CASE m.update \in Updates
    BY <2>1, UpdateTx, Ids
  <2>2. CASE m.update = NoUpdate
    BY <2>2, UpdateTx
  <2> QED BY <1>1, <2>1, <2>2
<1> QED BY <1>1, <1>2, <1>3, <1>4, <1>5, Ids, CallIds

\* The fields of a media goroutine.
LEMMA GoTypes ==
    ASSUME NEW g \in MediaType
    PROVE  /\ g.st \in {"direct", "running", "failed"} \cup Unmaking \cup Preparing
           /\ g.tx \in Txs \cup {0} /\ g.tx \in Nat /\ g.epoch \in Txs \cup {0} /\ g.epoch \in Nat
           /\ g.key \in Keys \cup {NoKey} /\ g.bad \in BOOLEAN /\ g.cancelled \in BOOLEAN
           /\ g.tries \in 0..Attempts
<1>1. /\ g.tx \in Txs \cup {0} /\ g.epoch \in Txs \cup {0} /\ g.key \in Keys \cup {NoKey}
      /\ g.bad \in BOOLEAN /\ g.cancelled \in BOOLEAN /\ g.tries \in 0..Attempts
      /\ g.st \in {"direct", "running", "failed"} \cup Unmaking \cup Preparing
  BY DEF MediaType
<1> QED BY <1>1, Ids

\* The fields of a thread.
LEMMA ThFields ==
    ASSUME NEW x \in ThType
    PROVE  /\ x.pc \in Pcs /\ x.u \in UType /\ x.key \in Keys \cup {NoKey}
           /\ x.then \in {"idle", "distribute"} /\ x.u.tx \in Txs \cup {0} /\ x.u.tx \in Nat
           /\ x.h \in 0..MaxCalls /\ x.recv \in 0..MaxCalls /\ x.media \in 0..MaxCalls
           /\ x.h \in Nat /\ (x.h # 0 => x.h \in Calls) /\ (x.recv # 0 => x.recv \in Calls)
           /\ (x.media # 0 => x.media \in Calls)
<1>1. /\ x.pc \in Pcs /\ x.u \in UType /\ x.key \in Keys \cup {NoKey}
      /\ x.then \in {"idle", "distribute"}
      /\ x.h \in 0..MaxCalls /\ x.recv \in 0..MaxCalls /\ x.media \in 0..MaxCalls
  BY DEF ThType
<1> QED BY <1>1, UpdateTx, CallIds

\* A thread with nothing to do.
LEMMA IdleFacts ==
    /\ Idle \in ThType /\ Idle.pc = "idle" /\ Idle.u = NoUpdate /\ Idle.key = NoKey
    /\ Idle.h = 0 /\ Idle.recv = 0 /\ Idle.media = 0 /\ Idle.then = "idle"
<1>1. /\ Idle.pc = "idle" /\ Idle.u = NoUpdate /\ Idle.key = NoKey
      /\ Idle.h = 0 /\ Idle.recv = 0 /\ Idle.media = 0 /\ Idle.then = "idle"
  BY DEF Idle
<1>2. "idle" \in Pcs /\ NoUpdate \in UType
  BY UpdateTx DEF Pcs
<1> QED BY <1>1, <1>2, CallIds DEF Idle, ThType

\* A thread that goes on.
LEMMA AtFacts ==
    ASSUME TypeInv, NEW t \in Threads, NEW pc \in Pcs
    PROVE  /\ At(t, pc) \in ThType /\ At(t, pc).pc = pc /\ At(t, pc).u = th[t].u
           /\ At(t, pc).key = th[t].key /\ At(t, pc).h = th[t].h /\ At(t, pc).recv = th[t].recv
           /\ At(t, pc).media = th[t].media /\ At(t, pc).then = th[t].then
<1>1. th[t] \in ThType
  BY DEF TypeInv
<1> QED BY <1>1 DEF At, ThType

\* A thread that goes on to maybeStartMedia.
LEMMA StartingFacts ==
    ASSUME TypeInv, NEW t \in Threads
    PROVE  /\ Starting(t) \in ThType /\ Starting(t).pc = "start" /\ Starting(t).u = th[t].u
           /\ Starting(t).h = 0 /\ Starting(t).recv = 0 /\ Starting(t).media = th[t].media
           /\ Starting(t).then = th[t].then
<1>1. th[t] \in ThType /\ "start" \in Pcs
  BY DEF TypeInv, Pcs
<1> QED BY <1>1, CallIds DEF Starting, ThType

\* A thread whose handler is done, or goes on to distribute an epoch.
LEMMA ReturnFacts ==
    ASSUME TypeInv, NEW t \in Threads
    PROVE  /\ Return(t) \in ThType /\ Return(t).then = "idle" /\ Return(t).h = 0
           /\ Return(t).recv \in {0, th[t].recv}
           /\ Return(t).pc = "idle"
              \/ (Return(t).pc = "distribute" /\ th[t].then = "distribute" /\ Return(t).u = th[t].u)
<1>1. th[t] \in ThType /\ th[t].then \in {"idle", "distribute"}
  BY ThFields DEF TypeInv
<1>2. CASE th[t].then = "idle"
  <2>1. Return(t) = Idle
    BY <1>2 DEF Return
  <2> QED BY <2>1, IdleFacts
<1>3. CASE th[t].then = "distribute"
  <2>1. Return(t) = [th[t] EXCEPT !.pc = "distribute", !.then = "idle", !.h = 0]
    BY <1>3 DEF Return
  <2>2. "distribute" \in Pcs
    BY DEF Pcs
  <2> QED BY <1>1, <1>3, <2>1, <2>2, CallIds DEF ThType
<1> QED BY <1>1, <1>2, <1>3

\* The inputs left.
LEMMA SpendType ==
    ASSUME TypeInv, NEW k, Spend(k) PROVE left' \in [Inputs -> Nat]
<1>1. left \in [Inputs -> Nat] /\ left[k] > 0 /\ left' = [left EXCEPT ![k] = left[k] - 1]
  BY DEF TypeInv, Spend
<1>2. CASE k \in Inputs
  <2>1. left[k] \in Nat
    BY <1>1, <1>2
  <2>2. left[k] - 1 \in Nat
    BY <1>1, <2>1
  <2> QED BY <1>1, <1>2, <2>2
<1>3. CASE k \notin Inputs
  <2>1. left' = left
    BY <1>1, <1>3
  <2> QED BY <1>1, <2>1
<1> QED BY <1>2, <1>3

\* One thread moves, the others stay.
LEMMA OneMoves ==
    ASSUME TypeInv, NEW t \in Threads, NEW x \in ThType, th' = [th EXCEPT ![t] = x]
    PROVE  /\ th' \in [Threads -> ThType] /\ th'[t] = x
           /\ \A s \in Threads : s # t => th'[s] = th[s]
  BY DEF TypeInv
-------------------------------------------------------------------------------
(* What a step leaves as it is *)

\* What no step takes back: handles are numbered upwards, rosters go forward under
\* one handle, media goroutines that run go on, receivers once made stay made or
\* cleared, receivers are published by a goroutine that has not run yet, and media
\* is started with a goroutine that is new.
Advance ==
    /\ m.group => m'.group
    /\ m'.call \in Nat /\ m'.update.tx \in Nat
    /\ m'.call > m.call \/ (m'.call = m.call /\ m'.update.tx >= m.update.tx)
    /\ \A n \in Calls : /\ md[n].st = "running" => md'[n].st = "running"
                        /\ md[n].st # "none" => md'[n].st # "none"
                        /\ r[n].st # "none" => r'[n].st # "none"
    /\ m'.recv \in {0, m.recv} \/ md[m'.recv].st # "running"
    /\ m'.media \in {0, m.media} \/ md[m'.media].st = "none"

\* What holds of a thread that stays where it is.
LEMMA LocalKept ==
    ASSUME TypeInv, NEW t \in Threads, NEW x \in ThType, Local(t, x), Advance,
           m'.epoch = m.epoch \/ (m'.epoch = 0 /\ m'.group) \/ x.pc \notin {"applyEpoch", "installEpoch"},
           x.pc = "launch" => md'[x.h].st = "pending"
    PROVE  Local(t, x)'
<1>1. /\ x.u.tx \in Nat /\ x.h \in Nat /\ (x.recv # 0 => x.recv \in Calls)
      /\ (x.media # 0 => x.media \in Calls) /\ (x.u.tx \in Txs => x.u.tx > 0)
      /\ m.call \in Nat /\ m.update.tx \in Nat /\ m.epoch \in Nat
  BY ThFields, Types, Ids
<1>2. x.h <= m'.call /\ (x.pc \in Telling /\ x.h = m'.call => x.u.tx <= m'.update.tx)
  BY <1>1 DEF Local, Advance
<1>3. x.pc \in {"applyEpoch", "installEpoch"} => m'.group /\ x.u.tx > m'.epoch
  BY <1>1 DEF Local, Advance
<1>4. x.recv # 0 => md'[x.recv].st = "running" /\ r'[x.recv].st # "none"
  BY <1>1 DEF Local, Advance
<1>5. x.pc = "clear" /\ x.recv # 0 => x.recv # m'.recv
  BY <1>1 DEF Local, Advance
<1>6. x.pc = "clear" /\ x.media # 0 => md'[x.media].st # "none" /\ x.media # m'.media
  BY <1>1 DEF Local, Advance
<1> QED BY <1>2, <1>3, <1>4, <1>5, <1>6 DEF Local

\* The threads stay valid; those in T move.
LEMMA ThreadsKept ==
    ASSUME TypeInv, ThreadInv, Advance, NEW T, th' \in [Threads -> ThType],
           \A s \in Threads : s \notin T => th'[s] = th[s],
           \A s \in Threads : s \in T => Local(s, th[s])',
           m'.epoch = m.epoch \/ (m'.epoch = 0 /\ m'.group)
             \/ \A s \in Threads : s \notin T => th[s].pc \notin {"applyEpoch", "installEpoch"},
           \A s \in Threads : s \notin T /\ th[s].pc = "launch" => md'[th[s].h].st = "pending"
    PROVE  ThreadInv'
<1>1. ASSUME NEW s \in Threads PROVE Local(s, th[s])'
  <2>1. CASE s \in T
    BY <2>1
  <2>2. CASE s \notin T
    <3>1. PICK x : x = th[s]
      OBVIOUS
    <3>2. x \in ThType /\ Local(s, x) /\ th'[s] = x
      BY <2>2, <3>1 DEF TypeInv, ThreadInv
    <3>3. /\ m'.epoch = m.epoch \/ (m'.epoch = 0 /\ m'.group) \/ x.pc \notin {"applyEpoch", "installEpoch"}
          /\ x.pc = "launch" => md'[x.h].st = "pending"
      BY <2>2, <3>1
    <3>4. Local(s, x)'
      BY <3>2, <3>3, LocalKept
    <3> QED BY <3>2, <3>4 DEF Local
  <2> QED BY <2>1, <2>2
<1> QED BY <1>1 DEF ThreadInv

\* The entry, its goroutine and its receivers stay what they are to each other.
LEMMA EntryKept ==
    ASSUME TypeInv, EntryInv,
           m'.reg = m.reg, m'.call = m.call, m'.media = m.media, m'.recv = m.recv,
           m.call = 0 => ~m'.group,
           \A n \in Calls : /\ md'[n].st = "none" <=> md[n].st = "none"
                            /\ md[n].st = "running" => md'[n].st = "running",
           m.media # 0 => md'[m.media].cancelled = md[m.media].cancelled,
           m.recv # 0 => r'[m.recv].st = r[m.recv].st,
           \A s \in Threads : th'[s].pc = "launch" => th'[s] = th[s]
    PROVE  EntryInv'
<1>1. /\ m.call \in Nat /\ (m.call # 0 => m.call \in Calls) /\ (m.media # 0 => m.media \in Calls)
      /\ (m.recv # 0 => m.recv \in Calls)
  BY Types, CallIds
<1>2. m'.reg /\ m'.media = 0 => md'[m'.call].st = "none"
  BY <1>1 DEF EntryInv
<1>3. m'.media # 0 => md'[m'.media].st # "none" /\ ~md'[m'.media].cancelled
  BY <1>1 DEF EntryInv
<1>4. m'.recv # 0 => md'[m'.recv].st = "running" /\ r'[m'.recv].st = "made"
  BY <1>1 DEF EntryInv
<1>5. \A n \in Calls : n > m'.call => md'[n].st = "none"
  BY DEF EntryInv
<1>6. \A t, s \in Threads : th'[t].pc = "launch" /\ th'[s].pc = "launch" /\ th'[t].h = th'[s].h => t = s
  BY DEF EntryInv
<1>7. (m'.call = 0 => ~m'.reg /\ ~m'.group) /\ (~m'.reg => m'.media = 0 /\ m'.recv = 0)
  BY DEF EntryInv
<1> QED BY <1>2, <1>3, <1>4, <1>5, <1>6, <1>7 DEF EntryInv

\* Goroutines and receivers that are not in N stay as they are.
LEMMA GoKept ==
    ASSUME TypeInv, GoInv, NEW N,
           \A n \in Calls : n \in N => Goroutine(n)',
           \A n \in Calls : n \notin N => md'[n] = md[n] /\ r'[n] = r[n],
           "key" \in hist => "key" \in hist',
           m.recv # 0 /\ m.recv \notin N =>
              \/ m'.recv = m.recv
              \/ \E s \in Threads : th'[s].pc = "clear" /\ th'[s].recv = m.recv,
           \A s \in Threads : th[s].pc = "clear" /\ th[s].recv \in Calls \ N
                                 => th'[s].pc = "clear" /\ th'[s].recv = th[s].recv
    PROVE  GoInv'
<1>1. ASSUME NEW n \in Calls, n \notin N PROVE Goroutine(n)'
  <2>1. Goroutine(n) /\ md'[n] = md[n] /\ r'[n] = r[n] /\ n # 0
    BY <1>1, CallIds DEF GoInv
  <2>2. r[n].st = "made" => \/ md[n].st \in Preparing \cup {"direct"}
                            \/ n = m'.recv
                            \/ \E t \in Threads : th'[t].pc = "clear" /\ th'[t].recv = n
    BY <1>1, <2>1 DEF Goroutine
  <2> QED BY <2>1, <2>2 DEF Goroutine
<1>2. \A n \in Calls : Goroutine(n)'
  BY <1>1
<1> QED BY <1>2 DEF GoInv

\* All of them stay as they are.
LEMMA GoSame ==
    ASSUME TypeInv, GoInv, UNCHANGED <<md, r>>,
           "key" \in hist => "key" \in hist',
           m.recv # 0 => \/ m'.recv = m.recv
                         \/ \E s \in Threads : th'[s].pc = "clear" /\ th'[s].recv = m.recv,
           \A s \in Threads : th[s].pc = "clear" /\ th[s].recv # 0
                                 => th'[s].pc = "clear" /\ th'[s].recv = th[s].recv
    PROVE  GoInv'
<1>1. PICK N : N = {}
  OBVIOUS
<1>2. \A s \in Threads : th[s].pc = "clear" /\ th[s].recv \in Calls \ N
                          => th'[s].pc = "clear" /\ th'[s].recv = th[s].recv
  BY CallIds
<1>3. \A n \in Calls : n \in N => Goroutine(n)'
  BY <1>1
<1>4. \A n \in Calls : n \notin N => md'[n] = md[n] /\ r'[n] = r[n]
  OBVIOUS
<1> QED BY <1>2, <1>3, <1>4, GoKept

\* The media of the entry stays as it is.
LEMMA MediaKept ==
    ASSUME TypeInv, MediaInv,
           m'.reg = m.reg, m'.group = m.group, m'.direct = m.direct, m'.update = m.update,
           m'.epoch = m.epoch, m'.key = m.key, m'.media = m.media,
           m.media # 0 => /\ md'[m.media] = md[m.media]
                          /\ md[m.media].st \in Preparing => r'[m.media] = r[m.media]
    PROVE  MediaInv'
<1>1. m.media # 0 /\ md[m.media].st \in Preparing => Filled(md[m.media], r[m.media])'
  <2>1. ASSUME NEW g, NEW x, Filled(g, x) PROVE Filled(g, x)'
    BY <2>1 DEF Filled
  <2>2. m.media # 0 /\ md[m.media].st \in Preparing => Filled(md[m.media], r[m.media])
    BY DEF MediaInv
  <2>3. ASSUME m.media # 0, md[m.media].st \in Preparing PROVE Filled(md[m.media], r[m.media])'
    <3>1. PICK g, x : g = md[m.media] /\ x = r[m.media]
      OBVIOUS
    <3>2. Filled(g, x)'
      BY <2>1, <2>2, <2>3, <3>1
    <3>3. md'[m'.media] = g /\ r'[m'.media] = x
      BY <2>3, <3>1
    <3> QED BY <3>2, <3>3 DEF Filled
  <2> QED BY <2>3
<1>2. (m.media # 0 => m'.direct \/ Prerequisites') /\ MediaFailureExplained'
  BY DEF MediaInv, MediaFailureExplained, Prerequisites
<1> QED BY <1>1, <1>2 DEF MediaInv

\* Published receivers and the handlers under way stay level.
LEMMA RosterKept ==
    ASSUME TypeInv, RosterInv, m'.recv = m.recv, m'.update = m.update,
           "roster" \in hist => "roster" \in hist',
           m.recv # 0 => r'[m.recv].tx = r[m.recv].tx,
           m.recv # 0 => \A s \in Threads :
              /\ th[s].pc = "install" => \/ th'[s] = th[s]
                                         \/ th[s].u.tx <= m.update.tx
              /\ th'[s].pc = "install" => th'[s] = th[s]
              /\ th'[s].pc = "apply" => th'[s] = th[s] \/ th'[s].recv = m.recv
    PROVE  RosterInv'
<1> SUFFICES ASSUME m.recv # 0, "roster" \notin hist
             PROVE  /\ m.update.tx <= r[m.recv].tx
                    /\ r[m.recv].tx = m.update.tx
                         \/ \E t \in Threads : th'[t].pc = "install" /\ th'[t].u.tx = r[m.recv].tx
                    /\ \A t \in Threads : th'[t].pc = "install" \/ (th'[t].pc = "apply" /\ th'[t].recv # m.recv)
                                             => th'[t].u.tx <= r[m.recv].tx
  BY DEF RosterInv
<1>1. m.update.tx \in Nat /\ r[m.recv].tx \in Nat
  BY Types, Fields DEF TypeInv
<1>2. /\ m.update.tx <= r[m.recv].tx
      /\ r[m.recv].tx = m.update.tx
            \/ \E t \in Threads : th[t].pc = "install" /\ th[t].u.tx = r[m.recv].tx
      /\ \A t \in Threads : th[t].pc = "install" \/ (th[t].pc = "apply" /\ th[t].recv # m.recv)
                                => th[t].u.tx <= r[m.recv].tx
  BY DEF RosterInv
<1>3. ASSUME NEW s \in Threads, th[s].pc = "install", th[s].u.tx = r[m.recv].tx, r[m.recv].tx # m.update.tx
      PROVE  th'[s].pc = "install" /\ th'[s].u.tx = r[m.recv].tx
  BY <1>1, <1>2, <1>3
<1>4. \A t \in Threads : th'[t].pc = "install" \/ (th'[t].pc = "apply" /\ th'[t].recv # m.recv)
                            => th'[t].u.tx <= r[m.recv].tx
  BY <1>2
<1> QED BY <1>2, <1>3, <1>4

\* Published receivers have the epoch, or are about to have it.
LEMMA EpochKept ==
    ASSUME EpochInv, m'.recv = m.recv, m'.epoch = m.epoch, m'.key = m.key,
           "epoch" \in hist => "epoch" \in hist',
           m.recv # 0 => /\ r'[m.recv] = r[m.recv]
                         /\ th'["raw"] = th["raw"]
                            \/ /\ th["raw"].pc # "installEpoch" /\ th'["raw"].pc # "installEpoch"
                               /\ th'["raw"].pc = "applyEpoch" => th'["raw"].recv = m.recv
    PROVE  EpochInv'
<1> SUFFICES ASSUME m.recv # 0, "epoch" \notin hist
             PROVE  /\ th'["raw"].pc \in {"applyEpoch", "installEpoch"} => th'["raw"].recv = m.recv
                    /\ IF th'["raw"].pc = "installEpoch"
                         THEN Holds(r[m.recv], th'["raw"].u.tx, th'["raw"].key)
                         ELSE Holds(r[m.recv], m.epoch, m.key)
  <2>1. ASSUME m.recv # 0, NEW e, NEW k, Holds(r[m.recv], e, k) PROVE Holds(r[m.recv], e, k)'
    BY <2>1 DEF Holds, AtMost
  <2> QED BY <2>1 DEF EpochInv
<1>1. /\ th["raw"].pc \in {"applyEpoch", "installEpoch"} => th["raw"].recv = m.recv
      /\ IF th["raw"].pc = "installEpoch" THEN Holds(r[m.recv], th["raw"].u.tx, th["raw"].key)
                                          ELSE Holds(r[m.recv], m.epoch, m.key)
  BY DEF EpochInv
<1> QED BY <1>1

\* The threads that are about to tell the handle stay.
LEMMA HandleKept ==
    ASSUME HandleInv, m'.call = m.call, m'.update = m.update, call'.groupTx = call.groupTx,
           "handle" \in hist' <=> "handle" \in hist,
           \A s \in Threads : \/ th'[s] = th[s]
                              \/ th[s].pc \notin Telling /\ th'[s].pc \notin Telling
                              \/ /\ th[s].pc \in Telling /\ th'[s].pc \in Telling
                                 /\ th'[s].u = th[s].u /\ th'[s].h = th[s].h
    PROVE  HandleInv'
<1>1. \A s \in Threads : /\ th'[s].pc \in Telling <=> th[s].pc \in Telling
                         /\ th[s].pc \in Telling => th'[s].u = th[s].u /\ th'[s].h = th[s].h
  OBVIOUS
<1> QED BY <1>1 DEF HandleInv

\* No thread gives up a start that is still to be made.
LEMMA StartKept ==
    ASSUME StartInv, m'.reg => m.reg, m'.group => m.group, m'.key # NoKey => m.key # NoKey,
           m'.update = m.update, m'.media = m.media,
           \A s \in Threads : th[s].pc \in Telling \cup {"start"} =>
                                \/ th'[s].pc \in Telling \cup {"start"}
                                \/ m.media # 0
                                \/ ~(m.reg /\ m.group /\ m.key # NoKey /\ m.update.relay)
    PROVE  StartInv'
  BY DEF StartInv
-------------------------------------------------------------------------------
(* The steps of a thread that leave the call, its media and its receivers alone *)

\* A thread moves, and may change what the handle shows.
LEMMA MovesCore ==
    ASSUME IInv, NEW t \in Threads, NEW x \in ThType, th' = [th EXCEPT ![t] = x],
           UNCHANGED <<m, r, md, hist>>, heart' \in BOOLEAN, left' \in [Inputs -> Nat],
           call' \in CallType,
           Local(t, x), x.pc # "launch", th[t].pc # "clear",
           m.recv # 0 => /\ th[t].pc = "install" => th[t].u.tx <= m.update.tx
                         /\ x.pc # "install" /\ x.pc # "installEpoch" /\ th[t].pc # "installEpoch"
                         /\ x.pc \in {"apply", "applyEpoch"} => x.recv = m.recv
    PROVE  TypeInv' /\ EntryInv' /\ GoInv' /\ ThreadInv' /\ MediaInv' /\ RosterInv' /\ EpochInv'
<1>0. TypeInv /\ EntryInv /\ GoInv /\ ThreadInv /\ MediaInv /\ RosterInv /\ EpochInv
  BY DEF IInv
<1>1. /\ th' \in [Threads -> ThType] /\ th'[t] = x
      /\ \A s \in Threads : s # t => th'[s] = th[s]
  BY <1>0, OneMoves
<1>2. TypeInv'
  BY <1>0, <1>1 DEF TypeInv
<1>3. ThreadInv'
  <2>1. \A s \in Threads : Local(s, th[s])
    BY <1>0 DEF ThreadInv
  <2>2. \A s \in Threads : Local(s, th'[s])
    BY <1>1, <2>1
  <2> QED BY <2>2 DEF ThreadInv, Local
<1>4. EntryInv'
  <2>1. m.call = 0 => ~m'.group
    BY <1>0 DEF EntryInv
  <2>2. \A s \in Threads : th'[s].pc = "launch" => th'[s] = th[s]
    BY <1>1
  <2> QED BY <1>0, <2>1, <2>2, EntryKept
<1>5. GoInv'
  <2>1. \A s \in Threads : th[s].pc = "clear" /\ th[s].recv # 0
                             => th'[s].pc = "clear" /\ th'[s].recv = th[s].recv
    BY <1>1
  <2> QED BY <1>0, <2>1, GoSame
<1>6. MediaInv'
  BY <1>0, MediaKept
<1>7. RosterInv'
  <2>1. m.recv # 0 => \A s \in Threads :
              /\ th[s].pc = "install" => \/ th'[s] = th[s]
                                         \/ th[s].u.tx <= m.update.tx
              /\ th'[s].pc = "install" => th'[s] = th[s]
              /\ th'[s].pc = "apply" => th'[s] = th[s] \/ th'[s].recv = m.recv
    BY <1>1
  <2> QED BY <1>0, <2>1, RosterKept
<1>8. EpochInv'
  <2>1. m.recv # 0 => \/ th'["raw"] = th["raw"]
                      \/ /\ th["raw"].pc # "installEpoch" /\ th'["raw"].pc # "installEpoch"
                         /\ th'["raw"].pc = "applyEpoch" => th'["raw"].recv = m.recv
    BY <1>1 DEF Threads
  <2> QED BY <1>0, <2>1, EpochKept
<1> QED BY <1>2, <1>3, <1>4, <1>5, <1>6, <1>7, <1>8

\* ... and does not forget what it was about to tell, or to start.
LEMMA ThreadMoves ==
    ASSUME IInv, NEW t \in Threads, NEW x \in ThType, th' = [th EXCEPT ![t] = x],
           UNCHANGED <<m, r, md, hist>>, heart' \in BOOLEAN, left' \in [Inputs -> Nat],
           call' \in CallType, call'.groupTx = call.groupTx,
           Local(t, x), x.pc # "launch", th[t].pc # "clear",
           m.recv # 0 => /\ th[t].pc = "install" => th[t].u.tx <= m.update.tx
                         /\ x.pc # "install" /\ x.pc # "installEpoch" /\ th[t].pc # "installEpoch"
                         /\ x.pc \in {"apply", "applyEpoch"} => x.recv = m.recv,
           \/ th[t].pc \notin Telling /\ x.pc \notin Telling
           \/ th[t].pc \in Telling /\ x.pc \in Telling /\ x.u = th[t].u /\ x.h = th[t].h,
           th[t].pc = "start" => \/ x.pc = "start" \/ m.media # 0
                                 \/ ~(m.reg /\ m.group /\ m.key # NoKey /\ m.update.relay)
    PROVE  IInv'
<1>0. TypeInv /\ HandleInv /\ StartInv
  BY DEF IInv
<1>1. /\ th'[t] = x /\ \A s \in Threads : s # t => th'[s] = th[s]
  BY <1>0, OneMoves
<1>2. TypeInv' /\ EntryInv' /\ GoInv' /\ ThreadInv' /\ MediaInv' /\ RosterInv' /\ EpochInv'
  BY MovesCore
<1>3. HandleInv'
  <2>1. \A s \in Threads : \/ th'[s] = th[s]
                           \/ th[s].pc \notin Telling /\ th'[s].pc \notin Telling
                           \/ /\ th[s].pc \in Telling /\ th'[s].pc \in Telling
                              /\ th'[s].u = th[s].u /\ th'[s].h = th[s].h
    BY <1>1
  <2> QED BY <1>0, <2>1, HandleKept
<1>4. StartInv'
  <2>1. \A s \in Threads : th[s].pc \in Telling \cup {"start"} =>
                             \/ th'[s].pc \in Telling \cup {"start"}
                             \/ m.media # 0
                             \/ ~(m.reg /\ m.group /\ m.key # NoKey /\ m.update.relay)
    BY <1>1
  <2> QED BY <1>0, <2>1, StartKept
<1> QED BY <1>2, <1>3, <1>4 DEF IInv

\* A thread that holds nothing.
LEMMA FreeLocal ==
    ASSUME TypeInv, NEW t, NEW x,
           x.pc \in {"idle", "offer", "heart", "room", "inRoom", "answered", "start"}, x.then = "idle",
           x.h = 0 \/ x.h = m.call, x.recv = 0
    PROVE  Local(t, x)
<1>1. m.call \in Nat
  BY Types
<1>2. x.h <= m.call
  BY <1>1
<1> QED BY <1>2 DEF Local, Telling

\* A thread that becomes idle.
LEMMA IdleLocal ==
    ASSUME TypeInv, NEW t PROVE Idle \in ThType /\ Idle.pc = "idle" /\ Local(t, Idle)
  BY IdleFacts, FreeLocal

\* The stanzas and user operations that only give a thread its work.
LEMMA InputStep ==
    ASSUME IInv,
           \/ \E u \in Updates : GroupUpdateStanza(u)
           \/ \E tx \in Txs, k \in Keys : EncRekeyStanza(tx, k)
           \/ \E tx \in Txs : WaitingRoomUpdate(tx)
           \/ \E t \in Apps : Answer(t)
    PROVE  IInv'
<1>0. TypeInv /\ "raw" \in Threads /\ Apps \subseteq Threads /\ call \in CallType /\ heart \in BOOLEAN
      /\ m.call \in 0..MaxCalls /\ m.call \in Nat
  BY Types DEF IInv, TypeInv, Threads
<1>1. ASSUME NEW u \in Updates, GroupUpdateStanza(u) PROVE IInv'
  <2>1. PICK then : then = IF u.rekey THEN "distribute" ELSE "idle"
    OBVIOUS
  <2>2. PICK x : x = Updating(u, then)
    OBVIOUS
  <2>3. /\ th["raw"] = Idle /\ th' = [th EXCEPT !["raw"] = x]
        /\ UNCHANGED <<m, call, r, md, heart, hist>>
    BY <1>1, <2>1, <2>2 DEF GroupUpdateStanza, Goto
  <2>4. left' \in [Inputs -> Nat]
    BY <1>0, <1>1, SpendType DEF GroupUpdateStanza
  <2>5. "update" \in Pcs /\ u \in UType /\ u.tx \in Txs /\ then \in {"idle", "distribute"}
    BY <2>1, UpdateTx DEF Pcs
  <2>6. x \in ThType /\ x.pc = "update" /\ x.u = u /\ x.then = then /\ x.h = 0 /\ x.recv = 0
    BY <2>2, <2>5, IdleFacts DEF Updating, ThType
  <2>7. Local("raw", x)
    BY <1>0, <2>5, <2>6 DEF Local, Telling
  <2>8. th["raw"].pc = "idle"
    BY <2>3, IdleFacts
  <2> QED BY <1>0, <2>3, <2>4, <2>6, <2>7, <2>8, ThreadMoves DEF Telling
<1>2. ASSUME NEW tx \in Txs, NEW k \in Keys, EncRekeyStanza(tx, k) PROVE IInv'
  <2>1. PICK u : u = [NoUpdate EXCEPT !.tx = tx]
    OBVIOUS
  <2>2. PICK x : x = [Idle EXCEPT !.pc = "epoch", !.u = u, !.key = k]
    OBVIOUS
  <2>3. /\ th["raw"] = Idle /\ th' = [th EXCEPT !["raw"] = x]
        /\ UNCHANGED <<m, call, r, md, heart, hist>>
    BY <1>2, <2>1, <2>2 DEF EncRekeyStanza, Goto
  <2>4. left' \in [Inputs -> Nat]
    BY <1>0, <1>2, SpendType DEF EncRekeyStanza
  <2>5. "epoch" \in Pcs /\ u \in UType /\ u.tx = tx
    BY <2>1, UpdateTx DEF Pcs
  <2>6. x \in ThType /\ x.pc = "epoch" /\ x.u = u /\ x.key = k /\ x.then = "idle" /\ x.h = 0 /\ x.recv = 0
    BY <2>2, <2>5, IdleFacts DEF ThType
  <2>7. Local("raw", x)
    BY <1>0, <2>5, <2>6 DEF Local, Telling
  <2>8. th["raw"].pc = "idle"
    BY <2>3, IdleFacts
  <2> QED BY <1>0, <2>3, <2>4, <2>6, <2>7, <2>8, ThreadMoves DEF Telling
<1>3. ASSUME NEW tx \in Txs, WaitingRoomUpdate(tx) PROVE IInv'
  <2>1. PICK u, pc : u = [NoUpdate EXCEPT !.tx = tx] /\ pc = IF call.inRoom THEN "inRoom" ELSE "room"
    OBVIOUS
  <2>2. PICK x : x = [Idle EXCEPT !.pc = pc, !.u = u, !.h = m.call]
    OBVIOUS
  <2>3. /\ th["raw"] = Idle /\ th' = [th EXCEPT !["raw"] = x]
        /\ UNCHANGED <<m, call, r, md, heart, hist>>
    BY <1>3, <2>1, <2>2 DEF WaitingRoomUpdate, Goto
  <2>4. left' \in [Inputs -> Nat]
    BY <1>0, <1>3, SpendType DEF WaitingRoomUpdate
  <2>5. pc \in Pcs /\ pc \in {"room", "inRoom"} /\ u \in UType
    BY <1>0, <2>1, UpdateTx DEF Pcs
  <2>6. x \in ThType /\ x.pc = pc /\ x.then = "idle" /\ x.h = m.call /\ x.recv = 0
    BY <1>0, <2>2, <2>5, IdleFacts DEF ThType
  <2>7. Local("raw", x)
    BY <1>0, <2>5, <2>6, FreeLocal
  <2>8. th["raw"].pc = "idle"
    BY <2>3, IdleFacts
  <2> QED BY <1>0, <2>3, <2>4, <2>5, <2>6, <2>7, <2>8, ThreadMoves DEF Telling
<1>4. ASSUME NEW t \in Apps, Answer(t) PROVE IInv'
  <2>1. PICK h : (h = 0 \/ h = m.call) /\ th' = [th EXCEPT ![t] = [Idle EXCEPT !.pc = "answered", !.h = h]]
    BY <1>4 DEF Answer, Goto
  <2>2. /\ th[t] = Idle /\ UNCHANGED <<m, call, r, md, heart, hist>>
    BY <1>4 DEF Answer
  <2>3. left' \in [Inputs -> Nat]
    BY <1>0, <1>4, SpendType DEF Answer
  <2>4. PICK x : x = [Idle EXCEPT !.pc = "answered", !.h = h]
    OBVIOUS
  <2>5. "answered" \in Pcs /\ h \in 0..MaxCalls
    BY <1>0, <2>1, CallIds DEF Pcs
  <2>6. x \in ThType /\ x.pc = "answered" /\ x.then = "idle" /\ x.h = h /\ x.recv = 0
    BY <2>4, <2>5, IdleFacts DEF ThType
  <2>7. Local(t, x)
    BY <1>0, <2>1, <2>6, FreeLocal
  <2>8. th[t].pc = "idle"
    BY <2>2, IdleFacts
  <2> QED BY <1>0, <2>1, <2>2, <2>3, <2>4, <2>6, <2>7, <2>8, ThreadMoves DEF Telling
<1> QED BY <1>1, <1>2, <1>3, <1>4

\* A write to the handle that does not touch its roster.
LEMMA WriteFacts ==
    ASSUME TypeInv, NEW t \in Threads, NEW c \in CallType, c.groupTx = call.groupTx, Write(t, c)
    PROVE  call' \in CallType /\ call'.groupTx = call.groupTx
  BY DEF Write, TypeInv

\* A phase is set.
LEMMA PhaseFacts ==
    ASSUME TypeInv, NEW t \in Threads, NEW p \in {"connecting", "ended"}, Phase(t, p)
    PROVE  call' \in CallType /\ call'.groupTx = call.groupTx
<1>1. PICK c : c = [call EXCEPT !.phase = p]
  OBVIOUS
<1>2. c \in CallType /\ c.groupTx = call.groupTx
  BY <1>1 DEF TypeInv, CallType
<1> QED BY <1>1, <1>2, WriteFacts DEF Phase

\* The waiting-room state is set.
LEMMA RoomFacts ==
    ASSUME NEW c \in CallType, NEW tx \in Txs \cup {0}, NEW b \in BOOLEAN
    PROVE  SetWaitingRoom(c, tx, b) \in CallType /\ SetWaitingRoom(c, tx, b).groupTx = c.groupTx
  BY DEF SetWaitingRoom, CallType

\* The steps of a handler that look at the call, or change what the handle shows
\* besides the roster.
LEMMA LookStep ==
    ASSUME IInv, NEW t \in Threads,
           \/ UpdateLooksUp(t) \/ AdmitReadsPhase(t) \/ AdmitSetsPhase(t) \/ Distribute(t)
           \/ EpochLooksUp(t) \/ StartHeartbeat(t) \/ Answered(t) \/ FinishEnds(t)
           \/ t = "raw" /\ WaitingRoomSets
    PROVE  IInv'
<1>0. /\ TypeInv /\ call \in CallType /\ heart \in BOOLEAN /\ left \in [Inputs -> Nat] /\ th[t] \in ThType
      /\ Local(t, th[t]) /\ m.reg \in BOOLEAN /\ m.recv \in 0..MaxCalls
      /\ m.recv # 0 => md[m.recv].st = "running" /\ r[m.recv].st # "none"
  BY Types DEF IInv, TypeInv, ThreadInv, EntryInv
<1>1. Idle \in ThType /\ Idle.pc = "idle" /\ Local(t, Idle)
  BY <1>0, IdleLocal
<1>2. CASE UpdateLooksUp(t)
  <2>0. th[t].pc = "update" /\ UNCHANGED <<m, call, r, md, heart, hist, left>>
    BY <1>2 DEF UpdateLooksUp
  <2>1. CASE ~NewRoster(th[t].u)
    <3>1. th' = [th EXCEPT ![t] = Idle]
      BY <1>2, <2>1 DEF UpdateLooksUp, Goto
    <3> QED BY <1>0, <1>1, <2>0, <3>1, ThreadMoves DEF Telling
  <2>2. CASE NewRoster(th[t].u)
    <3>1. PICK pc : pc = IF m.recv # 0 THEN "apply" ELSE "install"
      OBVIOUS
    <3>2. PICK x : x = [th[t] EXCEPT !.pc = pc, !.recv = m.recv]
      OBVIOUS
    <3>3. th' = [th EXCEPT ![t] = x]
      BY <1>2, <2>2, <3>1, <3>2 DEF UpdateLooksUp, Goto
    <3>4. pc \in Pcs
      BY <3>1 DEF Pcs
    <3>5. x \in ThType /\ x.pc = pc /\ x.u = th[t].u /\ x.recv = m.recv /\ x.then = th[t].then /\ x.h = th[t].h
      BY <1>0, <3>2, <3>4 DEF ThType
    <3>7. Local(t, x)
      BY <1>0, <2>0, <3>1, <3>5 DEF Local, Telling
    <3> QED BY <1>0, <2>0, <3>1, <3>3, <3>5, <3>7, ThreadMoves DEF Telling
  <2> QED BY <2>1, <2>2
<1>3. CASE AdmitReadsPhase(t)
  <2>1. PICK pc : pc = IF th[t].h = m.call /\ call.phase = "room" THEN "admitted" ELSE "state"
    OBVIOUS
  <2>2. /\ th[t].pc = "admit" /\ UNCHANGED <<m, call, r, md, heart, hist, left>>
        /\ th' = [th EXCEPT ![t] = At(t, pc)]
    BY <1>3, <2>1 DEF AdmitReadsPhase, Goto
  <2>3. pc \in Pcs /\ pc \in {"admitted", "state"}
    BY <2>1 DEF Pcs, Telling
  <2>4. PICK x : x = At(t, pc)
    OBVIOUS
  <2>5. x \in ThType /\ x.pc = pc /\ x.u = th[t].u /\ x.then = th[t].then /\ x.h = th[t].h /\ x.recv = th[t].recv
    BY <1>0, <2>3, <2>4, AtFacts
  <2>6. Local(t, x)
    BY <1>0, <2>2, <2>3, <2>5 DEF Local, Telling
  <2> QED BY <1>0, <2>2, <2>3, <2>4, <2>5, <2>6, ThreadMoves DEF Telling
<1>4. CASE AdmitSetsPhase(t)
  <2>0. PICK c : c = [call EXCEPT !.phase = "connecting"]
    OBVIOUS
  <2>1. /\ th[t].pc = "admitted" /\ UNCHANGED <<m, r, md, heart, hist, left>>
        /\ Write(t, SetWaitingRoom(c, call.roomTx, FALSE))
        /\ th' = [th EXCEPT ![t] = At(t, "state")]
    BY <1>4, <2>0 DEF AdmitSetsPhase, Goto
  <2>2. call' \in CallType /\ call'.groupTx = call.groupTx
    <3>1. c \in CallType /\ c.groupTx = call.groupTx /\ call.roomTx \in Txs \cup {0}
      BY <1>0, <2>0, Types DEF CallType
    <3> QED BY <1>0, <2>1, <3>1, RoomFacts, WriteFacts
  <2>3. "state" \in Pcs
    BY DEF Pcs, Telling
  <2>4. PICK x : x = At(t, "state")
    OBVIOUS
  <2>5. x \in ThType /\ x.pc = "state" /\ x.u = th[t].u /\ x.then = th[t].then /\ x.h = th[t].h /\ x.recv = th[t].recv
    BY <1>0, <2>3, <2>4, AtFacts
  <2>6. Local(t, x)
    BY <1>0, <2>1, <2>5 DEF Local, Telling
  <2> QED BY <1>0, <2>1, <2>2, <2>4, <2>5, <2>6, ThreadMoves DEF Telling
<1>5. CASE Distribute(t)
  <2>0. th[t].pc = "distribute" /\ UNCHANGED <<m, call, r, md, heart, hist, left>>
    BY <1>5 DEF Distribute
  <2>1. CASE Goto(t, Idle)
    BY <1>0, <1>1, <2>0, <2>1, ThreadMoves DEF Telling, Goto
  <2>2. CASE Goto(t, [th[t] EXCEPT !.pc = "epoch", !.key = OwnKey])
    <3>1. PICK x : x = [th[t] EXCEPT !.pc = "epoch", !.key = OwnKey]
      OBVIOUS
    <3>2. OwnKey \in Keys /\ "epoch" \in Pcs
      BY GroupAssumption DEF Pcs
    <3>3. x \in ThType /\ x.pc = "epoch" /\ x.u = th[t].u /\ x.key = OwnKey /\ x.then = th[t].then
          /\ x.h = th[t].h /\ x.recv = th[t].recv
      BY <1>0, <3>1, <3>2 DEF ThType
    <3>4. Local(t, x)
      BY <1>0, <2>0, <3>2, <3>3 DEF Local, Telling
    <3>5. th' = [th EXCEPT ![t] = x]
      BY <2>2, <3>1 DEF Goto
    <3> QED BY <1>0, <2>0, <3>3, <3>4, <3>5, ThreadMoves DEF Telling
  <2> QED BY <1>5, <2>1, <2>2 DEF Distribute
<1>6. CASE EpochLooksUp(t)
  <2>0. th[t].pc = "epoch" /\ UNCHANGED <<m, call, r, md, heart, hist, left>>
    BY <1>6 DEF EpochLooksUp
  <2>1. CASE ~NewEpoch(th[t].u.tx)
    <3>1. th' = [th EXCEPT ![t] = Idle]
      BY <1>6, <2>1 DEF EpochLooksUp, Goto
    <3> QED BY <1>0, <1>1, <2>0, <3>1, ThreadMoves DEF Telling
  <2>2. CASE NewEpoch(th[t].u.tx)
    <3>1. PICK pc : pc = IF m.recv # 0 THEN "applyEpoch" ELSE "installEpoch"
      OBVIOUS
    <3>2. PICK x : x = [th[t] EXCEPT !.pc = pc, !.recv = m.recv]
      OBVIOUS
    <3>3. th' = [th EXCEPT ![t] = x]
      BY <1>6, <2>2, <3>1, <3>2 DEF EpochLooksUp, Goto
    <3>4. pc \in Pcs
      BY <3>1 DEF Pcs
    <3>5. x \in ThType /\ x.pc = pc /\ x.u = th[t].u /\ x.recv = m.recv /\ x.then = th[t].then
          /\ x.key = th[t].key /\ x.h = th[t].h
      BY <1>0, <3>2, <3>4 DEF ThType
    <3>7. m.group /\ x.u.tx > m.epoch
      BY <2>2, <3>5 DEF NewEpoch
    <3>8. Local(t, x)
      BY <1>0, <2>0, <3>1, <3>5, <3>7 DEF Local, Telling
    <3> QED BY <1>0, <2>0, <3>1, <3>3, <3>5, <3>8, ThreadMoves DEF Telling
  <2> QED BY <2>1, <2>2
<1>7. CASE StartHeartbeat(t)
  <2>1. th[t].pc = "heart" /\ UNCHANGED <<m, call, r, md, hist, left>>
        /\ heart' = m.reg /\ th' = [th EXCEPT ![t] = Idle]
    BY <1>7 DEF StartHeartbeat, Goto
  <2> QED BY <1>0, <1>1, <2>1, ThreadMoves DEF Telling
<1>8. CASE Answered(t)
  <2>1. th[t].pc = "answered" /\ UNCHANGED <<m, r, md, heart, hist, left>>
        /\ Phase(t, "connecting") /\ th' = [th EXCEPT ![t] = Starting(t)]
    BY <1>8 DEF Answered, Goto
  <2>2. call' \in CallType /\ call'.groupTx = call.groupTx
    BY <1>0, <2>1, PhaseFacts
  <2>4. PICK x : x = Starting(t)
    OBVIOUS
  <2>5. x \in ThType /\ x.pc = "start" /\ x.u = th[t].u /\ x.then = th[t].then /\ x.h = 0 /\ x.recv = 0
    BY <1>0, <2>4, StartingFacts
  <2>6. Local(t, x)
    BY <1>0, <2>1, <2>5, Types DEF Local, Telling
  <2> QED BY <1>0, <2>1, <2>2, <2>4, <2>5, <2>6, ThreadMoves DEF Telling
<1>9. CASE FinishEnds(t)
  <2>1. th[t].pc = "end" /\ UNCHANGED <<m, r, md, heart, hist, left>>
        /\ Phase(t, "ended") /\ th' = [th EXCEPT ![t] = Idle]
    BY <1>9 DEF FinishEnds, Goto
  <2>2. call' \in CallType /\ call'.groupTx = call.groupTx
    BY <1>0, <2>1, PhaseFacts
  <2> QED BY <1>0, <1>1, <2>1, <2>2, ThreadMoves DEF Telling
<1>10. CASE t = "raw" /\ WaitingRoomSets
  <2>1. th[t].pc \in {"room", "inRoom"} /\ UNCHANGED <<m, r, md, heart, hist, left>>
        /\ Write(t, SetWaitingRoom(call, th[t].u.tx, th[t].pc = "inRoom")) /\ th' = [th EXCEPT ![t] = Idle]
    BY <1>10 DEF WaitingRoomSets, Goto
  <2>2. th[t].u.tx \in Txs \cup {0}
    BY <1>0, ThFields
  <2>3. PICK b \in BOOLEAN : b = (th[t].pc = "inRoom")
    BY Zenon
  <2>4. Write(t, SetWaitingRoom(call, th[t].u.tx, b))
    BY <2>1, <2>3, Zenon
  <2>5. call' \in CallType /\ call'.groupTx = call.groupTx
    BY <1>0, <2>2, <2>3, <2>4, RoomFacts, WriteFacts
  <2> QED BY <1>0, <1>1, <2>1, <2>5, ThreadMoves DEF Telling
<1> QED BY <1>2, <1>3, <1>4, <1>5, <1>6, <1>7, <1>8, <1>9, <1>10
-------------------------------------------------------------------------------
(* The steps that change the call, its media or its receivers *)

\* A handle is made: for a live call, whose entry stays, or for a new one.
LEMMA RegisterStep ==
    ASSUME IInv, NEW t \in Threads, NEW x \in ThType, th' = [th EXCEPT ![t] = x], th[t].pc = "idle",
           NEW group \in BOOLEAN, NEW incoming \in BOOLEAN, m.call # 0 => group,
           NEW phase \in {"calling", "ringing", "room", "connecting"},
           Register(group, incoming, phase), left' \in [Inputs -> Nat],
           x.pc \in {"offer", "heart", "update", "start"}, x.then = "idle", x.h = 0, x.recv = 0,
           x.pc = "update" => x.u \in Updates
    PROVE  IInv'
<1> USE DEF IInv
<1>0. /\ UNCHANGED <<r, md, heart>> /\ m.call < MaxCalls /\ m.call \in Nat /\ m.call + 1 \in Calls
      /\ m.call + 1 \in 0..MaxCalls /\ m.call + 1 # 0 /\ m.call + 1 > m.call
      /\ hist' = (IF m.reg /\ m.update.tx > 0 THEN hist \cup {"handle"} ELSE hist \ {"handle"})
  <2>1. m.call \in Nat /\ MaxCalls \in Nat /\ m.call < MaxCalls
    BY Types, CallIds DEF Register
  <2>2. m.call + 1 \in Calls /\ m.call + 1 \in 0..MaxCalls /\ m.call + 1 # 0 /\ m.call + 1 > m.call
    BY <2>1 DEF Calls
  <2> QED BY <2>1, <2>2 DEF Register
<1>1. PICK b \in BOOLEAN : b = (phase = "room")
  BY Zenon
<1>2. call' = [phase |-> phase, groupTx |-> 0, inRoom |-> b, roomTx |-> 0]
  BY <1>1, Zenon DEF Register
<1>3. call' \in CallType /\ call'.groupTx = 0
  BY <1>2 DEF CallType
<1>4. PICK d \in BOOLEAN : d = ~group
  BY Zenon
<1>5. m' = IF m.reg
             THEN [m EXCEPT !.group = group, !.incoming = incoming, !.call = m.call + 1]
             ELSE [NoEntry EXCEPT !.reg = TRUE, !.group = group, !.direct = d,
                                  !.incoming = incoming, !.call = m.call + 1]
  BY <1>4, Zenon DEF Register
<1>6. m.reg => /\ m' \in MType /\ m'.reg = m.reg /\ m'.group = group /\ m'.direct = m.direct
               /\ m'.update = m.update /\ m'.epoch = m.epoch /\ m'.key = m.key
               /\ m'.call = m.call + 1 /\ m'.media = m.media /\ m'.recv = m.recv
  <2> SUFFICES ASSUME m.reg, m' = [m EXCEPT !.group = group, !.incoming = incoming, !.call = m.call + 1]
               PROVE  /\ m' \in MType /\ m'.reg = m.reg /\ m'.group = group /\ m'.direct = m.direct
                      /\ m'.update = m.update /\ m'.epoch = m.epoch /\ m'.key = m.key
                      /\ m'.call = m.call + 1 /\ m'.media = m.media /\ m'.recv = m.recv
    BY <1>5
  <2> QED BY <1>0 DEF TypeInv, MType
<1>7. ~m.reg => /\ m' \in MType /\ m'.reg = TRUE /\ m'.group = group /\ m'.direct = d
                /\ m'.update = NoUpdate /\ m'.epoch = 0 /\ m'.key = NoKey
                /\ m'.call = m.call + 1 /\ m'.media = 0 /\ m'.recv = 0
  <2> SUFFICES ASSUME m' = [NoEntry EXCEPT !.reg = TRUE, !.group = group, !.direct = d,
                                           !.incoming = incoming, !.call = m.call + 1]
               PROVE  /\ m' \in MType /\ m'.reg = TRUE /\ m'.group = group /\ m'.direct = d
                      /\ m'.update = NoUpdate /\ m'.epoch = 0 /\ m'.key = NoKey
                      /\ m'.call = m.call + 1 /\ m'.media = 0 /\ m'.recv = 0
    BY <1>5
  <2> QED BY <1>0, CallIds DEF NoEntry, MType
<1>8. /\ th' \in [Threads -> ThType] /\ th'[t] = x
      /\ \A s \in Threads : s # t => th'[s] = th[s]
  BY OneMoves
<1>9. /\ m' \in MType /\ m'.reg /\ m'.group = group /\ m'.call = m.call + 1 /\ m'.media = m.media
      /\ m'.recv = m.recv
  <2>1. ~m.reg => m.media = 0 /\ m.recv = 0
    BY DEF EntryInv
  <2> QED BY <1>6, <1>7, <2>1
<1>10. TypeInv'
  BY <1>0, <1>3, <1>8, <1>9 DEF TypeInv
<1>11. m.group => m'.group
  <2>1. m.group => m.call # 0
    BY DEF EntryInv
  <2> QED BY <1>9, <2>1
<1>12. ThreadInv'
  <2>1. Local(t, th[t])'
    <3>1. x.h <= m'.call
      BY <1>0, <1>9
    <3> QED BY <1>8, <3>1 DEF Local, Telling
  <2>2. m'.update.tx \in Nat
    BY <1>10, <1>6, <1>7, Types, UpdateTx
  <2>3. Advance
    BY <1>0, <1>9, <1>11, <2>2 DEF Advance
  <2>4. \A s \in Threads : th[s].pc = "launch" => md'[th[s].h].st = "pending"
    BY <1>0 DEF ThreadInv, Local
  <2>5. m'.epoch = m.epoch \/ (m'.epoch = 0 /\ m'.group)
          \/ \A s \in Threads : th[s].pc \notin {"applyEpoch", "installEpoch"}
    <3>1. CASE m.reg
      BY <1>6, <3>1
    <3>2. CASE ~m.reg /\ m'.group
      BY <1>7, <3>2
    <3>3. CASE ~m'.group
      <4>1. ~m.group
        BY <1>11, <3>3
      <4> QED BY <4>1 DEF ThreadInv, Local
    <3> QED BY <3>1, <3>2, <3>3
  <2>6. \A s \in Threads : s \notin {t} => th'[s] = th[s]
    BY <1>8
  <2>7. \A s \in Threads : s \in {t} => Local(s, th[s])'
    BY <2>1
  <2> QED BY <1>8, <2>3, <2>4, <2>5, <2>6, <2>7, ThreadsKept
<1>13. EntryInv'
  <2>1. \A n \in Calls : n > m.call + 1 => md'[n].st = "none"
    BY <1>0, CallIds DEF EntryInv
  <2>2. md'[m.call + 1].st = "none"
    BY <1>0 DEF EntryInv
  <2>3. \A s, q \in Threads : th'[s].pc = "launch" /\ th'[q].pc = "launch" /\ th'[s].h = th'[q].h => s = q
    BY <1>8 DEF EntryInv
  <2>4. /\ m'.media # 0 => md'[m'.media].st # "none" /\ ~md'[m'.media].cancelled
        /\ m'.recv # 0 => md'[m'.recv].st = "running" /\ r'[m'.recv].st = "made"
    BY <1>0, <1>9 DEF EntryInv
  <2> QED BY <1>0, <1>9, <2>1, <2>2, <2>3, <2>4 DEF EntryInv
<1>14. GoInv'
  <2>1. \A s \in Threads : th[s].pc = "clear" => th'[s] = th[s]
    BY <1>8
  <2>2. "key" \in hist => "key" \in hist'
    BY <1>0
  <2> QED BY <1>0, <1>9, <2>1, <2>2, GoSame
<1>15. MediaInv'
  <2>1. CASE m.reg
    <3>1. (m.key = NoKey <=> m.epoch = 0) /\ (m.group \/ m.direct) /\ (m.key # NoKey => m.group)
      BY <2>1 DEF MediaInv
    <3>2. m.media # 0 => m'.direct \/ Prerequisites'
      BY <1>6, <1>9, <1>11, <2>1 DEF MediaInv, Prerequisites
    <3>3. m.media # 0 /\ md[m.media].st \in Preparing => Filled(md[m.media], r[m.media])'
      BY <1>0, <1>6, <2>1 DEF MediaInv, Filled
    <3>4. MediaFailureExplained'
      BY <1>0, <1>6, <2>1 DEF MediaInv, MediaFailureExplained
    <3> QED BY <1>0, <1>6, <1>9, <1>11, <2>1, <3>1, <3>2, <3>3, <3>4 DEF MediaInv
  <2>2. CASE ~m.reg
    <3>1. group \/ d
      BY <1>4
    <3> QED BY <1>7, <2>2, <3>1 DEF MediaInv, MediaFailureExplained
  <2> QED BY <2>1, <2>2
<1>16. RosterInv' /\ EpochInv'
  <2>1. CASE m.reg
    <3>1. RosterInv'
      <4>1. m.recv # 0 => \A s \in Threads :
              /\ th[s].pc = "install" => \/ th'[s] = th[s]
                                         \/ th[s].u.tx <= m.update.tx
              /\ th'[s].pc = "install" => th'[s] = th[s]
              /\ th'[s].pc = "apply" => th'[s] = th[s] \/ th'[s].recv = m.recv
        BY <1>8
      <4>2. "roster" \in hist => "roster" \in hist'
        BY <1>0
      <4> QED BY <1>0, <1>6, <2>1, <4>1, <4>2, RosterKept
    <3>2. EpochInv'
      <4>1. \/ th'["raw"] = th["raw"]
            \/ /\ th["raw"].pc # "installEpoch" /\ th'["raw"].pc # "installEpoch"
               /\ th'["raw"].pc = "applyEpoch" => th'["raw"].recv = m.recv
        BY <1>8 DEF Threads
      <4>2. "epoch" \in hist => "epoch" \in hist'
        BY <1>0
      <4> QED BY <1>0, <1>6, <2>1, <4>1, <4>2, EpochKept
    <3> QED BY <3>1, <3>2
  <2>2. CASE ~m.reg
    BY <1>7, <2>2 DEF RosterInv, EpochInv
  <2> QED BY <2>1, <2>2
<1>17. HandleInv'
  <2>1. \A s \in Threads : th'[s].pc \in Telling => th'[s].h # m'.call
    <3>1. \A s \in Threads : th[s].h <= m.call /\ th[s].h \in Nat
      BY ThFields DEF ThreadInv, Local, TypeInv
    <3>2. \A s \in Threads : th[s].h # m.call + 1
      BY <1>0, <3>1
    <3> QED BY <1>8, <1>9, <3>2 DEF Telling
  <2>2. m'.update.tx \in Nat /\ m.update.tx \in Nat
    BY <1>10, <1>6, <1>7, Types, UpdateTx
  <2>3. "handle" \notin hist' => m'.update.tx = 0
    BY <1>0, <1>6, <1>7, <2>2, UpdateTx
  <2> QED BY <1>3, <2>1, <2>2, <2>3 DEF HandleInv
<1>18. StartInv'
  <2>1. CASE m.reg
    <3>1. \A s \in Threads : th[s].pc \in Telling \cup {"start"} => th'[s] = th[s]
      BY <1>8 DEF Telling
    <3>2. m.key # NoKey => m.group
      BY DEF MediaInv
    <3> QED BY <1>6, <2>1, <3>1, <3>2 DEF StartInv
  <2>2. CASE ~m.reg
    BY <1>7, <2>2 DEF StartInv
  <2> QED BY <2>1, <2>2
<1> QED BY <1>10, <1>12, <1>13, <1>14, <1>15, <1>16, <1>17, <1>18

\* placeGroupCall, joinPublicCallLink, onGroupOffer and a one-to-one call.
LEMMA PlaceStep ==
    ASSUME IInv,
           \/ OnGroupOffer
           \/ \E t \in Apps : PlaceGroupCall(t) \/ JoinPublicCallLink(t) \/ PlaceCall(t)
    PROVE  IInv'
<1>0. TypeInv /\ "queue" \in Threads /\ Apps \subseteq Threads /\ TRUE \in BOOLEAN /\ FALSE \in BOOLEAN
      /\ Idle.pc = "idle"
  BY IdleFacts DEF IInv, Threads
<1>1. ASSUME NEW t \in Threads, NEW pc \in {"offer", "heart", "start"}, th[t] = Idle
      PROVE  /\ At(t, pc) \in ThType /\ At(t, pc).pc = pc /\ At(t, pc).then = "idle"
             /\ At(t, pc).h = 0 /\ At(t, pc).recv = 0
  <2>1. pc \in Pcs
    BY DEF Pcs
  <2> QED BY <1>0, <1>1, <2>1, AtFacts, IdleFacts
<1>2. ASSUME NEW u \in Updates
      PROVE  /\ Updating(u, "idle") \in ThType /\ Updating(u, "idle").pc = "update"
             /\ Updating(u, "idle").u = u /\ Updating(u, "idle").then = "idle"
             /\ Updating(u, "idle").h = 0 /\ Updating(u, "idle").recv = 0
  <2>1. "update" \in Pcs /\ u \in UType
    BY UpdateTx DEF Pcs
  <2> QED BY <2>1, IdleFacts DEF Updating, ThType
<1>3. CASE OnGroupOffer
  <2>1. /\ th["queue"] = Idle /\ Register(TRUE, TRUE, "ringing") /\ left' \in [Inputs -> Nat]
        /\ \E u \in Updates : th' = [th EXCEPT !["queue"] = Updating(u, "idle")]
    BY <1>0, <1>3, SpendType DEF OnGroupOffer, Goto
  <2>2. PICK u \in Updates : th' = [th EXCEPT !["queue"] = Updating(u, "idle")]
    BY <2>1
  <2>3. PICK x : x = Updating(u, "idle")
    OBVIOUS
  <2>4. x \in ThType /\ x.pc = "update" /\ x.u = u /\ x.then = "idle" /\ th' = [th EXCEPT !["queue"] = x]
        /\ x.h = 0 /\ x.recv = 0
    BY <1>2, <2>2, <2>3
  <2> QED BY <1>0, <2>1, <2>4, RegisterStep
<1>4. ASSUME NEW t \in Apps, PlaceGroupCall(t) PROVE IInv'
  <2>1. /\ th[t] = Idle /\ Register(TRUE, FALSE, "calling") /\ left' \in [Inputs -> Nat]
        /\ th' = [th EXCEPT ![t] = At(t, "offer")]
    BY <1>0, <1>4, SpendType DEF PlaceGroupCall, Goto
  <2>2. PICK x : x = At(t, "offer")
    OBVIOUS
  <2>3. x \in ThType /\ x.pc = "offer" /\ x.then = "idle" /\ x.h = 0 /\ x.recv = 0 /\ th' = [th EXCEPT ![t] = x]
    BY <1>0, <1>1, <2>1, <2>2
  <2> QED BY <1>0, <2>1, <2>3, RegisterStep
<1>5. ASSUME NEW t \in Apps, PlaceCall(t) PROVE IInv'
  <2>1. /\ th[t] = Idle /\ Register(FALSE, FALSE, "calling") /\ left' \in [Inputs -> Nat]
        /\ m.call = 0 /\ th' = [th EXCEPT ![t] = At(t, "start")]
    BY <1>0, <1>5, SpendType DEF PlaceCall, Goto
  <2>2. PICK x : x = At(t, "start")
    OBVIOUS
  <2>3. x \in ThType /\ x.pc = "start" /\ x.then = "idle" /\ x.h = 0 /\ x.recv = 0 /\ th' = [th EXCEPT ![t] = x]
    BY <1>0, <1>1, <2>1, <2>2
  <2> QED BY <1>0, <2>1, <2>3, RegisterStep
<1>6. ASSUME NEW t \in Apps, JoinPublicCallLink(t) PROVE IInv'
  <2>1. th[t] = Idle /\ left' \in [Inputs -> Nat]
    BY <1>0, <1>6, SpendType DEF JoinPublicCallLink
  <2>2. CASE Register(TRUE, FALSE, "room") /\ Goto(t, At(t, "heart"))
    <3>1. PICK x : x = At(t, "heart")
      OBVIOUS
    <3>2. x \in ThType /\ x.pc = "heart" /\ x.then = "idle" /\ x.h = 0 /\ x.recv = 0 /\ th' = [th EXCEPT ![t] = x]
      BY <1>0, <1>1, <2>1, <2>2, <3>1 DEF Goto
    <3> QED BY <1>0, <2>1, <2>2, <3>2, RegisterStep
  <2>3. CASE Register(TRUE, FALSE, "connecting") /\ \E u \in Updates : Goto(t, Updating(u, "idle"))
    <3>1. PICK u \in Updates : th' = [th EXCEPT ![t] = Updating(u, "idle")]
      BY <2>3 DEF Goto
    <3>2. PICK x : x = Updating(u, "idle")
      OBVIOUS
    <3>3. x \in ThType /\ x.pc = "update" /\ x.u = u /\ x.then = "idle" /\ th' = [th EXCEPT ![t] = x]
          /\ x.h = 0 /\ x.recv = 0
      BY <1>2, <3>1, <3>2
    <3> QED BY <1>0, <2>1, <2>3, <3>3, RegisterStep
  <2> QED BY <1>6, <2>2, <2>3 DEF JoinPublicCallLink
<1> QED BY <1>3, <1>4, <1>5, <1>6

\* finishCall takes the entry out, with its media and its receivers.
LEMMA FinishStep ==
    ASSUME IInv, NEW t \in Threads, th[t].pc \in {"idle", "offer"}, FinishCall(t),
           left' \in [Inputs -> Nat]
    PROVE  IInv'
<1> USE DEF IInv
<1>0. /\ m.recv \in 0..MaxCalls /\ m.media \in 0..MaxCalls /\ m.call \in 0..MaxCalls /\ m.call \in Nat
      /\ m.update.tx \in Nat
  BY Types
<1>1. PICK x : x = [Idle EXCEPT !.pc = "clear", !.h = m.call, !.recv = m.recv, !.media = m.media]
  OBVIOUS
<1>2. /\ m.reg /\ m' = [m EXCEPT !.reg = FALSE, !.key = NoKey, !.media = 0, !.recv = 0] /\ heart' = FALSE
      /\ th' = [th EXCEPT ![t] = x] /\ UNCHANGED <<call, r, md, hist>>
  BY <1>1 DEF FinishCall, Goto
<1>3. "clear" \in Pcs
  BY DEF Pcs
<1>4. x \in ThType /\ x.pc = "clear" /\ x.h = m.call /\ x.recv = m.recv /\ x.media = m.media /\ x.then = "idle"
  BY <1>0, <1>1, <1>3, IdleFacts DEF ThType
<1>5. /\ m' \in MType /\ m'.reg = FALSE /\ m'.group = m.group /\ m'.direct = m.direct
      /\ m'.update = m.update /\ m'.epoch = m.epoch /\ m'.key = NoKey /\ m'.call = m.call
      /\ m'.media = 0 /\ m'.recv = 0
  BY <1>2, CallIds DEF TypeInv, MType
<1>6. /\ th' \in [Threads -> ThType] /\ th'[t] = x
      /\ \A s \in Threads : s # t => th'[s] = th[s]
  BY <1>2, <1>4, OneMoves
<1>7. TypeInv'
  BY <1>2, <1>5, <1>6 DEF TypeInv
<1>9. ThreadInv'
  <2>1. Local(t, th[t])'
    <3>1. /\ x.recv # 0 => md'[x.recv].st = "running" /\ r'[x.recv].st # "none" /\ x.recv # m'.recv
          /\ x.media # 0 => md'[x.media].st # "none" /\ x.media # m'.media
      BY <1>2, <1>4, <1>5 DEF EntryInv
    <3>2. x.h <= m'.call
      BY <1>0, <1>4, <1>5
    <3> QED BY <1>4, <1>6, <3>1, <3>2 DEF Local, Telling
  <2>2. Advance
    BY <1>0, <1>2, <1>5 DEF Advance
  <2>3. \A s \in Threads : th[s].pc = "launch" => md'[th[s].h].st = "pending"
    BY <1>2 DEF ThreadInv, Local
  <2>4. \A s \in Threads : s \notin {t} => th'[s] = th[s]
    BY <1>6
  <2>5. \A s \in Threads : s \in {t} => Local(s, th[s])'
    BY <2>1
  <2> QED BY <1>5, <1>6, <2>2, <2>3, <2>4, <2>5, ThreadsKept
<1>10. EntryInv'
  <2>1. \A s, q \in Threads : th'[s].pc = "launch" /\ th'[q].pc = "launch" /\ th'[s].h = th'[q].h => s = q
    BY <1>4, <1>6 DEF EntryInv
  <2>2. m.call # 0
    BY <1>2 DEF EntryInv
  <2> QED BY <1>2, <1>5, <2>1, <2>2 DEF EntryInv
<1>11. GoInv'
  <2>1. \A s \in Threads : th[s].pc = "clear" => th'[s] = th[s]
    BY <1>6
  <2>2. th'[t].pc = "clear" /\ th'[t].recv = m.recv
    BY <1>4, <1>6
  <2> QED BY <1>2, <2>1, <2>2, GoSame
<1>12. MediaInv' /\ RosterInv' /\ EpochInv' /\ StartInv'
  BY <1>5 DEF MediaInv, MediaFailureExplained, RosterInv, EpochInv, StartInv
<1>13. HandleInv'
  <2>1. \A s \in Threads : \/ th'[s] = th[s]
                           \/ th[s].pc \notin Telling /\ th'[s].pc \notin Telling
                           \/ /\ th[s].pc \in Telling /\ th'[s].pc \in Telling
                              /\ th'[s].u = th[s].u /\ th'[s].h = th[s].h
    BY <1>4, <1>6 DEF Telling
  <2> QED BY <1>2, <1>5, <2>1, HandleKept
<1> QED BY <1>7, <1>9, <1>10, <1>11, <1>12, <1>13

\* A thread changes the receivers N it has in hand, or cancels media it took out.
LEMMA ReceiversMove ==
    ASSUME IInv, NEW t \in Threads, NEW x \in ThType, th' = [th EXCEPT ![t] = x],
           UNCHANGED <<m, call, heart, left>>,
           hist' \in {hist, hist \cup {"key"}},
           NEW N, r' \in [Calls -> ReceiversType], md' \in [Calls -> MediaType],
           \A n \in Calls : n \notin N => r'[n] = r[n],
           \A n \in Calls : n \in N =>
              /\ md[n].st = "running" /\ Sorted(r'[n]) /\ r'[n].st # "none"
              /\ r'[n].st = r[n].st \/ (r'[n].st = "cleared" /\ n # m.recv)
              /\ r'[n].st # "made" /\ "key" \notin hist' => ~HoldsKeys(r'[n]),
           \A n \in Calls : \/ md'[n] = md[n]
                            \/ n # m.media /\ md[n].st # "none" /\ md'[n] = [md[n] EXCEPT !.cancelled = TRUE],
           Local(t, x),
           th[t].pc \notin Telling \cup {"start", "launch"}, x.pc \notin Telling \cup {"launch", "clear"},
           th[t].pc = "clear" /\ th[t].recv # 0 => th[t].recv \in N /\ r'[th[t].recv].st = "cleared"
    PROVE  TypeInv' /\ EntryInv' /\ GoInv' /\ ThreadInv' /\ MediaInv' /\ HandleInv' /\ StartInv'
<1> USE DEF IInv
<1>1. /\ th' \in [Threads -> ThType] /\ th'[t] = x
      /\ \A s \in Threads : s # t => th'[s] = th[s]
  BY OneMoves
<1>2. TypeInv'
  BY <1>1 DEF TypeInv
<1>3. \A n \in Calls : /\ md'[n].st = md[n].st /\ md'[n].tx = md[n].tx /\ md'[n].epoch = md[n].epoch
                       /\ md'[n].key = md[n].key /\ md'[n].tries = md[n].tries /\ md'[n].bad = md[n].bad
                       /\ n = m.media => md'[n] = md[n]
                       /\ md[n].st = "none" => md'[n] = md[n]
  BY DEF TypeInv, MediaType
<1>4. \A n \in Calls : r[n].st # "none" => r'[n].st # "none"
  OBVIOUS
<1>5. ThreadInv'
  <2>1. Advance
    BY <1>3, <1>4, Types DEF Advance
  <2>2. \A s \in Threads : th[s].pc = "launch" => th[s].h \in Calls /\ md[th[s].h].st = "pending"
    BY ThFields DEF ThreadInv, Local, TypeInv
  <2>3. Local(t, x)'
    BY <2>1, LocalKept
  <2>4. \A s \in Threads : s \notin {t} => th'[s] = th[s]
    BY <1>1
  <2>5. \A s \in Threads : s \in {t} => Local(s, th[s])'
    BY <1>1, <2>3 DEF Local
  <2>6. \A s \in Threads : s \notin {t} /\ th[s].pc = "launch" => md'[th[s].h].st = "pending"
    BY <1>3, <2>2
  <2> QED BY <1>1, <2>1, <2>4, <2>5, <2>6, ThreadsKept
<1>6. EntryInv'
  <2>1. m.call = 0 => ~m'.group
    BY DEF EntryInv
  <2>2. \A s \in Threads : th'[s].pc = "launch" => th'[s] = th[s]
    BY <1>1
  <2>3. m.recv # 0 => r'[m.recv].st = r[m.recv].st
    BY Types
  <2>4. m.media # 0 => md'[m.media].cancelled = md[m.media].cancelled
    BY <1>3, Types
  <2> QED BY <1>3, <2>1, <2>2, <2>3, <2>4, EntryKept
<1>7. GoInv'
  <2>1. ASSUME NEW n \in Calls PROVE Goroutine(n)'
    <3>0. Goroutine(n) /\ n # 0
      BY CallIds DEF GoInv
    <3>1. r'[n].st = "made" => /\ r[n].st = "made"
                               /\ ~(th[t].pc = "clear" /\ th[t].recv = n)
      BY <3>0
    <3>2. r'[n].st = "made" => \/ md[n].st \in Preparing \cup {"direct"}
                               \/ n = m.recv
                               \/ \E s \in Threads : th'[s].pc = "clear" /\ th'[s].recv = n
      BY <1>1, <3>0, <3>1 DEF Goroutine
    <3>3. CASE n \in N
      <4>1. md'[n].st = "running" /\ Sorted(r'[n]) /\ (r'[n].st # "made" /\ "key" \notin hist' => ~HoldsKeys(r'[n]))
        BY <1>3, <3>3
      <4>2. /\ md'[n].st \notin Unmaking \cup Preparing /\ md'[n].st \notin {"none", "direct", "failed", "fill", "publish"}
            /\ m' = m
        BY <4>1 DEF Preparing, Unmaking
      <4>3. r'[n].st = "made" => n = m'.recv \/ \E s \in Threads : th'[s].pc = "clear" /\ th'[s].recv = n
        BY <1>3, <3>2, <4>1, <4>2 DEF Preparing
      <4> QED BY <4>1, <4>2, <4>3 DEF Goroutine
    <3>4. CASE n \notin N
      <4>1. r'[n] = r[n]
        BY <3>4
      <4> QED BY <1>3, <3>0, <3>2, <4>1 DEF Goroutine
    <3> QED BY <3>3, <3>4
  <2>2. \A n \in Calls : Goroutine(n)'
    BY <2>1
  <2> QED BY <2>2 DEF GoInv
<1>8. MediaInv'
  <2>1. m.media # 0 => /\ md'[m.media] = md[m.media]
                       /\ md[m.media].st \in Preparing => r'[m.media] = r[m.media]
    BY <1>3, Types DEF Preparing
  <2> QED BY <2>1, MediaKept
<1>9. HandleInv'
  <2>1. \A s \in Threads : \/ th'[s] = th[s]
                           \/ th[s].pc \notin Telling /\ th'[s].pc \notin Telling
                           \/ /\ th[s].pc \in Telling /\ th'[s].pc \in Telling
                              /\ th'[s].u = th[s].u /\ th'[s].h = th[s].h
    BY <1>1
  <2>2. "handle" \in hist' <=> "handle" \in hist
    OBVIOUS
  <2> QED BY <2>1, <2>2, HandleKept
<1>10. StartInv'
  <2>1. \A s \in Threads : th[s].pc \in Telling \cup {"start"} => th'[s] = th[s]
    BY <1>1
  <2> QED BY <2>1, StartKept
<1> QED BY <1>2, <1>5, <1>6, <1>7, <1>8, <1>9, <1>10

\* Receivers that were taken out are wiped.
LEMMA WipeStep ==
    ASSUME IInv, NEW t \in Threads, NEW x \in ThType, th' = [th EXCEPT ![t] = x],
           NEW n, n # 0 => n \in Calls /\ n # m.recv /\ md[n].st = "running",
           r' = IF n # 0 THEN [r EXCEPT ![n] = Clear(r[n])] ELSE r,
           md' \in [Calls -> MediaType],
           \A k \in Calls : \/ md'[k] = md[k]
                            \/ k # m.media /\ md[k].st # "none" /\ md'[k] = [md[k] EXCEPT !.cancelled = TRUE],
           UNCHANGED <<m, call, heart, hist, left>>,
           Local(t, x), x.pc \in {"idle", "end"},
           (th[t].pc = "install" /\ m.recv = 0) \/ (th[t].pc = "clear" /\ n = th[t].recv)
    PROVE  IInv'
<1> USE DEF IInv
<1>1. PICK N : N = {k \in Calls : k = n}
  OBVIOUS
<1>2. \A k \in Calls : r[k] \in ReceiversType
  BY DEF TypeInv
<1>3. r' \in [Calls -> ReceiversType] /\ \A k \in Calls : r'[k] = IF k \in N THEN Clear(r[k]) ELSE r[k]
  <2>1. CASE n # 0
    BY <1>1, <1>2, <2>1, ClearFacts DEF TypeInv
  <2>2. CASE n = 0
    BY <1>1, <2>2, CallIds DEF TypeInv
  <2> QED BY <2>1, <2>2
<1>4. \A k \in Calls : k \in N =>
              /\ md[k].st = "running" /\ Sorted(r'[k]) /\ r'[k].st # "none"
              /\ r'[k].st = r[k].st \/ (r'[k].st = "cleared" /\ k # m.recv)
              /\ r'[k].st # "made" /\ "key" \notin hist' => ~HoldsKeys(r'[k])
  BY <1>1, <1>2, <1>3, ClearFacts, CallIds
<1>5. th[t].pc = "clear" /\ th[t].recv # 0 => th[t].recv \in N /\ r'[th[t].recv].st = "cleared"
  BY <1>1, <1>2, <1>3, ClearFacts
<1>6. th[t].pc \notin Telling \cup {"start", "launch"} /\ x.pc \notin Telling \cup {"launch", "clear"}
  BY DEF Telling
<1>7. TypeInv' /\ EntryInv' /\ GoInv' /\ ThreadInv' /\ MediaInv' /\ HandleInv' /\ StartInv'
  <2>1. \A k \in Calls : k \notin N => r'[k] = r[k]
    BY <1>3
  <2> QED BY <1>3, <1>4, <1>5, <1>6, <2>1, ReceiversMove
<1>8. th'[t] = x /\ \A s \in Threads : s # t => th'[s] = th[s]
  BY OneMoves
<1>9. m.recv # 0 => r'[m.recv] = r[m.recv]
  BY <1>1, <1>3, Types
<1>10. RosterInv'
  <2>1. m.recv # 0 => \A s \in Threads :
              /\ th[s].pc = "install" => \/ th'[s] = th[s]
                                         \/ th[s].u.tx <= m.update.tx
              /\ th'[s].pc = "install" => th'[s] = th[s]
              /\ th'[s].pc = "apply" => th'[s] = th[s] \/ th'[s].recv = m.recv
    BY <1>8
  <2> QED BY <1>9, <2>1, RosterKept
<1>11. EpochInv'
  <2>1. \/ th'["raw"] = th["raw"]
        \/ /\ th["raw"].pc # "installEpoch" /\ th'["raw"].pc # "installEpoch"
           /\ th'["raw"].pc = "applyEpoch" => th'["raw"].recv = m.recv
    BY <1>8 DEF Threads
  <2> QED BY <1>9, <2>1, EpochKept
<1> QED BY <1>7, <1>10, <1>11

\* finishCall's second half: the media it took is cancelled, the receivers wiped.
LEMMA ClearStep ==
    ASSUME IInv, NEW t \in Threads, FinishClears(t)
    PROVE  IInv'
<1>0. TypeInv /\ th[t] \in ThType /\ Local(t, th[t]) /\ m.call \in Nat
  BY Types DEF IInv, TypeInv, ThreadInv
<1>1. PICK x : x = [th[t] EXCEPT !.pc = "end", !.recv = 0, !.media = 0]
  OBVIOUS
<1>2. /\ th[t].pc = "clear" /\ th' = [th EXCEPT ![t] = x] /\ UNCHANGED <<m, call, heart, hist, left>>
      /\ md' = IF th[t].media # 0 THEN [md EXCEPT ![th[t].media].cancelled = TRUE] ELSE md
      /\ r' = IF th[t].recv # 0 THEN [r EXCEPT ![th[t].recv] = Clear(r[th[t].recv])] ELSE r
  BY <1>1 DEF FinishClears, Goto
<1>3. "end" \in Pcs
  BY DEF Pcs
<1>4. x \in ThType /\ x.pc = "end" /\ x.h = th[t].h /\ x.recv = 0 /\ x.u = th[t].u /\ x.then = th[t].then
  BY <1>0, <1>1, <1>3, CallIds DEF ThType
<1>5. Local(t, x)
  BY <1>0, <1>2, <1>4 DEF Local, Telling
<1>6. /\ th[t].recv # 0 => th[t].recv \in Calls /\ th[t].recv # m.recv /\ md[th[t].recv].st = "running"
      /\ th[t].media # 0 => th[t].media \in Calls /\ md[th[t].media].st # "none" /\ th[t].media # m.media
  BY <1>0, <1>2, ThFields DEF Local
<1>7. md' \in [Calls -> MediaType]
      /\ \A k \in Calls : \/ md'[k] = md[k]
                          \/ k # m.media /\ md[k].st # "none" /\ md'[k] = [md[k] EXCEPT !.cancelled = TRUE]
  <2>1. CASE th[t].media = 0
    BY <1>0, <1>2, <2>1 DEF TypeInv
  <2>2. CASE th[t].media # 0
    <3>1. PICK n, g : n = th[t].media /\ g = [md[n] EXCEPT !.cancelled = TRUE]
      OBVIOUS
    <3>2. n \in Calls /\ n # m.media /\ md[n].st # "none" /\ md[n] \in MediaType /\ md \in [Calls -> MediaType]
      BY <1>0, <1>6, <2>2, <3>1 DEF TypeInv
    <3>3. g \in MediaType
      BY <3>1, <3>2 DEF MediaType
    <3>4. md' = [md EXCEPT ![n] = g]
      BY <1>2, <2>2, <3>1
    <3> QED BY <3>1, <3>2, <3>3, <3>4
  <2> QED BY <2>1, <2>2
<1>8. x.pc \in {"idle", "end"}
  BY <1>4
<1> QED BY <1>2, <1>4, <1>5, <1>6, <1>7, <1>8, WipeStep

\* Hangup, terminate and error acks; the group offer is sent or the call finished.
LEMMA EndStep ==
    ASSUME IInv, NEW t \in Threads, End(t) \/ SendGroupOffer(t)
    PROVE  IInv'
<1>0. TypeInv /\ call \in CallType /\ heart \in BOOLEAN /\ left \in [Inputs -> Nat]
  BY DEF IInv, TypeInv
<1>1. CASE End(t)
  <2>1. th[t].pc = "idle" /\ FinishCall(t) /\ left' \in [Inputs -> Nat]
    BY <1>0, <1>1, IdleFacts, SpendType DEF End
  <2> QED BY <2>1, FinishStep
<1>2. CASE SendGroupOffer(t) /\ FinishCall(t)
  <2>1. th[t].pc = "offer" /\ left' \in [Inputs -> Nat]
    BY <1>0, <1>2 DEF SendGroupOffer
  <2> QED BY <1>2, <2>1, FinishStep
<1>3. CASE SendGroupOffer(t) /\ Goto(t, Idle) /\ UNCHANGED <<m, call, r, md, heart, hist>>
  <2>1. th[t].pc = "offer" /\ left' = left /\ th' = [th EXCEPT ![t] = Idle]
    BY <1>3 DEF SendGroupOffer, Goto
  <2>2. Idle \in ThType /\ Idle.pc = "idle" /\ Local(t, Idle)
    BY <1>0, IdleLocal
  <2> QED BY <1>0, <1>3, <2>1, <2>2, ThreadMoves DEF Telling
<1> QED BY <1>1, <1>2, <1>3 DEF SendGroupOffer

\* applyGroupUpdate tells the receivers, which take the roster or refuse it.
LEMMA ReceiversStep ==
    ASSUME IInv, NEW t \in Threads, UpdateReceivers(t)
    PROVE  IInv'
<1> USE DEF IInv
<1>0. /\ th[t].pc = "apply" /\ UNCHANGED <<m, call, md, heart, hist, left>> /\ TypeInv
      /\ th[t] \in ThType /\ Local(t, th[t]) /\ call \in CallType /\ heart \in BOOLEAN /\ left \in [Inputs -> Nat]
  BY DEF UpdateReceivers, TypeInv, ThreadInv
<1>1. PICK n, u : n = th[t].recv /\ u = th[t].u
  OBVIOUS
<1>2. /\ n \in Calls /\ n # 0 /\ md[n].st = "running" /\ r[n].st # "none" /\ u \in Updates /\ u.tx \in Txs
      /\ u.tx \in Nat /\ r[n] \in ReceiversType /\ Goroutine(n)
  BY <1>0, <1>1, ThFields, UpdateTx, Ids DEF Local, TypeInv, GoInv
<1>3. PICK y : y = ApplyGroupUpdate(r[n], u.tx, u.bad)
  OBVIOUS
<1>4. Idle \in ThType /\ Idle.pc = "idle" /\ Local(t, Idle)
  BY <1>0, IdleLocal
<1>5. CASE r' = [r EXCEPT ![n] = y.recv] /\ Goto(t, IF y.err THEN Idle ELSE At(t, "install"))
  <2>1. /\ y.err => y.recv = r[n]
        /\ ~y.err => y.recv.tx = IF u.tx <= r[n].tx THEN r[n].tx ELSE u.tx
        /\ y.recv \in ReceiversType /\ Sorted(y.recv)
        /\ y.recv.st = r[n].st /\ y.recv.tx >= r[n].tx /\ y.recv.epoch >= r[n].epoch
        /\ ~HoldsKeys(r[n]) => ~HoldsKeys(y.recv)
        /\ \A e \in Txs \cup {0}, k \in Keys \cup {NoKey} :
              /\ AtMost(r[n], e, k) => AtMost(y.recv, e, k)
              /\ Holds(r[n], e, k) => Holds(y.recv, e, k)
    <3>1. Sorted(r[n]) /\ u.tx \in Txs \cup {0}
      BY <1>2 DEF Goroutine
    <3>2. PICK z, tx, bad : z = r[n] /\ tx = u.tx /\ bad = u.bad
      OBVIOUS
    <3>3. z \in ReceiversType /\ Sorted(z) /\ tx \in Txs \cup {0} /\ y = ApplyGroupUpdate(z, tx, bad)
      BY <1>2, <1>3, <3>1, <3>2
    <3>4. /\ y.err => y.recv = z
          /\ ~y.err => y.recv.tx = IF tx <= z.tx THEN z.tx ELSE tx
          /\ y.recv \in ReceiversType /\ Sorted(y.recv)
          /\ y.recv.st = z.st /\ y.recv.tx >= z.tx /\ y.recv.epoch >= z.epoch
          /\ ~HoldsKeys(z) => ~HoldsKeys(y.recv)
          /\ \A e \in Txs \cup {0}, k \in Keys \cup {NoKey} :
                /\ AtMost(z, e, k) => AtMost(y.recv, e, k)
                /\ Holds(z, e, k) => Holds(y.recv, e, k)
      BY <3>3, UpdateFacts
    <3> QED BY <3>2, <3>4
  <2>2. PICK x : x = IF y.err THEN Idle ELSE At(t, "install")
    OBVIOUS
  <2>3. "install" \in Pcs
    BY DEF Pcs
  <2>4. /\ x \in ThType /\ x.pc \in {"idle", "install"} /\ Local(t, x)
        /\ x.pc = "install" => ~y.err /\ x.u = u
    <3>1. CASE y.err
      BY <1>4, <2>2, <3>1
    <3>2. CASE ~y.err
      <4>1. x \in ThType /\ x.pc = "install" /\ x.u = u /\ x.recv = n /\ x.h = th[t].h /\ x.then = th[t].then
        BY <1>0, <1>1, <2>2, <2>3, <3>2, AtFacts
      <4>2. Local(t, x)
        BY <1>0, <1>1, <4>1 DEF Local, Telling
      <4> QED BY <3>2, <4>1, <4>2
    <3> QED BY <3>1, <3>2
  <2>5. th' = [th EXCEPT ![t] = x]
    BY <1>5, <2>2 DEF Goto
  <2>6. r' \in [Calls -> ReceiversType] /\ r'[n] = y.recv /\ \A k \in Calls : k # n => r'[k] = r[k]
    BY <1>0, <1>2, <1>5, <2>1 DEF TypeInv
  <2>7. TypeInv' /\ EntryInv' /\ GoInv' /\ ThreadInv' /\ MediaInv' /\ HandleInv' /\ StartInv'
    <3>1. PICK N : N = {n}
      OBVIOUS
    <3>2. \A k \in Calls : k \in N =>
              /\ md[k].st = "running" /\ Sorted(r'[k]) /\ r'[k].st # "none"
              /\ r'[k].st = r[k].st \/ (r'[k].st = "cleared" /\ k # m.recv)
              /\ r'[k].st # "made" /\ "key" \notin hist' => ~HoldsKeys(r'[k])
      BY <1>0, <1>2, <2>1, <2>6, <3>1 DEF Goroutine
    <3>3. \A k \in Calls : k \notin N => r'[k] = r[k]
      BY <2>6, <3>1
    <3>4. md' \in [Calls -> MediaType]
      BY <1>0 DEF TypeInv
    <3>5. th[t].pc \notin Telling \cup {"start", "launch"} /\ x.pc \notin Telling \cup {"launch", "clear"}
      BY <1>0, <2>4 DEF Telling
    <3> QED BY <1>0, <2>4, <2>5, <2>6, <3>2, <3>3, <3>4, <3>5, ReceiversMove
  <2>8. th'[t] = x /\ \A s \in Threads : s # t => th'[s] = th[s]
    BY <2>4, <2>5, OneMoves
  <2>9. RosterInv'
    <3> SUFFICES ASSUME m.recv # 0, "roster" \notin hist
                 PROVE  /\ m.update.tx <= r'[m.recv].tx
                        /\ r'[m.recv].tx = m.update.tx
                             \/ \E s \in Threads : th'[s].pc = "install" /\ th'[s].u.tx = r'[m.recv].tx
                        /\ \A s \in Threads : th'[s].pc = "install" \/ (th'[s].pc = "apply" /\ th'[s].recv # m.recv)
                                                 => th'[s].u.tx <= r'[m.recv].tx
      BY <1>0 DEF RosterInv
    <3>1. m.recv \in Calls /\ m.update.tx \in Nat /\ r[m.recv].tx \in Nat /\ r'[m.recv].tx \in Nat
          /\ \A s \in Threads : th[s].u.tx \in Nat
      BY <2>6, Types, Fields, ThFields DEF TypeInv
    <3>2. /\ m.update.tx <= r[m.recv].tx
          /\ r[m.recv].tx = m.update.tx
                \/ \E s \in Threads : th[s].pc = "install" /\ th[s].u.tx = r[m.recv].tx
          /\ \A s \in Threads : th[s].pc = "install" \/ (th[s].pc = "apply" /\ th[s].recv # m.recv)
                                    => th[s].u.tx <= r[m.recv].tx
      BY DEF RosterInv
    <3>3. /\ r'[m.recv].tx >= r[m.recv].tx
          /\ r'[m.recv].tx # r[m.recv].tx => r'[m.recv].tx = u.tx /\ x.pc = "install"
          /\ x.pc = "install" => u.tx <= r'[m.recv].tx
      <4>1. CASE m.recv = n
        <5>1. y.err => r'[m.recv].tx = r[m.recv].tx
          BY <2>1, <2>6, <4>1
        <5>2. x.pc = "install" <=> ~y.err
          BY <1>0, <1>4, <2>2, <2>3, <2>4, AtFacts
        <5> QED BY <1>2, <2>1, <2>6, <3>1, <4>1, <5>1, <5>2
      <4>2. CASE m.recv # n
        <5>1. r'[m.recv] = r[m.recv] /\ u.tx <= r[m.recv].tx
          BY <1>0, <1>1, <2>6, <3>1, <3>2, <4>2
        <5> QED BY <3>1, <5>1
      <4> QED BY <4>1, <4>2
    <3>4. r'[m.recv].tx = m.update.tx
            \/ \E s \in Threads : th'[s].pc = "install" /\ th'[s].u.tx = r'[m.recv].tx
      <4>1. CASE r'[m.recv].tx # r[m.recv].tx
        BY <2>4, <2>8, <3>3, <4>1
      <4>2. CASE r'[m.recv].tx = r[m.recv].tx /\ r[m.recv].tx # m.update.tx
        <5>1. PICK s \in Threads : th[s].pc = "install" /\ th[s].u.tx = r[m.recv].tx
          BY <3>2, <4>2
        <5>2. th'[s] = th[s]
          BY <1>0, <2>8, <5>1
        <5> QED BY <4>2, <5>1, <5>2
      <4> QED BY <4>1, <4>2
    <3>5. ASSUME NEW s \in Threads, th'[s].pc = "install" \/ (th'[s].pc = "apply" /\ th'[s].recv # m.recv)
          PROVE  th'[s].u.tx <= r'[m.recv].tx
      <4>1. CASE s = t
        BY <2>4, <2>8, <3>3, <3>5, <4>1
      <4>2. CASE s # t
        <5>1. th'[s] = th[s] /\ th[s].u.tx <= r[m.recv].tx
          BY <2>8, <3>2, <3>5, <4>2
        <5> QED BY <3>1, <3>3, <5>1
      <4> QED BY <4>1, <4>2
    <3>6. m.update.tx <= r'[m.recv].tx
      BY <3>1, <3>2, <3>3
    <3> QED BY <3>4, <3>5, <3>6
  <2>10. EpochInv'
    <3> SUFFICES ASSUME m.recv # 0, "epoch" \notin hist
                 PROVE  /\ th'["raw"].pc \in {"applyEpoch", "installEpoch"} => th'["raw"].recv = m.recv
                        /\ IF th'["raw"].pc = "installEpoch"
                             THEN Holds(r'[m.recv], th'["raw"].u.tx, th'["raw"].key)
                             ELSE Holds(r'[m.recv], m.epoch, m.key)
      BY <1>0 DEF EpochInv
    <3>1. m.recv \in Calls /\ m.epoch \in Txs \cup {0} /\ m.key \in Keys \cup {NoKey} /\ "raw" \in Threads
      BY Types DEF Threads
    <3>2. th["raw"].u.tx \in Txs \cup {0} /\ th["raw"].key \in Keys \cup {NoKey}
      BY <3>1, ThFields DEF TypeInv
    <3>3. \A e \in Txs \cup {0}, k \in Keys \cup {NoKey} : Holds(r[m.recv], e, k) => Holds(r'[m.recv], e, k)
      BY <2>1, <2>6, <3>1
    <3>4. /\ th["raw"].pc \in {"applyEpoch", "installEpoch"} => th["raw"].recv = m.recv
          /\ IF th["raw"].pc = "installEpoch" THEN Holds(r[m.recv], th["raw"].u.tx, th["raw"].key)
                                              ELSE Holds(r[m.recv], m.epoch, m.key)
      BY DEF EpochInv
    <3>5. th'["raw"] = th["raw"] \/ (th["raw"].pc = "apply" /\ th'["raw"].pc \notin {"applyEpoch", "installEpoch"})
      BY <1>0, <2>4, <2>8, <3>1
    <3>6. CASE th'["raw"] = th["raw"]
      BY <3>1, <3>2, <3>3, <3>4, <3>6
    <3>7. CASE th["raw"].pc = "apply" /\ th'["raw"].pc \notin {"applyEpoch", "installEpoch"}
      <4>1. Holds(r[m.recv], m.epoch, m.key)
        BY <3>4, <3>7
      <4>2. Holds(r'[m.recv], m.epoch, m.key)
        BY <3>1, <3>3, <4>1
      <4> QED BY <3>7, <4>2
    <3> QED BY <3>5, <3>6, <3>7
  <2> QED BY <2>7, <2>9, <2>10
<1>6. CASE Goto(t, Idle) /\ r' = r
  BY <1>0, <1>4, <1>6, ThreadMoves DEF Telling, Goto
<1>7. \/ r' = [r EXCEPT ![n] = y.recv] /\ Goto(t, IF y.err THEN Idle ELSE At(t, "install"))
      \/ Goto(t, Idle) /\ r' = r
  BY <1>1, <1>3 DEF UpdateReceivers
<1> QED BY <1>5, <1>6, <1>7

\* applyGroupUpdate's second look: the entry takes the roster, or it is dropped and
\* the receivers of an ended call are wiped.
LEMMA InstallStep ==
    ASSUME IInv, NEW t \in Threads, UpdateInstalls(t)
    PROVE  IInv'
<1> USE DEF IInv
<1>0. /\ th[t].pc = "install" /\ UNCHANGED <<call, md, left>> /\ TypeInv
      /\ th[t] \in ThType /\ Local(t, th[t]) /\ call \in CallType /\ heart \in BOOLEAN /\ left \in [Inputs -> Nat]
  BY DEF UpdateInstalls, TypeInv, ThreadInv
<1>1. PICK u : u = th[t].u
  OBVIOUS
<1>2. /\ u \in Updates /\ u.tx \in Txs /\ u.tx \in Nat /\ u.tx > 0 /\ m.update.tx \in Nat /\ m.call \in Nat
      /\ m.call \in 0..MaxCalls /\ call.groupTx \in Nat
  BY <1>0, <1>1, UpdateTx, Ids, Types DEF Local
<1>3. CASE NewRoster(u)
  <2>0. /\ m.reg /\ u.tx > m.update.tx /\ m' = [m EXCEPT !.group = TRUE, !.update = u]
        /\ heart' = FALSE /\ hist' = hist \ {"handle"} /\ r' = r
        /\ th' = [th EXCEPT ![t] = [th[t] EXCEPT !.pc = "admit", !.h = m.call, !.recv = 0]]
    BY <1>1, <1>3 DEF UpdateInstalls, NewRoster, Goto
  <2>1. PICK x : x = [th[t] EXCEPT !.pc = "admit", !.h = m.call, !.recv = 0]
    OBVIOUS
  <2>2. "admit" \in Pcs
    BY DEF Pcs, Telling
  <2>3. x \in ThType /\ x.pc = "admit" /\ x.u = u /\ x.h = m.call /\ x.recv = 0 /\ x.then = th[t].then
    BY <1>0, <1>1, <1>2, <2>1, <2>2, CallIds DEF ThType
  <2>4. /\ m' \in MType /\ m'.reg = m.reg /\ m'.group = TRUE /\ m'.direct = m.direct
        /\ m'.update = u /\ m'.epoch = m.epoch /\ m'.key = m.key /\ m'.call = m.call
        /\ m'.media = m.media /\ m'.recv = m.recv
    BY <1>2, <2>0 DEF TypeInv, MType
  <2>5. /\ th' \in [Threads -> ThType] /\ th'[t] = x
        /\ \A s \in Threads : s # t => th'[s] = th[s]
    BY <2>0, <2>1, <2>3, OneMoves
  <2>6. TypeInv'
    BY <1>0, <2>0, <2>4, <2>5 DEF TypeInv
  <2>7. ThreadInv'
    <3>1. Local(t, th[t])'
      BY <1>0, <1>2, <2>3, <2>4, <2>5 DEF Local, Telling
    <3>2. Advance
      BY <1>0, <1>2, <2>0, <2>4 DEF Advance
    <3>3. \A s \in Threads : th[s].pc = "launch" => md'[th[s].h].st = "pending"
      BY <1>0 DEF ThreadInv, Local
    <3>4. \A s \in Threads : s \notin {t} => th'[s] = th[s]
      BY <2>5
    <3>5. \A s \in Threads : s \in {t} => Local(s, th[s])'
      BY <3>1
    <3> QED BY <2>4, <2>5, <3>2, <3>3, <3>4, <3>5, ThreadsKept
  <2>8. EntryInv'
    <3>1. \A s, q \in Threads : th'[s].pc = "launch" /\ th'[q].pc = "launch" /\ th'[s].h = th'[q].h => s = q
      BY <2>3, <2>5 DEF EntryInv
    <3>2. m.call # 0
      BY <2>0 DEF EntryInv
    <3> QED BY <1>0, <2>0, <2>4, <3>1, <3>2 DEF EntryInv
  <2>9. GoInv'
    <3>1. \A s \in Threads : th[s].pc = "clear" => th'[s] = th[s]
      BY <1>0, <2>5
    <3> QED BY <1>0, <2>0, <2>4, <3>1, GoSame
  <2>10. MediaInv'
    <3>1. (m.key = NoKey <=> m.epoch = 0)
      BY <2>0 DEF MediaInv
    <3>2. m.media # 0 => m'.direct \/ Prerequisites'
      BY <1>2, <2>0, <2>4 DEF MediaInv, Prerequisites
    <3>3. ASSUME m.media # 0, md[m.media].st \in Preparing PROVE Filled(md[m.media], r[m.media])'
      <4>1. Filled(md[m.media], r[m.media]) /\ md[m.media].tx \in Nat
        BY <3>3, Types, GoTypes DEF MediaInv, TypeInv
      <4>2. md[m.media].tx <= u.tx
        BY <1>2, <2>0, <4>1 DEF Filled
      <4> QED BY <1>0, <2>0, <2>4, <4>1, <4>2 DEF Filled
    <3>4. MediaFailureExplained'
      BY <1>0, <2>4 DEF MediaInv, MediaFailureExplained
    <3> QED BY <1>0, <2>0, <2>4, <3>1, <3>2, <3>3, <3>4 DEF MediaInv
  <2>11. RosterInv'
    <3> SUFFICES ASSUME m.recv # 0, "roster" \notin hist
                 PROVE  /\ u.tx <= r[m.recv].tx
                        /\ r[m.recv].tx = u.tx
                             \/ \E s \in Threads : th'[s].pc = "install" /\ th'[s].u.tx = r[m.recv].tx
                        /\ \A s \in Threads : th'[s].pc = "install" \/ (th'[s].pc = "apply" /\ th'[s].recv # m.recv)
                                                 => th'[s].u.tx <= r[m.recv].tx
      BY <2>0, <2>4 DEF RosterInv
    <3>1. r[m.recv].tx \in Nat
      BY Types, Fields DEF TypeInv
    <3>2. /\ m.update.tx <= r[m.recv].tx
          /\ r[m.recv].tx = m.update.tx
                \/ \E s \in Threads : th[s].pc = "install" /\ th[s].u.tx = r[m.recv].tx
          /\ \A s \in Threads : th[s].pc = "install" \/ (th[s].pc = "apply" /\ th[s].recv # m.recv)
                                    => th[s].u.tx <= r[m.recv].tx
      BY DEF RosterInv
    <3>3. u.tx <= r[m.recv].tx /\ r[m.recv].tx # m.update.tx
      BY <1>0, <1>1, <1>2, <2>0, <3>1, <3>2
    <3>4. PICK s \in Threads : th[s].pc = "install" /\ th[s].u.tx = r[m.recv].tx
      BY <3>2, <3>3
    <3>5. r[m.recv].tx = u.tx \/ (th'[s].pc = "install" /\ th'[s].u.tx = r[m.recv].tx)
      BY <1>1, <2>5, <3>4
    <3>6. \A q \in Threads : th'[q].pc = "install" \/ (th'[q].pc = "apply" /\ th'[q].recv # m.recv)
                                => th'[q].u.tx <= r[m.recv].tx
      BY <2>3, <2>5, <3>2
    <3> QED BY <3>3, <3>5, <3>6
  <2>12. EpochInv'
    <3>1. \/ th'["raw"] = th["raw"]
          \/ /\ th["raw"].pc # "installEpoch" /\ th'["raw"].pc # "installEpoch"
             /\ th'["raw"].pc = "applyEpoch" => th'["raw"].recv = m.recv
      BY <1>0, <2>3, <2>5 DEF Threads
    <3>2. "epoch" \in hist => "epoch" \in hist'
      BY <2>0
    <3> QED BY <2>0, <2>4, <3>1, <3>2, EpochKept
  <2>13. HandleInv' /\ StartInv'
    <3>1. th'[t].pc \in Telling /\ th'[t].h = m'.call /\ th'[t].u.tx = m'.update.tx
      BY <2>3, <2>4, <2>5 DEF Telling
    <3>2. call.groupTx <= u.tx /\ "handle" \notin hist'
      BY <1>2, <2>0 DEF HandleInv
    <3> QED BY <1>0, <2>4, <3>1, <3>2 DEF HandleInv, StartInv
  <2> QED BY <2>6, <2>7, <2>8, <2>9, <2>10, <2>11, <2>12, <2>13
<1>4. CASE ~NewRoster(u)
  <2>1. /\ r' = (IF ~m.reg /\ th[t].recv # 0 THEN [r EXCEPT ![th[t].recv] = Clear(r[th[t].recv])] ELSE r)
        /\ th' = [th EXCEPT ![t] = Idle] /\ UNCHANGED <<m, heart, hist>>
    BY <1>1, <1>4 DEF UpdateInstalls, Goto
  <2>2. Idle \in ThType /\ Idle.pc = "idle" /\ Local(t, Idle)
    BY <1>0, IdleLocal
  <2>3. CASE ~m.reg /\ th[t].recv # 0
    <3>1. m.recv = 0
      BY <2>3 DEF EntryInv
    <3>2. PICK n : n = th[t].recv
      OBVIOUS
    <3>3. n \in Calls /\ n # 0 /\ n # m.recv /\ md[n].st = "running"
      BY <1>0, <2>3, <3>1, <3>2, ThFields DEF Local
    <3>4. r' = IF n # 0 THEN [r EXCEPT ![n] = Clear(r[n])] ELSE r
      BY <2>1, <2>3, <3>2
    <3>5. md' \in [Calls -> MediaType] /\ \A k \in Calls : md'[k] = md[k]
      BY <1>0 DEF TypeInv
    <3>6. PICK x : x = Idle
      OBVIOUS
    <3>7. x \in ThType /\ x.pc \in {"idle", "end"} /\ Local(t, x) /\ th' = [th EXCEPT ![t] = x]
      BY <2>1, <2>2, <3>6
    <3>8. UNCHANGED <<m, call, heart, hist, left>>
      BY <1>0, <2>1
    <3> QED BY <1>0, <3>1, <3>3, <3>4, <3>5, <3>7, <3>8, WipeStep
  <2>4. CASE ~(~m.reg /\ th[t].recv # 0)
    <3>1. r' = r
      BY <2>1, <2>4
    <3>2. m.recv # 0 => th[t].u.tx <= m.update.tx
      <4>1. m.recv # 0 => m.reg
        BY DEF EntryInv
      <4> QED BY <1>1, <1>2, <1>4, <4>1 DEF NewRoster
    <3> QED BY <1>0, <2>1, <2>2, <3>1, <3>2, ThreadMoves DEF Telling
  <2> QED BY <2>3, <2>4
<1> QED BY <1>3, <1>4

\* setGroupState: the handle takes the newest roster, whoever brings it.
LEMMA StateStep ==
    ASSUME IInv, NEW t \in Threads, SetGroupState(t)
    PROVE  IInv'
<1> USE DEF IInv
<1>0. /\ th[t].pc = "state" /\ UNCHANGED <<m, r, md, heart, hist, left>> /\ TypeInv
      /\ call \in CallType /\ heart \in BOOLEAN /\ left \in [Inputs -> Nat]
      /\ th[t] \in ThType /\ Local(t, th[t])
  BY DEF SetGroupState, TypeInv, ThreadInv
<1>1. PICK n : n = IF th[t].h = m.call /\ th[t].u.tx > call.groupTx THEN th[t].u.tx ELSE call.groupTx
  OBVIOUS
<1>2. /\ th[t].u.tx \in Txs \cup {0} /\ th[t].u.tx \in Nat /\ call.groupTx \in Txs \cup {0}
      /\ call.groupTx \in Nat /\ m.update.tx \in Nat
      /\ th[t].h = m.call => th[t].u.tx <= m.update.tx
  BY <1>0, ThFields, Types DEF Local, Telling
<1>3. n \in Txs \cup {0} /\ n <= m.update.tx /\ n >= call.groupTx /\ (th[t].h = m.call => n >= th[t].u.tx) /\ n \in Nat
      /\ (th[t].h # m.call => n = call.groupTx)
  BY <1>1, <1>2 DEF HandleInv
<1>4. call' = [call EXCEPT !.groupTx = n]
  <2>1. CASE th[t].h = m.call
    BY <1>1, <2>1 DEF SetGroupState, Write
  <2>2. CASE th[t].h # m.call
    <3>1. call' = call /\ n = call.groupTx
      BY <1>3, <2>2 DEF SetGroupState, Write
    <3> QED BY <1>0, <3>1 DEF CallType
  <2> QED BY <2>1, <2>2
<1>5. call' \in CallType /\ call'.groupTx = n
  BY <1>0, <1>3, <1>4 DEF CallType
<1>6. PICK x : x = Starting(t)
  OBVIOUS
<1>8. x \in ThType /\ x.pc = "start" /\ x.u = th[t].u /\ x.then = th[t].then /\ x.h = 0 /\ x.recv = 0
      /\ th' = [th EXCEPT ![t] = x]
  BY <1>0, <1>6, StartingFacts DEF SetGroupState, Goto
<1>9. Local(t, x)
  BY <1>0, <1>8, Types DEF Local, Telling
<1>10. TypeInv' /\ EntryInv' /\ GoInv' /\ ThreadInv' /\ MediaInv' /\ RosterInv' /\ EpochInv'
  BY <1>0, <1>5, <1>8, <1>9, MovesCore
<1>11. th'[t] = x /\ \A s \in Threads : s # t => th'[s] = th[s]
  BY <1>8, OneMoves
<1>12. HandleInv'
  <2>0. n <= m'.update.tx /\ call'.groupTx <= m'.update.tx
    BY <1>0, <1>3, <1>5
  <2>1. CASE "handle" \in hist
    <3>1. n = 0
      BY <1>0, <1>3, <2>1 DEF HandleInv, Telling
    <3>2. \A s \in Threads : th'[s].pc \in Telling => th'[s].h # m'.call
      BY <1>0, <1>8, <1>11, <2>1 DEF HandleInv, Telling
    <3> QED BY <1>0, <1>5, <2>0, <2>1, <3>1, <3>2 DEF HandleInv
  <2>2. CASE "handle" \notin hist /\ call.groupTx = m.update.tx
    <3>1. n = m.update.tx
      BY <1>2, <1>3, <2>2
    <3> QED BY <1>0, <1>5, <2>0, <2>2, <3>1 DEF HandleInv
  <2>3. CASE "handle" \notin hist /\ call.groupTx # m.update.tx
    <3>1. PICK s \in Threads : th[s].pc \in Telling /\ th[s].h = m.call /\ th[s].u.tx = m.update.tx
      BY <2>3 DEF HandleInv
    <3>2. CASE s = t
      <4>1. n = m.update.tx
        BY <1>2, <1>3, <3>1, <3>2
      <4> QED BY <1>0, <1>5, <2>0, <2>3, <4>1 DEF HandleInv
    <3>3. CASE s # t
      <4>1. th'[s].pc \in Telling /\ th'[s].h = m'.call /\ th'[s].u.tx = m'.update.tx
        BY <1>0, <1>11, <3>1, <3>3
      <4> QED BY <1>0, <2>0, <2>3, <4>1 DEF HandleInv
    <3> QED BY <3>2, <3>3
  <2> QED BY <2>1, <2>2, <2>3
<1>13. StartInv'
  <2>1. th'[t].pc \in Telling \cup {"start"}
    BY <1>8, <1>11
  <2> QED BY <2>1 DEF StartInv
<1> QED BY <1>10, <1>12, <1>13

\* installGroupEpoch tells the receivers: an epoch newer than the entry's is
\* never refused by receivers that are not ahead of it.
LEMMA EpochReceiversStep ==
    ASSUME IInv, NEW t \in Threads, EpochReceivers(t)
    PROVE  IInv'
<1> USE DEF IInv
<1>0. /\ th[t].pc = "applyEpoch" /\ UNCHANGED <<m, call, md, heart, left>> /\ TypeInv
      /\ th[t] \in ThType /\ Local(t, th[t])
  BY DEF EpochReceivers, TypeInv, ThreadInv
<1>1. PICK n, tx, k : n = th[t].recv /\ tx = th[t].u.tx /\ k = th[t].key
  OBVIOUS
<1>2. /\ n \in Calls /\ n # 0 /\ md[n].st = "running" /\ r[n].st # "none" /\ tx \in Txs /\ k \in Keys
      /\ t = "raw" /\ tx > m.epoch /\ r[n] \in ReceiversType /\ Goroutine(n) /\ Sorted(r[n])
      /\ hist' = IF r[n].st = "cleared" THEN hist \cup {"key"} ELSE hist
  BY <1>0, <1>1, ThFields DEF Local, TypeInv, GoInv, Goroutine, EpochReceivers
<1>3. PICK y : y = ApplyGroupRawEpoch(r[n], tx, k)
  OBVIOUS
<1>4. /\ y.recv \in ReceiversType /\ Sorted(y.recv)
      /\ y.recv.st = r[n].st /\ y.recv.tx = r[n].tx /\ y.recv.epoch >= r[n].epoch
      /\ AtMost(r[n], tx, k) => ~y.err /\ Holds(y.recv, tx, k)
  BY <1>2, <1>3, EpochFacts
<1>5. PICK x : x = IF y.err THEN Idle ELSE At(t, "installEpoch")
  OBVIOUS
<1>6. r' = [r EXCEPT ![n] = y.recv] /\ th' = [th EXCEPT ![t] = x]
  BY <1>1, <1>3, <1>5 DEF EpochReceivers, Goto
<1>7. "installEpoch" \in Pcs
  BY DEF Pcs
<1>8. /\ x \in ThType /\ x.pc \in {"idle", "installEpoch"} /\ Local(t, x) /\ (x.pc = "idle" => y.err)
      /\ x.pc = "installEpoch" => x.u.tx = tx /\ x.key = k /\ x.recv = n
  <2>1. CASE y.err
    <3>1. Idle \in ThType /\ Idle.pc = "idle" /\ Local(t, Idle)
      BY <1>0, IdleLocal
    <3> QED BY <1>5, <2>1, <3>1
  <2>2. CASE ~y.err
    <3>1. /\ x \in ThType /\ x.pc = "installEpoch" /\ x.u = th[t].u /\ x.key = k /\ x.recv = n
          /\ x.h = th[t].h /\ x.then = th[t].then
      BY <1>0, <1>1, <1>5, <1>7, <2>2, AtFacts
    <3>2. Local(t, x)
      BY <1>0, <1>1, <3>1 DEF Local, Telling
    <3> QED BY <1>1, <3>1, <3>2
  <2> QED BY <2>1, <2>2
<1>9. r' \in [Calls -> ReceiversType] /\ r'[n] = y.recv /\ \A j \in Calls : j # n => r'[j] = r[j]
  BY <1>0, <1>2, <1>4, <1>6 DEF TypeInv
<1>10. TypeInv' /\ EntryInv' /\ GoInv' /\ ThreadInv' /\ MediaInv' /\ HandleInv' /\ StartInv'
  <2>1. PICK N : N = {n}
    OBVIOUS
  <2>2. r'[n].st # "made" => "key" \in hist'
    BY <1>2, <1>4, <1>9, Fields
  <2>3. \A j \in Calls : j \in N =>
            /\ md[j].st = "running" /\ Sorted(r'[j]) /\ r'[j].st # "none"
            /\ r'[j].st = r[j].st \/ (r'[j].st = "cleared" /\ j # m.recv)
            /\ r'[j].st # "made" /\ "key" \notin hist' => ~HoldsKeys(r'[j])
    BY <1>2, <1>4, <1>9, <2>1, <2>2
  <2>4. \A j \in Calls : j \notin N => r'[j] = r[j]
    BY <1>9, <2>1
  <2>5. md' \in [Calls -> MediaType]
    BY <1>0 DEF TypeInv
  <2>6. th[t].pc \notin Telling \cup {"start", "launch"} /\ x.pc \notin Telling \cup {"launch", "clear"}
    BY <1>0, <1>8 DEF Telling
  <2>7. hist' \in {hist, hist \cup {"key"}}
    BY <1>2
  <2> QED BY <1>0, <1>6, <1>8, <1>9, <2>3, <2>4, <2>5, <2>6, <2>7, ReceiversMove
<1>11. th'[t] = x /\ \A s \in Threads : s # t => th'[s] = th[s]
  BY <1>6, <1>8, OneMoves
<1>12. RosterInv'
  <2>1. m.recv # 0 => \A s \in Threads :
              /\ th[s].pc = "install" => \/ th'[s] = th[s]
                                         \/ th[s].u.tx <= m.update.tx
              /\ th'[s].pc = "install" => th'[s] = th[s]
              /\ th'[s].pc = "apply" => th'[s] = th[s] \/ th'[s].recv = m.recv
    BY <1>0, <1>8, <1>11
  <2>2. m.recv # 0 => r'[m.recv].tx = r[m.recv].tx
    BY <1>4, <1>9, Types
  <2>3. "roster" \in hist => "roster" \in hist'
    BY <1>2
  <2> QED BY <1>0, <2>1, <2>2, <2>3, RosterKept
<1>13. EpochInv'
  <2> SUFFICES ASSUME m.recv # 0, "epoch" \notin hist
               PROVE  /\ th'["raw"].pc \in {"applyEpoch", "installEpoch"} => th'["raw"].recv = m.recv
                      /\ IF th'["raw"].pc = "installEpoch"
                           THEN Holds(r'[m.recv], th'["raw"].u.tx, th'["raw"].key)
                           ELSE Holds(r'[m.recv], m.epoch, m.key)
    BY <1>0, <1>2 DEF EpochInv
  <2>1. n = m.recv /\ AtMost(r[n], m.epoch, m.key)
    BY <1>0, <1>1, <1>2 DEF EpochInv, Holds
  <2>2. AtMost(r[n], tx, k)
    <3>1. m.epoch \in Txs \cup {0} /\ m.epoch \in Nat /\ tx \in Nat
      BY <1>2, Types, Ids
    <3>2. m.epoch < tx
      BY <1>2, <3>1
    <3> QED BY <1>2, <2>1, <3>1, <3>2, HoldsNewer
  <2>3. x.pc = "installEpoch" /\ Holds(r'[n], tx, k)
    BY <1>4, <1>8, <1>9, <2>2
  <2> QED BY <1>2, <1>8, <1>11, <2>1, <2>3
<1> QED BY <1>10, <1>12, <1>13

\* installGroupEpoch's second look: the entry takes the epoch the receivers have.
LEMMA EpochInstallStep ==
    ASSUME IInv, NEW t \in Threads, EpochInstalls(t)
    PROVE  IInv'
<1> USE DEF IInv
<1>0. /\ th[t].pc = "installEpoch" /\ UNCHANGED <<call, r, md, heart, hist, left>> /\ TypeInv
      /\ call \in CallType /\ heart \in BOOLEAN /\ left \in [Inputs -> Nat]
      /\ th[t] \in ThType /\ Local(t, th[t])
  BY DEF EpochInstalls, TypeInv, ThreadInv
<1>1. PICK tx, k : tx = th[t].u.tx /\ k = th[t].key
  OBVIOUS
<1>2. /\ tx \in Txs /\ k \in Keys /\ t = "raw" /\ m.group /\ tx > m.epoch /\ tx \in Nat /\ tx > 0
      /\ k # NoKey /\ m.epoch \in Nat /\ m.call \in Nat /\ m.update.tx \in Nat
  BY <1>0, <1>1, Ids, Types DEF Local
<1>3. CASE NewEpoch(tx)
  <2>0. m.reg /\ m' = [m EXCEPT !.epoch = tx, !.key = k] /\ th' = [th EXCEPT ![t] = Starting(t)]
    BY <1>1, <1>3 DEF EpochInstalls, NewEpoch, Goto
  <2>1. PICK x : x = Starting(t)
    OBVIOUS
  <2>3. x \in ThType /\ x.pc = "start" /\ x.u = th[t].u /\ x.then = th[t].then /\ x.h = 0 /\ x.recv = 0
    BY <1>0, <2>1, StartingFacts
  <2>4. /\ m' \in MType /\ m'.reg = m.reg /\ m'.group = m.group /\ m'.direct = m.direct
        /\ m'.update = m.update /\ m'.epoch = tx /\ m'.key = k /\ m'.call = m.call
        /\ m'.media = m.media /\ m'.recv = m.recv
    BY <1>2, <2>0 DEF TypeInv, MType
  <2>5. /\ th' \in [Threads -> ThType] /\ th'[t] = x
        /\ \A s \in Threads : s # t => th'[s] = th[s]
    BY <2>0, <2>1, <2>3, OneMoves
  <2>6. TypeInv'
    BY <1>0, <2>4, <2>5 DEF TypeInv
  <2>7. ThreadInv'
    <3>1. Local(t, th[t])'
      BY <1>0, <1>2, <2>3, <2>4, <2>5 DEF Local, Telling
    <3>2. Advance
      BY <1>0, <1>2, <2>4 DEF Advance
    <3>3. \A s \in Threads : th[s].pc = "launch" => md'[th[s].h].st = "pending"
      BY <1>0 DEF ThreadInv, Local
    <3>4. \A s \in Threads : s \notin {t} => th'[s] = th[s]
      BY <2>5
    <3>5. \A s \in Threads : s \in {t} => Local(s, th[s])'
      BY <3>1
    <3>6. \A s \in Threads : s \notin {t} => th[s].pc \notin {"applyEpoch", "installEpoch"}
      BY <1>2 DEF ThreadInv, Local
    <3> QED BY <2>5, <3>2, <3>3, <3>4, <3>5, <3>6, ThreadsKept
  <2>8. EntryInv'
    <3>1. \A s \in Threads : th'[s].pc = "launch" => th'[s] = th[s]
      BY <2>3, <2>5
    <3>2. m.call = 0 => ~m'.group
      BY <2>4 DEF EntryInv
    <3> QED BY <1>0, <2>4, <3>1, <3>2, EntryKept
  <2>9. GoInv'
    <3>1. \A s \in Threads : th[s].pc = "clear" => th'[s] = th[s]
      BY <1>0, <2>5
    <3> QED BY <1>0, <2>4, <3>1, GoSame
  <2>10. MediaInv'
    <3>1. m'.epoch # 0 /\ (m.group \/ m.direct)
      BY <1>2, <2>4
    <3>2. m.media # 0 => m'.direct \/ Prerequisites'
      BY <1>2, <2>4 DEF MediaInv, Prerequisites
    <3>3. ASSUME m.media # 0, md[m.media].st \in Preparing PROVE Filled(md[m.media], r[m.media])'
      <4>1. Filled(md[m.media], r[m.media]) /\ md[m.media].epoch \in Nat
        BY <3>3, Types, GoTypes DEF MediaInv, TypeInv
      <4>2. md[m.media].epoch <= tx /\ md[m.media].epoch # tx
        BY <1>2, <4>1 DEF Filled
      <4> QED BY <1>0, <2>4, <4>1, <4>2 DEF Filled
    <3>4. MediaFailureExplained'
      BY <1>0, <2>4 DEF MediaInv, MediaFailureExplained
    <3> QED BY <1>0, <1>2, <2>4, <3>1, <3>2, <3>3, <3>4 DEF MediaInv
  <2>11. RosterInv'
    <3>1. m.recv # 0 => \A s \in Threads :
              /\ th[s].pc = "install" => \/ th'[s] = th[s]
                                         \/ th[s].u.tx <= m.update.tx
              /\ th'[s].pc = "install" => th'[s] = th[s]
              /\ th'[s].pc = "apply" => th'[s] = th[s] \/ th'[s].recv = m.recv
      BY <1>0, <2>3, <2>5
    <3> QED BY <1>0, <2>4, <3>1, RosterKept
  <2>12. EpochInv'
    <3>1. m.recv # 0 /\ "epoch" \notin hist => Holds(r[m.recv], tx, k)
      BY <1>0, <1>1, <1>2 DEF EpochInv
    <3>2. th'["raw"].pc = "start"
      BY <1>2, <2>3, <2>5
    <3> QED BY <1>0, <2>4, <3>1, <3>2 DEF EpochInv
  <2>13. HandleInv'
    <3>1. \A s \in Threads : \/ th'[s] = th[s]
                             \/ th[s].pc \notin Telling /\ th'[s].pc \notin Telling
                             \/ /\ th[s].pc \in Telling /\ th'[s].pc \in Telling
                                /\ th'[s].u = th[s].u /\ th'[s].h = th[s].h
      BY <1>0, <2>3, <2>5 DEF Telling
    <3> QED BY <1>0, <2>4, <3>1, HandleKept
  <2>14. StartInv'
    <3>1. th'[t].pc \in Telling \cup {"start"}
      BY <2>3, <2>5
    <3> QED BY <3>1 DEF StartInv
  <2> QED BY <2>6, <2>7, <2>8, <2>9, <2>10, <2>11, <2>12, <2>13, <2>14
<1>4. CASE ~NewEpoch(tx)
  <2>1. m' = m /\ th' = [th EXCEPT ![t] = Idle]
    BY <1>1, <1>4 DEF EpochInstalls, Goto
  <2>2. Idle \in ThType /\ Idle.pc = "idle" /\ Local(t, Idle)
    BY <1>0, IdleLocal
  <2>3. m.recv = 0
    BY <1>2, <1>4 DEF NewEpoch, EntryInv
  <2> QED BY <1>0, <2>1, <2>2, <2>3, ThreadMoves DEF Telling
<1> QED BY <1>3, <1>4

\* maybeStartMedia starts media once, or finds that something is missing.
LEMMA StartStep ==
    ASSUME IInv, NEW t \in Threads, StartMedia(t)
    PROVE  IInv'
<1> USE DEF IInv
<1>0. /\ th[t].pc = "start" /\ UNCHANGED <<call, r, heart, hist, left>> /\ TypeInv
      /\ call \in CallType /\ heart \in BOOLEAN /\ left \in [Inputs -> Nat]
      /\ th[t] \in ThType /\ Local(t, th[t]) /\ m.call \in 0..MaxCalls /\ m.call \in Nat /\ m.update.tx \in Nat
  BY Types DEF StartMedia, TypeInv, ThreadInv
<1>1. CASE CanStart
  <2>0. PICK n : n = m.call
    OBVIOUS
  <2>1. /\ m.reg /\ m.media = 0 /\ m' = [m EXCEPT !.media = n] /\ md' = [md EXCEPT ![n].st = "pending"]
        /\ th' = [th EXCEPT ![t] = [th[t] EXCEPT !.pc = "launch", !.h = n]]
    BY <1>1, <2>0 DEF StartMedia, CanStart, Goto
  <2>2. n \in Calls /\ n \in 0..MaxCalls /\ n # 0 /\ md[n].st = "none" /\ Goroutine(n) /\ md[n] \in MediaType
        /\ md \in [Calls -> MediaType]
    <3>1. m.call # 0 /\ md[m.call].st = "none"
      BY <2>1 DEF EntryInv
    <3>2. n \in Calls
      BY <1>0, <2>0, <3>1, CallIds
    <3> QED BY <1>0, <2>0, <3>1, <3>2 DEF GoInv, TypeInv
  <2>3. PICK x : x = [th[t] EXCEPT !.pc = "launch", !.h = n]
    OBVIOUS
  <2>4. "launch" \in Pcs
    BY DEF Pcs
  <2>5. x \in ThType /\ x.pc = "launch" /\ x.h = n /\ x.u = th[t].u /\ x.then = th[t].then /\ x.recv = th[t].recv
    BY <1>0, <2>2, <2>3, <2>4 DEF ThType
  <2>6. /\ m' \in MType /\ m'.reg = m.reg /\ m'.group = m.group /\ m'.direct = m.direct
        /\ m'.update = m.update /\ m'.epoch = m.epoch /\ m'.key = m.key /\ m'.call = m.call
        /\ m'.media = n /\ m'.recv = m.recv
    BY <2>1, <2>2 DEF TypeInv, MType
  <2>7. PICK g : g = [md[n] EXCEPT !.st = "pending"]
    OBVIOUS
  <2>8. /\ g \in MediaType /\ g.st = "pending" /\ g.tx = md[n].tx /\ g.epoch = md[n].epoch
        /\ g.key = md[n].key /\ g.cancelled = md[n].cancelled
    BY <2>2, <2>7 DEF MediaType, Unmaking
  <2>9. md' \in [Calls -> MediaType] /\ md'[n] = g /\ \A k \in Calls : k # n => md'[k] = md[k]
    BY <2>1, <2>2, <2>7, <2>8
  <2>10. /\ th' \in [Threads -> ThType] /\ th'[t] = x
         /\ \A s \in Threads : s # t => th'[s] = th[s]
    BY <2>1, <2>3, <2>5, OneMoves
  <2>11. TypeInv'
    BY <1>0, <2>6, <2>9, <2>10 DEF TypeInv
  <2>12. \A s \in Threads : th[s].pc = "launch" => th[s].h \in Calls /\ th[s].h # n /\ md[th[s].h].st = "pending"
    BY <2>2, ThFields DEF ThreadInv, Local, TypeInv
  <2>13. ThreadInv'
    <3>1. Advance
      BY <1>0, <2>2, <2>6, <2>8, <2>9 DEF Advance
    <3>2. Local(t, th[t])'
      <4>1. x.recv # 0 => md'[x.recv].st = "running" /\ r'[x.recv].st # "none"
        BY <1>0, <2>5, <3>1, ThFields DEF Local, Advance
      <4>2. x.h <= m'.call /\ md'[x.h].st = "pending" /\ x.h # 0
        BY <1>0, <2>0, <2>2, <2>5, <2>6, <2>8, <2>9
      <4> QED BY <1>0, <2>5, <2>10, <4>1, <4>2 DEF Local, Telling
    <3>3. \A s \in Threads : th[s].pc = "launch" => md'[th[s].h].st = "pending"
      BY <2>9, <2>12
    <3>4. \A s \in Threads : s \notin {t} => th'[s] = th[s]
      BY <2>10
    <3>5. \A s \in Threads : s \in {t} => Local(s, th[s])'
      BY <3>2
    <3> QED BY <2>6, <2>10, <3>1, <3>3, <3>4, <3>5, ThreadsKept
  <2>14. EntryInv'
    <3>1. \A s, q \in Threads : th'[s].pc = "launch" /\ th'[q].pc = "launch" /\ th'[s].h = th'[q].h => s = q
      BY <2>5, <2>10, <2>12 DEF EntryInv
    <3>2. \A k \in Calls : k > m.call => md'[k].st = "none"
      BY <2>0, <2>2, <2>9, CallIds DEF EntryInv
    <3>3. ~md[n].cancelled
      BY <2>2 DEF Goroutine
    <3>4. m.recv # 0 => md'[m.recv].st = "running" /\ r'[m.recv].st = "made"
      BY <1>0, <2>2, <2>9, Types DEF EntryInv
    <3> QED BY <2>0, <2>1, <2>2, <2>6, <2>8, <2>9, <3>1, <3>2, <3>3, <3>4 DEF EntryInv
  <2>15. GoInv'
    <3>1. PICK N : N = {n}
      OBVIOUS
    <3>2. Goroutine(n)'
      BY <1>0, <2>2, <2>8, <2>9 DEF Goroutine, Unmaking, Preparing, Unmade
    <3>3. \A k \in Calls : k \in N => Goroutine(k)'
      BY <3>1, <3>2
    <3>4. \A k \in Calls : k \notin N => md'[k] = md[k] /\ r'[k] = r[k]
      BY <1>0, <2>9, <3>1
    <3>5. \A s \in Threads : th[s].pc = "clear" /\ th[s].recv \in Calls \ N
                                => th'[s].pc = "clear" /\ th'[s].recv = th[s].recv
      BY <1>0, <2>10
    <3> QED BY <1>0, <2>6, <3>3, <3>4, <3>5, GoKept
  <2>16. MediaInv'
    <3>1. m'.direct \/ Prerequisites'
      BY <1>1, <2>1, <2>6, Types DEF CanStart, Prerequisites
    <3>2. md'[m'.media].st = "pending"
      BY <2>6, <2>8, <2>9
    <3> QED BY <2>6, <3>1, <3>2 DEF MediaInv, MediaFailureExplained, Preparing
  <2>17. RosterInv'
    <3>1. m.recv # 0 => \A s \in Threads :
              /\ th[s].pc = "install" => \/ th'[s] = th[s]
                                         \/ th[s].u.tx <= m.update.tx
              /\ th'[s].pc = "install" => th'[s] = th[s]
              /\ th'[s].pc = "apply" => th'[s] = th[s] \/ th'[s].recv = m.recv
      BY <1>0, <2>5, <2>10
    <3> QED BY <1>0, <2>6, <3>1, RosterKept
  <2>18. EpochInv'
    <3>1. \/ th'["raw"] = th["raw"]
          \/ /\ th["raw"].pc # "installEpoch" /\ th'["raw"].pc # "installEpoch"
             /\ th'["raw"].pc = "applyEpoch" => th'["raw"].recv = m.recv
      BY <1>0, <2>5, <2>10 DEF Threads
    <3> QED BY <1>0, <2>6, <3>1, EpochKept
  <2>19. HandleInv'
    <3>1. \A s \in Threads : \/ th'[s] = th[s]
                             \/ th[s].pc \notin Telling /\ th'[s].pc \notin Telling
                             \/ /\ th[s].pc \in Telling /\ th'[s].pc \in Telling
                                /\ th'[s].u = th[s].u /\ th'[s].h = th[s].h
      BY <1>0, <2>5, <2>10 DEF Telling
    <3> QED BY <1>0, <2>6, <3>1, HandleKept
  <2>20. StartInv'
    BY <2>2, <2>6 DEF StartInv
  <2> QED BY <2>11, <2>13, <2>14, <2>15, <2>16, <2>17, <2>18, <2>19, <2>20
<1>2. CASE ~CanStart
  <2>1. UNCHANGED <<m, md>> /\ th' = [th EXCEPT ![t] = Return(t)]
    BY <1>2 DEF StartMedia, Goto
  <2>2. PICK x : x = Return(t)
    OBVIOUS
  <2>3. /\ x \in ThType /\ x.then = "idle" /\ x.h = 0 /\ x.recv \in {0, th[t].recv}
        /\ x.pc = "idle" \/ (x.pc = "distribute" /\ th[t].then = "distribute" /\ x.u = th[t].u)
    BY <1>0, <2>2, ReturnFacts
  <2>4. Local(t, x)
    BY <1>0, <2>3 DEF Local, Telling
  <2>5. m.media # 0 \/ ~(m.reg /\ m.group /\ m.key # NoKey /\ m.update.relay)
    BY <1>2 DEF CanStart
  <2> QED BY <1>0, <2>1, <2>2, <2>3, <2>4, <2>5, ThreadMoves DEF Telling
<1> QED BY <1>1, <1>2

\* The media goroutine is launched.
LEMMA LaunchStep ==
    ASSUME IInv, NEW t \in Threads, LaunchMedia(t)
    PROVE  IInv'
<1> USE DEF IInv
<1>0. /\ th[t].pc = "launch" /\ UNCHANGED <<m, r, heart, hist, left>> /\ TypeInv
      /\ th[t] \in ThType /\ Local(t, th[t]) /\ m.call \in Nat /\ m.update.tx \in Nat
  BY Types DEF LaunchMedia, TypeInv, ThreadInv
<1>1. PICK n : n = th[t].h
  OBVIOUS
<1>2. /\ n \in Calls /\ md[n].st = "pending" /\ Goroutine(n) /\ md[n] \in MediaType /\ md \in [Calls -> MediaType]
  BY <1>0, <1>1, ThFields DEF Local, TypeInv, GoInv
<1>3. call' \in CallType /\ call'.groupTx = call.groupTx
  BY <1>0, PhaseFacts DEF LaunchMedia
<1>4. PICK g : g = [md[n] EXCEPT !.st = "connect"]
  OBVIOUS
<1>5. /\ g \in MediaType /\ g.st = "connect" /\ g.tx = md[n].tx /\ g.epoch = md[n].epoch
      /\ g.key = md[n].key /\ g.cancelled = md[n].cancelled /\ md' = [md EXCEPT ![n] = g]
  BY <1>1, <1>2, <1>4 DEF MediaType, Unmaking, LaunchMedia
<1>6. md' \in [Calls -> MediaType] /\ md'[n] = g /\ \A k \in Calls : k # n => md'[k] = md[k]
  BY <1>2, <1>5
<1>7. PICK x : x = Return(t)
  OBVIOUS
<1>8. /\ x \in ThType /\ x.then = "idle" /\ x.h = 0 /\ x.recv \in {0, th[t].recv}
      /\ x.pc = "idle" \/ (x.pc = "distribute" /\ th[t].then = "distribute" /\ x.u = th[t].u)
      /\ th' = [th EXCEPT ![t] = x]
  BY <1>0, <1>7, ReturnFacts DEF LaunchMedia, Goto
<1>9. /\ th' \in [Threads -> ThType] /\ th'[t] = x
      /\ \A s \in Threads : s # t => th'[s] = th[s]
  BY <1>8, OneMoves
<1>10. TypeInv'
  BY <1>0, <1>3, <1>6, <1>9 DEF TypeInv
<1>11. \A s \in Threads : s # t /\ th[s].pc = "launch" => th[s].h \in Calls /\ th[s].h # n /\ md[th[s].h].st = "pending"
  BY <1>0, <1>1, ThFields DEF ThreadInv, Local, TypeInv, EntryInv
<1>12. ThreadInv'
  <2>1. Advance
    BY <1>0, <1>2, <1>5, <1>6 DEF Advance
  <2>2. Local(t, x)
    BY <1>0, <1>8 DEF Local, Telling
  <2>3. Local(t, x)'
    BY <1>0, <1>8, <2>1, <2>2, LocalKept
  <2>4. \A s \in Threads : s \notin {t} /\ th[s].pc = "launch" => md'[th[s].h].st = "pending"
    BY <1>6, <1>11
  <2>5. \A s \in Threads : s \notin {t} => th'[s] = th[s]
    BY <1>9
  <2>6. \A s \in Threads : s \in {t} => Local(s, th[s])'
    BY <1>9, <2>3 DEF Local
  <2> QED BY <1>0, <1>9, <2>1, <2>4, <2>5, <2>6, ThreadsKept
<1>13. EntryInv'
  <2>1. \A s \in Threads : th'[s].pc = "launch" => th'[s] = th[s]
    BY <1>8, <1>9
  <2>2. m.call = 0 => ~m'.group
    BY <1>0 DEF EntryInv
  <2>3. m.media # 0 => md'[m.media].cancelled = md[m.media].cancelled
    BY <1>5, <1>6, Types
  <2>4. \A k \in Calls : /\ md'[k].st = "none" <=> md[k].st = "none"
                         /\ md[k].st = "running" => md'[k].st = "running"
    BY <1>2, <1>5, <1>6
  <2> QED BY <1>0, <2>1, <2>2, <2>3, <2>4, EntryKept
<1>14. GoInv'
  <2>1. PICK N : N = {n}
    OBVIOUS
  <2>2. Goroutine(n)'
    BY <1>0, <1>2, <1>5, <1>6 DEF Goroutine, Unmaking, Preparing, Unmade
  <2>3. \A k \in Calls : k \in N => Goroutine(k)'
    BY <2>1, <2>2
  <2>4. \A k \in Calls : k \notin N => md'[k] = md[k] /\ r'[k] = r[k]
    BY <1>0, <1>6, <2>1
  <2>5. \A s \in Threads : th[s].pc = "clear" /\ th[s].recv \in Calls \ N
                              => th'[s].pc = "clear" /\ th'[s].recv = th[s].recv
    BY <1>0, <1>9
  <2> QED BY <1>0, <2>3, <2>4, <2>5, GoKept
<1>15. MediaInv'
  <2>1. m.media = n => md'[m.media].st = "connect"
    BY <1>5, <1>6
  <2>2. m.media # n => MediaInv'
    BY <1>0, <1>6, Types, MediaKept
  <2>3. m.media # 0 => m.direct \/ Prerequisites
    BY DEF MediaInv
  <2>4. m.media = n => MediaInv'
    BY <1>0, <2>1, <2>3 DEF MediaInv, MediaFailureExplained, Preparing, Prerequisites
  <2> QED BY <2>2, <2>4
<1>16. RosterInv'
  <2>1. m.recv # 0 => \A s \in Threads :
              /\ th[s].pc = "install" => \/ th'[s] = th[s]
                                         \/ th[s].u.tx <= m.update.tx
              /\ th'[s].pc = "install" => th'[s] = th[s]
              /\ th'[s].pc = "apply" => th'[s] = th[s] \/ th'[s].recv = m.recv
    BY <1>0, <1>8, <1>9
  <2> QED BY <1>0, <2>1, RosterKept
<1>17. EpochInv'
  <2>1. \/ th'["raw"] = th["raw"]
        \/ /\ th["raw"].pc # "installEpoch" /\ th'["raw"].pc # "installEpoch"
           /\ th'["raw"].pc = "applyEpoch" => th'["raw"].recv = m.recv
    BY <1>0, <1>8, <1>9 DEF Threads
  <2> QED BY <1>0, <2>1, EpochKept
<1>18. HandleInv'
  <2>1. \A s \in Threads : \/ th'[s] = th[s]
                           \/ th[s].pc \notin Telling /\ th'[s].pc \notin Telling
                           \/ /\ th[s].pc \in Telling /\ th'[s].pc \in Telling
                              /\ th'[s].u = th[s].u /\ th'[s].h = th[s].h
    BY <1>0, <1>8, <1>9 DEF Telling
  <2> QED BY <1>0, <1>3, <2>1, HandleKept
<1>19. StartInv'
  <2>1. \A s \in Threads : th[s].pc \in Telling \cup {"start"} => th'[s] = th[s]
    BY <1>0, <1>9 DEF Telling
  <2> QED BY <1>0, <2>1, StartKept
<1> QED BY <1>10, <1>12, <1>13, <1>14, <1>15, <1>16, <1>17, <1>18, <1>19
-------------------------------------------------------------------------------
(* The start of runMedia *)

\* A goroutine that has not started to run is not the one whose receivers are in
\* use, and no thread is about to launch it or has its receivers in hand.
LEMMA StartingGoroutine ==
    ASSUME IInv, NEW n \in Calls, md[n].st \notin {"none", "pending", "running"}
    PROVE  /\ n # m.recv /\ md[n] \in MediaType /\ r[n] \in ReceiversType /\ Goroutine(n)
           /\ n \in Nat /\ n # 0 /\ n <= m.call /\ m.call \in Nat
           /\ \A s \in Threads : th[s].recv # n /\ (th[s].pc = "launch" => th[s].h # n)
<1>1. m.call \in Nat /\ n \in Nat /\ n # 0 /\ md[n] \in MediaType /\ r[n] \in ReceiversType
  BY Types, CallIds DEF IInv, TypeInv
<1>2. n # m.recv /\ ~(n > m.call) /\ Goroutine(n)
  BY <1>1 DEF IInv, EntryInv, GoInv
<1>3. ASSUME NEW s \in Threads PROVE th[s].recv # n /\ (th[s].pc = "launch" => th[s].h # n)
  BY <1>1 DEF IInv, ThreadInv, Local
<1> QED BY <1>1, <1>2, <1>3

\* A media goroutine moves and leaves the entry alone.
LEMMA MediaMoves ==
    ASSUME IInv, NEW n \in Calls, md[n].st \notin {"none", "pending", "running"},
           NEW y \in MediaType, NEW z \in ReceiversType,
           md' = [md EXCEPT ![n] = y], r' = [r EXCEPT ![n] = z],
           UNCHANGED <<m, call, heart, th, hist, left>>,
           y.st \notin {"none", "pending", "connect"}, y.cancelled = md[n].cancelled,
           r[n].st # "none" => z.st # "none",
           y.st \in Unmaking => z = Unmade /\ y.tx = 0 /\ y.epoch = 0 /\ y.key = NoKey,
           y.st = "direct" => z = [Unmade EXCEPT !.st = "made"],
           y.st \in Preparing => z.st = "made",
           y.st \in {"fill", "publish"} => y.epoch \in Txs /\ y.key \in Keys,
           y.st = "failed" => z.st = "cleared",
           y.st = "running" => z.st # "made",
           z.st # "made" => ~HoldsKeys(z), Sorted(z),
           n = m.media => /\ y.st \in Preparing => Filled(y, z)
                          /\ y.st = "failed" => y.tries = Attempts \/ y.bad \/ m.direct
    PROVE  IInv'
<1> USE DEF IInv
<1>0. /\ n # m.recv /\ n \in Nat /\ n # 0 /\ n <= m.call /\ m.call \in Nat /\ m.update.tx \in Nat
      /\ \A s \in Threads : th[s].recv # n /\ (th[s].pc = "launch" => th[s].h # n)
  BY StartingGoroutine, Types
<1>1. /\ md' \in [Calls -> MediaType] /\ md'[n] = y /\ \A k \in Calls : k # n => md'[k] = md[k]
      /\ r' \in [Calls -> ReceiversType] /\ r'[n] = z /\ \A k \in Calls : k # n => r'[k] = r[k]
  BY DEF TypeInv
<1>2. TypeInv'
  BY <1>1 DEF TypeInv
<1>3. EntryInv'
  <2>1. m.call = 0 => ~m'.group
    BY DEF EntryInv
  <2>2. \A k \in Calls : /\ md'[k].st = "none" <=> md[k].st = "none"
                         /\ md[k].st = "running" => md'[k].st = "running"
    BY <1>1
  <2>3. /\ m.media # 0 => md'[m.media].cancelled = md[m.media].cancelled
        /\ m.recv # 0 => r'[m.recv].st = r[m.recv].st
    BY <1>0, <1>1, Types
  <2> QED BY <2>1, <2>2, <2>3, EntryKept
<1>4. GoInv'
  <2>1. PICK N : N = {n}
    OBVIOUS
  <2>2. Goroutine(n)'
    <3>1. z.st = "made" => y.st \in Preparing \cup {"direct"}
      <4>1. Unmade.st = "none"
        BY DEF Unmade
      <4>2. y.st \in {"direct", "running", "failed"} \cup Unmaking \cup Preparing
        BY GoTypes
      <4> QED BY <4>1, <4>2
    <3>2. Sorted(z)'
      BY DEF Sorted
    <3> QED BY <1>1, <3>1, <3>2 DEF Goroutine, Sorted
  <2>3. \A k \in Calls : k \in N => Goroutine(k)'
    BY <2>1, <2>2
  <2>4. \A k \in Calls : k \notin N => md'[k] = md[k] /\ r'[k] = r[k]
    BY <1>1, <2>1
  <2> QED BY <2>3, <2>4, GoKept
<1>5. ThreadInv'
  <2>1. PICK T : T = {}
    OBVIOUS
  <2>2. Advance
    BY <1>0, <1>1 DEF Advance
  <2>3. \A s \in Threads : s \notin T /\ th[s].pc = "launch" => md'[th[s].h].st = "pending"
    BY <1>0, <1>1, ThFields DEF ThreadInv, Local, TypeInv
  <2>4. \A s \in Threads : s \in T => Local(s, th[s])'
    BY <2>1
  <2>5. th' \in [Threads -> ThType] /\ \A s \in Threads : s \notin T => th'[s] = th[s]
    BY DEF TypeInv
  <2> QED BY <2>2, <2>3, <2>4, <2>5, ThreadsKept
<1>6. MediaInv'
  <2>1. CASE n # m.media
    BY <1>1, <2>1, Types, MediaKept
  <2>2. CASE n = m.media
    <3>1. ASSUME y.st \in Preparing PROVE Filled(md[m.media], r[m.media])'
      <4>1. Filled(y, z)
        BY <2>2, <3>1
      <4>2. Filled(y, z)'
        BY <4>1 DEF Filled
      <4>3. md'[m'.media] = y /\ r'[m'.media] = z
        BY <1>1, <2>2
      <4> QED BY <4>2, <4>3 DEF Filled
    <3>2. MediaFailureExplained'
      BY <1>1, <2>2 DEF MediaFailureExplained
    <3>3. md'[m'.media].st = y.st
      BY <1>1, <2>2
    <3>4. /\ m.reg => (m.key = NoKey <=> m.epoch = 0) /\ (m.group \/ m.direct)
          /\ m.key # NoKey => m.group
          /\ m.media # 0 => m.direct \/ Prerequisites
      BY DEF MediaInv
    <3> QED BY <3>1, <3>2, <3>3, <3>4 DEF MediaInv, Prerequisites
  <2> QED BY <2>1, <2>2
<1>7. RosterInv'
  <2>1. m.recv # 0 => r'[m.recv].tx = r[m.recv].tx
    BY <1>0, <1>1, Types
  <2> QED BY <2>1, RosterKept
<1>8. EpochInv'
  <2>1. m.recv # 0 => r'[m.recv] = r[m.recv]
    BY <1>0, <1>1, Types
  <2> QED BY <2>1, EpochKept
<1>9. HandleInv' /\ StartInv'
  BY HandleKept, StartKept
<1> QED BY <1>2, <1>3, <1>4, <1>5, <1>6, <1>7, <1>8, <1>9

\* A goroutine goes to another place of its start.
LEMMA PlaceFacts ==
    ASSUME TypeInv, NEW n \in Calls, NEW st \in {"direct", "running", "failed"} \cup Unmaking \cup Preparing,
           MediaAt(n, st)
    PROVE  \E y \in MediaType : /\ md' = [md EXCEPT ![n] = y] /\ y.st = st /\ y.tx = md[n].tx
                                /\ y.bad = md[n].bad /\ y.epoch = md[n].epoch /\ y.key = md[n].key
                                /\ y.tries = md[n].tries /\ y.cancelled = md[n].cancelled
<1>1. md[n] \in MediaType /\ md \in [Calls -> MediaType]
  BY DEF TypeInv
<1>2. PICK y : y = [md[n] EXCEPT !.st = st]
  OBVIOUS
<1>3. /\ y \in MediaType /\ y.st = st /\ y.tx = md[n].tx /\ y.bad = md[n].bad /\ y.epoch = md[n].epoch
      /\ y.key = md[n].key /\ y.tries = md[n].tries /\ y.cancelled = md[n].cancelled
  BY <1>1, <1>2 DEF MediaType
<1>4. md' = [md EXCEPT ![n] = y]
  BY <1>2 DEF MediaAt
<1> QED BY <1>3, <1>4

\* The relays are connected, or not.
LEMMA ConnectStep ==
    ASSUME IInv, NEW n \in Calls, MediaConnects(n)
    PROVE  IInv'
<1>0. md[n].st = "connect" /\ UNCHANGED <<m, call, r, heart, th, hist, left>> /\ TypeInv
  BY DEF MediaConnects, IInv
<1>1. md[n] \in MediaType /\ r[n] \in ReceiversType /\ Goroutine(n) /\ r \in [Calls -> ReceiversType]
  BY <1>0, StartingGoroutine DEF TypeInv
<1>2. PICK st \in {"mode", "early"} : MediaAt(n, st)
  BY DEF MediaConnects
<1>3. PICK y \in MediaType : /\ md' = [md EXCEPT ![n] = y] /\ y.st = st /\ y.tx = md[n].tx
                             /\ y.epoch = md[n].epoch /\ y.key = md[n].key /\ y.cancelled = md[n].cancelled
  <2>1. st \in {"direct", "running", "failed"} \cup Unmaking \cup Preparing
    BY DEF Unmaking
  <2> QED BY <1>0, <1>2, <2>1, PlaceFacts
<1>4. PICK z : z = r[n]
  OBVIOUS
<1>5. r' = [r EXCEPT ![n] = z] /\ z \in ReceiversType
  BY <1>0, <1>1, <1>4
<1>6. z = Unmade /\ y.tx = 0 /\ y.epoch = 0 /\ y.key = NoKey
  BY <1>0, <1>1, <1>3, <1>4 DEF Goroutine, Unmaking
<1>7. z.st = "none" /\ ~HoldsKeys(z) /\ Sorted(z)
  <2>1. z = [Unmade EXCEPT !.st = "none"]
    BY <1>6 DEF Unmade
  <2> QED BY <2>1, UnmadeFacts
<1>8. y.st \notin Preparing /\ y.st \notin {"none", "pending", "connect", "direct", "fill", "publish", "failed", "running"}
  BY <1>3 DEF Preparing
<1> QED BY <1>0, <1>3, <1>4, <1>5, <1>6, <1>7, <1>8, MediaMoves

\* Receivers are wiped by a goroutine that did not publish them.
LEMMA DropStep ==
    ASSUME IInv, NEW n \in Calls, md[n].st \in {"direct"} \cup Preparing,
           NEW st \in {"failed", "running"}, MediaDrops(n, st),
           n = m.media /\ st = "failed" => md[n].tries = Attempts \/ md[n].bad \/ m.direct
    PROVE  IInv'
<1>0. UNCHANGED <<m, call, heart, th, hist, left>> /\ MediaAt(n, st) /\ TypeInv
      /\ md[n].st \notin {"none", "pending", "running"}
  BY DEF MediaDrops, IInv, Preparing
<1>1. r[n] \in ReceiversType
  BY <1>0, StartingGoroutine
<1>2. PICK y \in MediaType : /\ md' = [md EXCEPT ![n] = y] /\ y.st = st /\ y.bad = md[n].bad
                             /\ y.tries = md[n].tries /\ y.cancelled = md[n].cancelled
  BY <1>0, PlaceFacts
<1>3. PICK z : z = Clear(r[n])
  OBVIOUS
<1>4. r' = [r EXCEPT ![n] = z] /\ z \in ReceiversType /\ Sorted(z) /\ ~HoldsKeys(z) /\ z.st = "cleared"
  BY <1>1, <1>3, ClearFacts DEF MediaDrops
<1>5. y.st \notin Preparing \cup Unmaking /\ y.st \notin {"none", "pending", "connect", "direct", "fill", "publish"}
  BY <1>2 DEF Preparing, Unmaking
<1> QED BY <1>0, <1>2, <1>4, <1>5, MediaMoves

\* The goroutine reads the mode and makes its receivers.
LEMMA ModeStep ==
    ASSUME IInv, NEW n \in Calls, MediaReadsMode(n)
    PROVE  IInv'
<1>0. md[n].st = "mode" /\ UNCHANGED <<m, call, heart, th, hist, left>> /\ TypeInv
  BY DEF MediaReadsMode, IInv
<1>1. md[n] \in MediaType /\ r[n] \in ReceiversType /\ Goroutine(n) /\ r \in [Calls -> ReceiversType]
  BY <1>0, StartingGoroutine DEF TypeInv
<1>2. r[n] = Unmade /\ md[n].tx = 0 /\ md[n].epoch = 0 /\ md[n].key = NoKey
  BY <1>0, <1>1 DEF Goroutine, Unmaking
<1>3. CASE UNCHANGED r /\ (MediaAt(n, "running") \/ MediaAt(n, "early"))
  <2>1. PICK st \in {"running", "early"} : MediaAt(n, st)
    BY <1>3
  <2>2. PICK y \in MediaType : /\ md' = [md EXCEPT ![n] = y] /\ y.st = st /\ y.tx = md[n].tx
                               /\ y.epoch = md[n].epoch /\ y.key = md[n].key /\ y.cancelled = md[n].cancelled
    <3>1. st \in {"direct", "running", "failed"} \cup Unmaking \cup Preparing
      BY DEF Unmaking
    <3> QED BY <1>0, <2>1, <3>1, PlaceFacts
  <2>3. PICK z : z = r[n]
    OBVIOUS
  <2>4. r' = [r EXCEPT ![n] = z] /\ z \in ReceiversType /\ z = Unmade
    BY <1>1, <1>2, <1>3, <2>3
  <2>5. z.st = "none" /\ ~HoldsKeys(z) /\ Sorted(z)
    <3>1. z = [Unmade EXCEPT !.st = "none"]
      BY <2>4 DEF Unmade
    <3> QED BY <3>1, UnmadeFacts
  <2>6. y.st \notin Preparing /\ y.st \notin {"none", "pending", "connect", "direct", "fill", "publish", "failed"}
    BY <2>2 DEF Preparing
  <2> QED BY <1>0, <1>2, <2>2, <2>3, <2>4, <2>5, <2>6, MediaMoves
<1>4. CASE r' = [r EXCEPT ![n].st = "made"] /\ MediaAt(n, IF m.reg /\ m.group THEN "snap" ELSE "direct")
  <2>1. PICK st \in {"snap", "direct"} : MediaAt(n, st)
    <3>1. CASE m.reg /\ m.group
      BY <1>4, <3>1
    <3>2. CASE ~(m.reg /\ m.group)
      BY <1>4, <3>2
    <3> QED BY <3>1, <3>2
  <2>2. PICK y \in MediaType : /\ md' = [md EXCEPT ![n] = y] /\ y.st = st /\ y.tx = md[n].tx
                               /\ y.epoch = md[n].epoch /\ y.key = md[n].key /\ y.cancelled = md[n].cancelled
    <3>1. st \in {"direct", "running", "failed"} \cup Unmaking \cup Preparing
      BY DEF Preparing
    <3> QED BY <1>0, <2>1, <3>1, PlaceFacts
  <2>3. PICK z : z = [Unmade EXCEPT !.st = "made"]
    OBVIOUS
  <2>4. /\ z \in ReceiversType /\ Sorted(z) /\ z.st = "made" /\ z.tx = 0 /\ z.epoch = 0
        /\ z.key = NoKey /\ Holds(z, 0, NoKey)
    BY <2>3, UnmadeFacts
  <2>5. r' = [r EXCEPT ![n] = z]
    BY <1>2, <1>4, <2>3
  <2>6. ASSUME n = m.media PROVE Filled(y, z)
    <3>1. m.reg /\ (m.key = NoKey <=> m.epoch = 0)
      BY <2>6, CallIds DEF IInv, EntryInv, MediaInv
    <3>2. m.update.tx \in Nat /\ m.epoch \in Nat
      BY <1>0, Types
    <3>3. AtMost(z, y.epoch, y.key) /\ y.tx = 0 /\ y.epoch = 0 /\ y.key = NoKey
      BY <1>2, <2>2, <2>4 DEF Holds
    <3>4. 0 <= m.update.tx /\ 0 <= m.epoch /\ 0 <= 0
      BY <3>2
    <3> QED BY <2>2, <2>4, <3>1, <3>3, <3>4 DEF Filled
  <2>7. y.st \notin Unmaking /\ y.st \notin {"none", "pending", "connect", "fill", "publish", "failed", "running"}
    BY <2>2 DEF Unmaking
  <2> QED BY <1>0, <2>2, <2>3, <2>4, <2>5, <2>6, <2>7, MediaMoves
<1> QED BY <1>3, <1>4 DEF MediaReadsMode

\* The goroutine copies what the entry has.
LEMMA SnapshotStep ==
    ASSUME IInv, NEW n \in Calls, MediaSnapshot(n)
    PROVE  IInv'
<1>0. /\ md[n].st = "snap" /\ UNCHANGED <<m, call, r, heart, th, hist, left>> /\ TypeInv
      /\ md[n].tries < Attempts /\ m.reg /\ m.key # NoKey
  BY DEF MediaSnapshot, Prerequisites, IInv
<1>1. md[n] \in MediaType /\ r[n] \in ReceiversType /\ Goroutine(n) /\ r \in [Calls -> ReceiversType]
      /\ md \in [Calls -> MediaType]
  BY <1>0, StartingGoroutine DEF TypeInv
<1>2. /\ m.update.tx \in Txs \cup {0} /\ m.update.tx \in Nat /\ m.update.bad \in BOOLEAN
      /\ m.epoch \in Nat /\ m.epoch \in Txs /\ m.key \in Keys
  <2>1. m.epoch # 0 /\ m.key # NoKey
    BY <1>0 DEF IInv, MediaInv
  <2> QED BY <1>0, <2>1, Types
<1>3. PICK g : g = md[n]
  OBVIOUS
<1>4. PICK k : k = g.tries + 1
  OBVIOUS
<1>5. k \in 0..Attempts
  BY <1>0, <1>1, <1>3, <1>4, GoTypes, GroupAssumption
<1>6. PICK y : y = [g EXCEPT !.st = "fill", !.tx = m.update.tx, !.bad = m.update.bad,
                             !.epoch = m.epoch, !.key = m.key, !.tries = k]
  OBVIOUS
<1>7. /\ y \in MediaType /\ y.st = "fill" /\ y.tx = m.update.tx /\ y.epoch = m.epoch /\ y.key = m.key
      /\ y.cancelled = md[n].cancelled
  BY <1>1, <1>2, <1>3, <1>5, <1>6 DEF MediaType, Preparing
<1>8. md' = [md EXCEPT ![n] = y]
  <2>1. md' = [md EXCEPT ![n] = [md[n] EXCEPT !.st = "fill", !.tx = m.update.tx, !.bad = m.update.bad,
                                              !.epoch = m.epoch, !.key = m.key, !.tries = md[n].tries + 1]]
    BY DEF MediaSnapshot
  <2> QED BY <1>3, <1>4, <1>6, <2>1, Zenon
<1>9. PICK z : z = r[n]
  OBVIOUS
<1>10. r' = [r EXCEPT ![n] = z] /\ z \in ReceiversType /\ z.st = "made" /\ Sorted(z)
  BY <1>0, <1>1, <1>9 DEF Goroutine, Preparing
<1>11. ASSUME n = m.media PROVE Filled(y, z)
  <2>1. Filled(g, z)
    BY <1>0, <1>3, <1>9, <1>11, CallIds DEF IInv, MediaInv, Preparing
  <2>2. /\ g.tx \in Nat /\ g.epoch \in Txs \cup {0} /\ g.epoch \in Nat /\ z.tx \in Nat
    BY <1>1, <1>3, <1>10, GoTypes, Fields
  <2>3. AtMost(z, m.epoch, m.key)
    <3>1. CASE g.epoch = m.epoch
      BY <2>1, <3>1 DEF Filled
    <3>2. CASE g.epoch # m.epoch
      <4>1. g.epoch < m.epoch
        BY <1>2, <2>1, <2>2, <3>2 DEF Filled
      <4>2. PICK e, k1, f, l : e = g.epoch /\ k1 = g.key /\ f = m.epoch /\ l = m.key
        OBVIOUS
      <4>3. AtMost(z, e, k1) /\ e < f /\ e \in Txs \cup {0} /\ f \in Txs
        BY <1>2, <2>1, <2>2, <4>1, <4>2 DEF Filled
      <4>4. AtMost(z, f, l)
        BY <1>10, <4>3, HoldsNewer
      <4> QED BY <4>2, <4>4
    <3> QED BY <3>1, <3>2
  <2>4. z.tx <= m.update.tx
    BY <1>2, <2>1, <2>2 DEF Filled
  <2>5. m.update.tx <= m.update.tx /\ m.epoch <= m.epoch
    BY <1>2
  <2> QED BY <1>7, <2>3, <2>4, <2>5 DEF Filled
<1>12. y.st \notin Unmaking /\ y.st \notin {"none", "pending", "connect", "direct", "failed", "running"}
  BY <1>7 DEF Unmaking
<1> QED BY <1>0, <1>2, <1>7, <1>8, <1>10, <1>11, <1>12, MediaMoves

\* The goroutine gives up.
LEMMA GiveUpStep ==
    ASSUME IInv, NEW n \in Calls, MediaGivesUp(n)
    PROVE  IInv'
<1>1. md[n].st = "snap" /\ MediaDrops(n, "failed")
      /\ (md[n].cancelled \/ md[n].tries = Attempts \/ ~Prerequisites)
  BY DEF MediaGivesUp
<1>2. n = m.media => md[n].tries = Attempts \/ md[n].bad \/ m.direct
  BY <1>1, CallIds DEF IInv, EntryInv, MediaInv
<1>3. md[n].st \in {"direct"} \cup Preparing
  BY <1>1 DEF Preparing
<1> QED BY <1>1, <1>2, <1>3, DropStep

\* The goroutine fills its receivers with what it has copied.
LEMMA FillStep ==
    ASSUME IInv, NEW n \in Calls, MediaFills(n)
    PROVE  IInv'
<1>0. md[n].st = "fill" /\ TypeInv
  BY DEF MediaFills, IInv
<1>1. /\ md[n] \in MediaType /\ r[n] \in ReceiversType /\ Goroutine(n) /\ r \in [Calls -> ReceiversType]
      /\ md[n].tx \in Txs \cup {0} /\ md[n].tx \in Nat /\ md[n].bad \in BOOLEAN /\ r[n].tx \in Nat
  BY <1>0, StartingGoroutine, GoTypes, Fields DEF TypeInv
<1>2. /\ md[n].epoch \in Txs /\ md[n].key \in Keys /\ r[n].st = "made" /\ Sorted(r[n])
      /\ md[n].st \in {"direct"} \cup Preparing
  BY <1>0, <1>1 DEF Goroutine, Preparing
<1>3. PICK x, tx, bad, e, k : /\ x = r[n] /\ tx = md[n].tx /\ bad = md[n].bad
                              /\ e = md[n].epoch /\ k = md[n].key
  OBVIOUS
<1>4. /\ x \in ReceiversType /\ Sorted(x) /\ tx \in Txs \cup {0} /\ tx \in Nat /\ x.tx \in Nat
      /\ e \in Txs /\ k \in Keys /\ e \in Txs \cup {0} /\ k \in Keys \cup {NoKey} /\ x.st = "made"
  BY <1>1, <1>2, <1>3
<1>5. PICK a : a = ApplyGroupUpdate(x, tx, bad)
  OBVIOUS
<1>6. /\ a.err => bad
      /\ ~a.err => a.recv.tx = IF tx <= x.tx THEN x.tx ELSE tx
      /\ a.recv \in ReceiversType /\ Sorted(a.recv) /\ a.recv.st = x.st
      /\ AtMost(x, e, k) => AtMost(a.recv, e, k)
  BY <1>4, <1>5, UpdateFacts
<1>7. PICK w : w = a.recv
  OBVIOUS
<1>8. w \in ReceiversType /\ Sorted(w)
  BY <1>6, <1>7
<1>9. PICK b : b = ApplyGroupRawEpoch(w, e, k)
  OBVIOUS
<1>10. /\ b.recv \in ReceiversType /\ Sorted(b.recv)
       /\ b.recv.st = w.st /\ b.recv.tx = w.tx
       /\ AtMost(w, e, k) => ~b.err /\ Holds(b.recv, e, k)
  BY <1>4, <1>8, <1>9, EpochFacts
<1>11. PICK z : z = b.recv
  OBVIOUS
<1>12. \/ (a.err \/ b.err) /\ MediaDrops(n, "failed")
       \/ /\ ~a.err /\ ~b.err /\ r' = [r EXCEPT ![n] = z] /\ MediaAt(n, "publish")
          /\ UNCHANGED <<m, call, heart, th, hist, left>>
  BY <1>3, <1>5, <1>7, <1>9, <1>11 DEF MediaFills
<1>13. n = m.media => Filled(md[n], r[n])
  BY <1>0, CallIds DEF IInv, MediaInv, Preparing
<1>14. n = m.media => AtMost(x, e, k) /\ x.tx <= tx
  BY <1>3, <1>13 DEF Filled
<1>15. CASE (a.err \/ b.err) /\ MediaDrops(n, "failed")
  <2>1. n = m.media => bad
    BY <1>6, <1>7, <1>10, <1>14, <1>15
  <2>2. n = m.media => md[n].tries = Attempts \/ md[n].bad \/ m.direct
    BY <1>3, <2>1
  <2> QED BY <1>2, <1>15, <2>2, DropStep
<1>16. CASE /\ ~a.err /\ ~b.err /\ r' = [r EXCEPT ![n] = z] /\ MediaAt(n, "publish")
            /\ UNCHANGED <<m, call, heart, th, hist, left>>
  <2>1. PICK y \in MediaType : /\ md' = [md EXCEPT ![n] = y] /\ y.st = "publish" /\ y.tx = md[n].tx
                               /\ y.epoch = md[n].epoch /\ y.key = md[n].key /\ y.cancelled = md[n].cancelled
    <3>1. PICK st : st = "publish"
      OBVIOUS
    <3>2. st \in {"direct", "running", "failed"} \cup Unmaking \cup Preparing /\ MediaAt(n, st)
      BY <1>16, <3>1 DEF Preparing
    <3> QED BY <1>0, <3>1, <3>2, PlaceFacts
  <2>2. z \in ReceiversType /\ Sorted(z) /\ z.st = "made"
    BY <1>4, <1>6, <1>7, <1>10, <1>11
  <2>3. ASSUME n = m.media PROVE Filled(y, z)
    <3>1. Holds(z, e, k) /\ AtMost(z, e, k)
      BY <1>6, <1>7, <1>10, <1>11, <1>14, <2>3 DEF Holds
    <3>2. z.tx = tx
      BY <1>4, <1>6, <1>7, <1>10, <1>11, <1>14, <1>16, <2>3
    <3>3. tx <= tx
      BY <1>4
    <3> QED BY <1>3, <1>13, <2>1, <2>3, <3>1, <3>2, <3>3 DEF Filled
  <2>4. y.st \notin Unmaking /\ y.st \notin {"none", "pending", "connect", "direct", "failed", "running"}
        /\ md[n].st \notin {"none", "pending", "running"}
    BY <1>0, <2>1 DEF Unmaking
  <2>5. y.epoch \in Txs /\ y.key \in Keys
    BY <1>2, <2>1
  <2> QED BY <1>16, <2>1, <2>2, <2>3, <2>4, <2>5, MediaMoves
<1> QED BY <1>12, <1>15, <1>16

\* Receivers are published: they miss what Overtaken and missed say, and nothing else.
LEMMA PublishCore ==
    ASSUME IInv, NEW n \in Calls, md[n].st \in {"publish", "direct"}, m.reg, m.recv = 0,
           NEW missed \in SUBSET {"roster", "epoch"}, Publish(n, missed),
           n = m.media /\ "roster" \notin missed => r[n].tx = m.update.tx,
           n = m.media /\ "epoch" \notin missed => Holds(r[n], m.epoch, m.key)
    PROVE  IInv'
<1> USE DEF IInv
<1>0. /\ TypeInv /\ md[n].st \notin {"none", "pending", "running"} /\ m \in MType
      /\ UNCHANGED <<call, r, heart, th, left>>
  BY DEF Publish, TypeInv
<1>1. /\ n # m.recv /\ n \in Nat /\ n # 0 /\ n \in 0..MaxCalls /\ n <= m.call /\ m.call \in Nat
      /\ m.update.tx \in Nat /\ Goroutine(n) /\ r[n] \in ReceiversType /\ r[n].tx \in Nat
      /\ \A s \in Threads : th[s].recv # n /\ (th[s].pc = "launch" => th[s].h # n)
  BY <1>0, StartingGoroutine, Types, CallIds, Fields
<1>2. /\ m' \in MType /\ m'.reg = m.reg /\ m'.group = m.group /\ m'.direct = m.direct
      /\ m'.update = m.update /\ m'.epoch = m.epoch /\ m'.key = m.key /\ m'.call = m.call
      /\ m'.media = m.media /\ m'.recv = n
  BY <1>0, <1>1 DEF Publish, MType
<1>3. PICK y \in MediaType : md' = [md EXCEPT ![n] = y] /\ y.st = "running" /\ y.cancelled = md[n].cancelled
  <2>1. PICK st : st = "running"
    OBVIOUS
  <2>2. st \in {"direct", "running", "failed"} \cup Unmaking \cup Preparing /\ MediaAt(n, st)
    BY <2>1 DEF Publish
  <2> QED BY <1>0, <2>1, <2>2, PlaceFacts
<1>4. /\ md' \in [Calls -> MediaType] /\ md'[n] = y /\ \A k \in Calls : k # n => md'[k] = md[k]
  BY <1>3 DEF TypeInv
<1>5. /\ hist' = (hist \ {"roster", "epoch"}) \cup Overtaken(n) \cup missed
      /\ Overtaken(n) \subseteq {"roster", "epoch"}
  BY DEF Publish, Overtaken
<1>6. /\ hist' \subseteq {"roster", "epoch", "key", "handle"}
      /\ "key" \in hist' <=> "key" \in hist
      /\ "handle" \in hist' <=> "handle" \in hist
  BY <1>5 DEF TypeInv
<1>7. TypeInv'
  BY <1>0, <1>2, <1>4, <1>6 DEF TypeInv
<1>8. r[n].st = "made"
  <2>1. CASE md[n].st = "publish"
    BY <1>1, <2>1 DEF Goroutine, Preparing
  <2>2. CASE md[n].st = "direct"
    <3>1. PICK z : z = [Unmade EXCEPT !.st = "made"]
      OBVIOUS
    <3>2. z.st = "made"
      BY <3>1, UnmadeFacts
    <3> QED BY <1>1, <2>2, <3>1, <3>2 DEF Goroutine
  <2> QED BY <2>1, <2>2
<1>9. EntryInv'
  <2>1. m.media # 0 => m.media \in Calls /\ md[m.media].st # "none" /\ ~md[m.media].cancelled
    BY Types DEF EntryInv
  <2>2. m'.media # 0 => md'[m'.media].st # "none" /\ ~md'[m'.media].cancelled
    BY <1>2, <1>3, <1>4, <2>1
  <2>3. \A k \in Calls : k > m'.call => md'[k].st = "none"
    BY <1>1, <1>2, <1>4 DEF EntryInv
  <2>4. m'.reg /\ m'.media = 0 => md'[m'.call].st = "none"
    <3>1. m.media = 0 => md[m.call].st = "none" /\ m.call # n /\ m.call \in Calls
      BY <1>0, Types, CallIds DEF EntryInv
    <3> QED BY <1>2, <1>4, <3>1
  <2>5. m'.recv # 0 => md'[m'.recv].st = "running" /\ r'[m'.recv].st = "made"
    BY <1>0, <1>2, <1>3, <1>4, <1>8
  <2>6. \A t, s \in Threads : th'[t].pc = "launch" /\ th'[s].pc = "launch" /\ th'[t].h = th'[s].h => t = s
    BY <1>0 DEF EntryInv
  <2>7. (m'.call = 0 => ~m'.reg /\ ~m'.group) /\ m'.reg
    BY <1>2 DEF EntryInv
  <2> QED BY <2>2, <2>3, <2>4, <2>5, <2>6, <2>7 DEF EntryInv
<1>10. GoInv'
  <2>1. PICK N : N = {n}
    OBVIOUS
  <2>2. Goroutine(n)'
    <3>1. Sorted(r[n])' /\ r'[n] = r[n] /\ md'[n].st = "running" /\ m'.recv = n /\ r[n].st = "made"
      BY <1>0, <1>1, <1>2, <1>3, <1>4, <1>8 DEF Goroutine, Sorted
    <3> QED BY <3>1 DEF Goroutine, Preparing, Unmaking
  <2>3. \A k \in Calls : k \in N => Goroutine(k)'
    BY <2>1, <2>2
  <2>4. \A k \in Calls : k \notin N => md'[k] = md[k] /\ r'[k] = r[k]
    BY <1>0, <1>4, <2>1
  <2>5. \A s \in Threads : th[s].pc = "clear" /\ th[s].recv \in Calls \ N
                              => th'[s].pc = "clear" /\ th'[s].recv = th[s].recv
    BY <1>0
  <2> QED BY <1>0, <1>6, <2>3, <2>4, <2>5, GoKept
<1>11. ThreadInv'
  <2>1. PICK T : T = {}
    OBVIOUS
  <2>2. Advance
    BY <1>0, <1>1, <1>2, <1>3, <1>4 DEF Advance
  <2>3. \A s \in Threads : s \notin T /\ th[s].pc = "launch" => md'[th[s].h].st = "pending"
    BY <1>1, <1>4, ThFields DEF ThreadInv, Local, TypeInv
  <2>4. \A s \in Threads : s \in T => Local(s, th[s])'
    BY <2>1
  <2>5. th' \in [Threads -> ThType] /\ \A s \in Threads : s \notin T => th'[s] = th[s]
    BY <1>0 DEF TypeInv
  <2> QED BY <1>2, <2>2, <2>3, <2>4, <2>5, ThreadsKept
<1>12. MediaInv'
  <2>1. CASE n # m.media
    BY <1>0, <1>2, <1>4, <2>1, Types, MediaKept
  <2>2. CASE n = m.media
    <3>1. md'[m'.media].st = "running"
      BY <1>2, <1>3, <1>4, <2>2
    <3>2. MediaFailureExplained'
      BY <3>1 DEF MediaFailureExplained
    <3>3. /\ m.reg => (m.key = NoKey <=> m.epoch = 0) /\ (m.group \/ m.direct)
          /\ m.key # NoKey => m.group
          /\ m.media # 0 => m.direct \/ Prerequisites
      BY DEF MediaInv
    <3> QED BY <1>2, <3>1, <3>2, <3>3 DEF MediaInv, Prerequisites, Preparing
  <2> QED BY <2>1, <2>2
<1>13. RosterInv'
  <2> SUFFICES ASSUME "roster" \notin hist'
               PROVE  /\ m.update.tx <= r[n].tx /\ r[n].tx = m.update.tx
                      /\ \A s \in Threads : th[s].pc = "install" \/ th[s].pc = "apply" => th[s].u.tx <= r[n].tx
    BY <1>0, <1>2 DEF RosterInv
  <2>1. /\ n = m.media /\ "roster" \notin missed
        /\ \A s \in Threads : ~(th[s].pc \in {"apply", "install"} /\ th[s].u.tx > r[n].tx)
    BY <1>5 DEF Overtaken
  <2>2. \A s \in Threads : th[s].u.tx \in Nat
    BY ThFields DEF TypeInv
  <2> QED BY <1>1, <2>1, <2>2
<1>14. EpochInv'
  <2>1. ASSUME "epoch" \notin hist'
        PROVE  th["raw"].pc \notin {"applyEpoch", "installEpoch"} /\ Holds(r[n], m.epoch, m.key)
    <3>1. /\ n = m.media /\ "epoch" \notin missed
          /\ \A s \in Threads : ~(th[s].pc \in {"applyEpoch", "installEpoch"})
      BY <1>5, <2>1 DEF Overtaken
    <3> QED BY <3>1 DEF Threads
  <2>2. ASSUME NEW e, NEW k, Holds(r[n], e, k) PROVE Holds(r[n], e, k)'
    BY <1>0, <2>2 DEF Holds, AtMost
  <2>3. ASSUME "epoch" \notin hist' PROVE Holds(r[n], m.epoch, m.key)'
    <3>1. PICK e, k : e = m.epoch /\ k = m.key
      OBVIOUS
    <3>2. Holds(r[n], e, k)'
      BY <2>1, <2>2, <2>3, <3>1
    <3> QED BY <1>2, <3>1, <3>2 DEF Holds, AtMost
  <2> QED BY <1>0, <1>2, <2>1, <2>3 DEF EpochInv
<1>15. HandleInv' /\ StartInv'
  BY <1>0, <1>2, <1>6, HandleKept, StartKept
<1> QED BY <1>7, <1>9, <1>10, <1>11, <1>12, <1>13, <1>14, <1>15

\* The receivers are published, dropped or brought up to date once more.
LEMMA PublishStep ==
    ASSUME IInv, NEW n \in Calls, MediaPublishes(n)
    PROVE  IInv'
<1>0. /\ md[n].st = "publish" /\ TypeInv /\ md[n].st \in {"direct"} \cup Preparing
      /\ md[n].st \in {"publish", "direct"} /\ md[n].st \notin {"none", "pending", "running"}
  BY DEF MediaPublishes, IInv, Preparing
<1>1. /\ md[n] \in MediaType /\ r[n] \in ReceiversType /\ Goroutine(n) /\ r \in [Calls -> ReceiversType]
      /\ n # 0 /\ md[n].tx \in Nat /\ md[n].epoch \in Nat /\ m.update.tx \in Nat /\ m.epoch \in Nat
  BY <1>0, StartingGoroutine, GoTypes, Types DEF TypeInv
<1>2. n = m.media => Filled(md[n], r[n])
  BY <1>0, <1>1 DEF IInv, MediaInv, Preparing
<1>3. CASE ~(m.reg /\ m.group) /\ MediaDrops(n, "failed")
  <2>1. n = m.media => m.direct
    BY <1>1, <1>3 DEF IInv, EntryInv, MediaInv, Prerequisites
  <2> QED BY <1>0, <1>3, <2>1, DropStep
<1>4. CASE MediaDrops(n, "running")
  BY <1>0, <1>4, DropStep
<1>5. CASE m.reg /\ m.recv = 0 /\ UpToDate(n) /\ Publish(n, {})
  <2>1. PICK missed : missed = {}
    OBVIOUS
  <2>2. missed \in SUBSET {"roster", "epoch"} /\ Publish(n, missed)
    BY <1>5, <2>1
  <2>3. n = m.media => r[n].tx = m.update.tx /\ Holds(r[n], m.epoch, m.key)
    <3>1. ASSUME n = m.media
          PROVE  r[n].tx = md[n].tx /\ md[n].tx = m.update.tx /\ md[n].epoch = m.epoch /\ md[n].key = m.key
                 /\ Holds(r[n], md[n].epoch, md[n].key)
      BY <1>0, <1>1, <1>2, <1>5, <3>1 DEF Filled, UpToDate
    <3> QED BY <3>1
  <2> QED BY <1>0, <1>5, <2>2, <2>3, PublishCore
<1>6. CASE MediaAt(n, "snap") /\ UNCHANGED <<m, call, r, heart, th, hist, left>>
  <2>1. PICK y \in MediaType : /\ md' = [md EXCEPT ![n] = y] /\ y.st = "snap" /\ y.tx = md[n].tx
                               /\ y.epoch = md[n].epoch /\ y.key = md[n].key /\ y.cancelled = md[n].cancelled
    <3>1. PICK st : st = "snap"
      OBVIOUS
    <3>2. st \in {"direct", "running", "failed"} \cup Unmaking \cup Preparing /\ MediaAt(n, st)
      BY <1>6, <3>1 DEF Preparing
    <3> QED BY <1>0, <3>1, <3>2, PlaceFacts
  <2>2. PICK z : z = r[n]
    OBVIOUS
  <2>3. r' = [r EXCEPT ![n] = z] /\ z \in ReceiversType /\ z.st = "made" /\ Sorted(z)
    BY <1>0, <1>1, <1>6, <2>2 DEF Goroutine, Preparing
  <2>4. n = m.media => Filled(y, z)
    BY <1>2, <2>1, <2>2 DEF Filled
  <2>5. y.st \notin Unmaking
        /\ y.st \notin {"none", "pending", "connect", "direct", "failed", "running", "fill", "publish"}
    BY <2>1 DEF Unmaking
  <2> QED BY <1>0, <1>6, <2>1, <2>2, <2>3, <2>4, <2>5, MediaMoves
<1> QED BY <1>3, <1>4, <1>5, <1>6 DEF MediaPublishes

\* The receivers of a one-to-one call are published as they are.
LEMMA PublishDirectStep ==
    ASSUME IInv, NEW n \in Calls, MediaPublishesDirect(n)
    PROVE  IInv'
<1>0. /\ md[n].st = "direct" /\ TypeInv /\ md[n].st \in {"direct"} \cup Preparing
      /\ md[n].st \in {"publish", "direct"} /\ md[n].st \notin {"none", "pending", "running"}
  BY DEF MediaPublishesDirect, IInv, Preparing
<1>1. Goroutine(n) /\ n # 0 /\ m.update.tx \in Nat /\ m.epoch \in Nat
  BY <1>0, StartingGoroutine, Types
<1>2. CASE ~m.reg /\ MediaDrops(n, "failed")
  <2>1. n # m.media
    BY <1>1, <1>2 DEF IInv, EntryInv
  <2> QED BY <1>0, <1>2, <2>1, DropStep
<1>3. CASE MediaDrops(n, "running")
  BY <1>0, <1>3, DropStep
<1>4. CASE m.reg /\ m.recv = 0 /\ Publish(n, {x \in {"roster"} : m.update.tx > 0}
                                                \cup {x \in {"epoch"} : m.epoch > 0})
  <2>1. PICK missed : missed = {x \in {"roster"} : m.update.tx > 0} \cup {x \in {"epoch"} : m.epoch > 0}
    OBVIOUS
  <2>2. /\ missed \in SUBSET {"roster", "epoch"} /\ Publish(n, missed)
        /\ "roster" \notin missed => m.update.tx = 0
        /\ "epoch" \notin missed => m.epoch = 0
    BY <1>1, <1>4, <2>1
  <2>3. PICK z : z = [Unmade EXCEPT !.st = "made"]
    OBVIOUS
  <2>4. r[n] = z /\ z.tx = 0 /\ Holds(z, 0, NoKey)
    BY <1>0, <1>1, <2>3, UnmadeFacts DEF Goroutine
  <2>5. m.epoch = 0 => m.key = NoKey
    BY <1>4 DEF IInv, MediaInv
  <2>6. "roster" \notin missed => r[n].tx = m.update.tx
    BY <2>2, <2>4
  <2>7. "epoch" \notin missed => Holds(r[n], m.epoch, m.key)
    BY <2>2, <2>4, <2>5
  <2> QED BY <1>0, <1>4, <2>2, <2>6, <2>7, PublishCore
<1> QED BY <1>2, <1>3, <1>4 DEF MediaPublishesDirect
-------------------------------------------------------------------------------
(* Invariance *)

\* The invariant holds before the first call.
LEMMA InitIInv == Init => IInv
<1> SUFFICES ASSUME Init PROVE IInv
  OBVIOUS
<1> USE DEF Init
<1>0. PICK z, g : z = [Unmade EXCEPT !.st = "none"] /\ g = NoMedia
  OBVIOUS
<1>1. r \in [Calls -> ReceiversType] /\ \A n \in Calls : r[n] = z /\ r[n] = Unmade
  <2>1. Unmade = z /\ z \in ReceiversType
    BY <1>0, UnmadeFacts DEF Unmade
  <2> QED BY <2>1
<1>2. Sorted(z) /\ ~HoldsKeys(z) /\ z.st = "none"
  BY <1>0, UnmadeFacts
<1>3. th \in [Threads -> ThType] /\ \A t \in Threads : th[t] = Idle /\ th[t].pc = "idle"
  BY IdleFacts
<1>4. /\ m.reg = FALSE /\ m.group = FALSE /\ m.update = NoUpdate /\ m.epoch = 0 /\ m.key = NoKey
      /\ m.call = 0 /\ m.media = 0 /\ m.recv = 0 /\ m \in MType
  BY CallIds DEF MType, NoEntry
<1>5. call \in CallType /\ call.groupTx = 0
  BY DEF CallType
<1>6. /\ g.st = "none" /\ g.tx = 0 /\ g.epoch = 0 /\ g.key = NoKey /\ g.cancelled = FALSE /\ g \in MediaType
  BY <1>0, GroupAssumption DEF MediaType, NoMedia, Unmaking
<1>7. md \in [Calls -> MediaType] /\ \A n \in Calls : md[n] = g
  BY <1>0, <1>6
<1>8. TypeInv
  BY <1>1, <1>3, <1>4, <1>5, <1>7, GroupBudgetAssumption DEF TypeInv
<1>9. ThreadInv
  BY <1>3, <1>8, IdleLocal DEF ThreadInv
<1>10. EntryInv
  BY <1>3, <1>4, <1>6, <1>7 DEF EntryInv
<1>11. GoInv
  <2>1. ASSUME NEW n \in Calls PROVE Goroutine(n)
    BY <1>1, <1>2, <1>6, <1>7 DEF Goroutine, Preparing
  <2> QED BY <2>1 DEF GoInv
<1>12. MediaInv
  BY <1>4 DEF MediaInv, MediaFailureExplained
<1>13. RosterInv /\ EpochInv /\ HandleInv /\ StartInv
  <2>1. m.update.tx = 0
    BY <1>4, UpdateTx
  <2> QED BY <1>4, <1>5, <2>1 DEF RosterInv, EpochInv, HandleInv, StartInv
<1> QED BY <1>8, <1>9, <1>10, <1>11, <1>12, <1>13 DEF IInv

\* A step that changes nothing keeps the invariant.
LEMMA Stutter == IInv /\ UNCHANGED vars => IInv'
<1> SUFFICES ASSUME IInv, UNCHANGED vars PROVE IInv'
  OBVIOUS
<1>1. UNCHANGED <<m, call, r, md, heart, th, hist, left>>
  BY DEF vars
<1>2. TypeInv' /\ EntryInv'
  BY <1>1 DEF IInv, TypeInv, EntryInv
<1>3. ThreadInv'
  BY <1>1 DEF IInv, ThreadInv, Local
<1>4. GoInv'
  BY <1>1, GoSame DEF IInv
<1>5. MediaInv'
  BY <1>1, MediaKept DEF IInv
<1>6. RosterInv' /\ EpochInv'
  BY <1>1, RosterKept, EpochKept DEF IInv
<1>7. HandleInv' /\ StartInv'
  BY <1>1, HandleKept, StartKept DEF IInv
<1> QED BY <1>2, <1>3, <1>4, <1>5, <1>6, <1>7 DEF IInv

\* Every step of a thread, a stanza, the user or a media goroutine keeps it.
LEMMA NextIInv == IInv /\ [Next]_vars => IInv'
<1> SUFFICES ASSUME IInv, [Next]_vars PROVE IInv'
  OBVIOUS
<1>1. CASE UserStep
  BY <1>1, PlaceStep, InputStep DEF UserStep
<1>2. CASE StanzaStep
  BY <1>2, PlaceStep, InputStep DEF StanzaStep
<1>3. ASSUME NEW n \in Calls, MediaStep(n) PROVE IInv'
  BY <1>3, ConnectStep, ModeStep, SnapshotStep, GiveUpStep, FillStep, PublishStep, PublishDirectStep
     DEF MediaStep
<1>4. ASSUME NEW t \in Threads, ThreadStep(t) \/ End(t) PROVE IInv'
  BY <1>4, LookStep, ReceiversStep, InstallStep, StateStep, EpochReceiversStep, EpochInstallStep,
     StartStep, LaunchStep, ClearStep, EndStep DEF ThreadStep
<1>5. CASE UNCHANGED vars
  BY <1>5, Stutter
<1> QED BY <1>1, <1>2, <1>3, <1>4, <1>5 DEF Next

\* The inductive invariant holds in every state: types, the entry with its goroutine
\* and receivers, every goroutine of every call, what each thread has in hand, and
\* where rosters, key epochs and the start of media are on their way.
THEOREM Invariance == Spec => []IInv
  BY InitIInv, NextIInv, PTL DEF Spec

\* Every variable keeps its type, and receivers are published only while they are
\* live and their media goroutine runs.
THEOREM TypeCorrect == Spec => []TypeOK
<1>1. IInv => TypeOK
  <2> SUFFICES ASSUME IInv PROVE TypeOK
    OBVIOUS
  <2>1. m.recv # 0 => r[m.recv].st = "made" /\ md[m.recv].st = "running"
    BY DEF IInv, EntryInv
  <2>2. \A x : x \in ThType =>
          x \in [pc : {"idle", "offer", "update", "apply", "install", "admit",
                       "admitted", "state", "start", "launch", "distribute",
                       "epoch", "applyEpoch", "installEpoch", "heart", "room",
                       "inRoom", "answered", "clear", "end"},
                 u : UpdateType \cup [tx : Txs \cup {0}, relay : {FALSE},
                                      rekey : {FALSE}, bad : {FALSE}],
                 key : Keys \cup {NoKey}, h : 0..MaxCalls, recv : 0..MaxCalls,
                 media : 0..MaxCalls, then : {"idle", "distribute"}]
    BY DEF ThType, Pcs, Telling, UType
  <2>3. \A x : x \in MediaType =>
          x \in [st : {"none", "pending", "connect", "mode", "snap", "fill",
                       "publish", "direct", "running", "early", "failed"},
                 tx : Txs \cup {0}, bad : BOOLEAN, epoch : Txs \cup {0},
                 key : Keys \cup {NoKey}, tries : 0..Attempts, cancelled : BOOLEAN]
    BY DEF MediaType, Preparing, Unmaking
  <2>4. /\ m \in MType /\ call \in CallType /\ r \in [Calls -> ReceiversType]
        /\ md \in [Calls -> MediaType] /\ heart \in BOOLEAN /\ th \in [Threads -> ThType]
        /\ hist \subseteq {"roster", "epoch", "key", "handle"} /\ left \in [Inputs -> Nat]
    BY DEF IInv, TypeInv
  <2>5. th \in [Threads -> [pc : {"idle", "offer", "update", "apply", "install", "admit",
                                  "admitted", "state", "start", "launch", "distribute",
                                  "epoch", "applyEpoch", "installEpoch", "heart", "room",
                                  "inRoom", "answered", "clear", "end"},
                            u : UpdateType \cup [tx : Txs \cup {0}, relay : {FALSE},
                                                 rekey : {FALSE}, bad : {FALSE}],
                            key : Keys \cup {NoKey}, h : 0..MaxCalls, recv : 0..MaxCalls,
                            media : 0..MaxCalls, then : {"idle", "distribute"}]]
    BY <2>2, <2>4
  <2>6. md \in [Calls -> [st : {"none", "pending", "connect", "mode", "snap", "fill",
                                "publish", "direct", "running", "early", "failed"},
                          tx : Txs \cup {0}, bad : BOOLEAN, epoch : Txs \cup {0},
                          key : Keys \cup {NoKey}, tries : 0..Attempts, cancelled : BOOLEAN]]
    BY <2>3, <2>4
  <2> QED BY <2>1, <2>4, <2>5, <2>6 DEF TypeOK, MType, CallType
<1> QED BY <1>1, Invariance, PTL

\* applyGroupUpdate and the media loop: at rest, published receivers have the
\* roster of the entry, unless a handler had looked before they were published or
\* they came from an earlier call.
THEOREM RosterArrives == Spec => []RosterReachesMedia
<1>1. IInv => RosterReachesMedia
  BY DEF IInv, RosterInv, RosterReachesMedia, Quiet
<1> QED BY <1>1, Invariance, PTL

\* installGroupEpoch and the media loop: the same for the key epoch, which is
\* installed or waits for its roster.
THEOREM EpochArrives == Spec => []EpochReachesMedia
<1>1. IInv => EpochReachesMedia
  <2>1. "raw" \in Threads
    BY DEF Threads
  <2> QED BY <2>1 DEF IInv, EpochInv, EpochReachesMedia, Quiet, Holds
<1> QED BY <1>1, Invariance, PTL

\* finishCall and the media loop: once nothing is under way, no receivers but those
\* in use hold a key, but for the late epoch.
THEOREM KeysWiped == Spec => []EndedKeysGone
<1>1. IInv => EndedKeysGone
  <2> SUFFICES ASSUME IInv, Quiet, "key" \notin hist, NEW n \in Calls, n # m.recv,
                      md[n].st \in {"none", "early", "running", "failed"}
               PROVE  ~HoldsKeys(r[n])
    BY DEF EndedKeysGone
  <2>1. Goroutine(n) /\ md[n].st \notin Preparing \cup {"direct"}
    BY DEF IInv, GoInv, Preparing
  <2>2. r[n].st # "made"
    BY <2>1 DEF Goroutine, Quiet
  <2> QED BY <2>1, <2>2 DEF Goroutine
<1> QED BY <1>1, Invariance, PTL

\* setGroupState: at rest the handle shows the roster of the entry, or none if it
\* took the place of one that had been told.
THEOREM HandleCurrent == Spec => []HandleSeesRoster
<1>1. IInv => HandleSeesRoster
  BY DEF IInv, HandleInv, HandleSeesRoster, Quiet, Telling
<1> QED BY <1>1, Invariance, PTL

\* maybeStartMedia: no order of roster, epoch and answer leaves a call that could
\* start its media without it.
THEOREM StartNotLost == Spec => []NoLostStart
<1>1. IInv => NoLostStart
  BY DEF IInv, StartInv, NoLostStart, Quiet, Telling
<1> QED BY <1>1, Invariance, PTL

\* runMedia: media that has its relays and receivers and fails to start has one of
\* the reasons.
THEOREM FailureExplained == Spec => []MediaFailureExplained
<1>1. IInv => MediaFailureExplained
  BY DEF IInv, MediaInv
<1> QED BY <1>1, Invariance, PTL
-------------------------------------------------------------------------------
(* The refinement: every step is one of GroupView or cannot be seen there *)

\* What the mapping needs: types, the receivers' order, and a call that has begun
\* wherever the entry is live.
LEMMA ViewFacts ==
    ASSUME IInv
    PROVE  /\ m \in MType /\ call \in CallType /\ r \in [Calls -> ReceiversType] /\ TypeInv
           /\ m.update.tx \in Txs \cup {0} /\ m.update.tx \in Nat /\ m.epoch \in Nat
           /\ call.groupTx \in Nat /\ m.call \in Nat
           /\ m.reg => m.call # 0
           /\ ~m.reg => m.recv = 0
           /\ m.recv # 0 => m.recv \in Calls
           /\ \A n \in Calls : r[n] \in ReceiversType /\ Sorted(r[n]) /\ r[n].tx \in Nat /\ r[n].epoch \in Nat
           /\ \A t \in Threads : /\ th[t].u.tx \in Txs \cup {0} /\ th[t].u.tx \in Nat
                                 /\ th[t].recv # 0 => th[t].recv \in Calls
                                 /\ Local(t, th[t])
<1>1. /\ m \in MType /\ call \in CallType /\ r \in [Calls -> ReceiversType]
      /\ th \in [Threads -> ThType] /\ TypeInv
  BY DEF IInv, TypeInv
<1>2. (m.reg => m.call # 0) /\ (~m.reg => m.recv = 0)
  BY DEF IInv, EntryInv
<1>3. \A n \in Calls : r[n] \in ReceiversType /\ Sorted(r[n]) /\ r[n].tx \in Nat /\ r[n].epoch \in Nat
  BY <1>1, Fields DEF IInv, GoInv, Goroutine
<1>4. \A t \in Threads : /\ th[t].u.tx \in Txs \cup {0} /\ th[t].u.tx \in Nat
                         /\ th[t].recv # 0 => th[t].recv \in Calls
  BY <1>1, ThFields
<1>5. \A t \in Threads : Local(t, th[t])
  BY DEF IInv, ThreadInv
<1> QED BY <1>1, <1>2, <1>3, <1>4, <1>5, Types

\* Steps GroupView cannot see.
LEMMA ViewKept ==
    ASSUME m'.call = m.call, m'.reg = m.reg, m'.update = m.update, m'.epoch = m.epoch, m'.recv = m.recv,
           call'.groupTx = call.groupTx,
           m.recv # 0 => r'[m.recv].tx = r[m.recv].tx /\ r'[m.recv].epoch = r[m.recv].epoch
    PROVE  UNCHANGED GV!vars
  BY DEF GV!vars, Life, Heard, Used

\* A handle is registered, for a call that begins or one that lives.
LEMMA RegisterMaps ==
    ASSUME IInv, NEW group, NEW incoming, NEW phase, Register(group, incoming, phase)
    PROVE  GV!Begin \/ GV!Replace
<1>1. m \in MType /\ m.call \in Nat /\ (m.reg => m.call # 0) /\ (~m.reg => m.recv = 0)
  BY ViewFacts
<1>2. call'.groupTx = 0 /\ r' = r
  BY DEF Register
<1>3. CASE m.reg
  <2>1. m' = [m EXCEPT !.group = group, !.incoming = incoming, !.call = m.call + 1]
    BY <1>3 DEF Register
  <2>2. /\ m'.reg = m.reg /\ m'.update = m.update /\ m'.epoch = m.epoch /\ m'.recv = m.recv
        /\ m'.call # 0
    BY <1>1, <2>1 DEF MType
  <2>3. Life = "live" /\ Life' = "live" /\ Heard' = Heard /\ Used' = Used
    BY <1>1, <1>2, <1>3, <2>2 DEF Life, Heard, Used
  <2>4. GV!Replace
    BY <1>2, <2>2, <2>3 DEF GV!Replace
  <2> QED BY <2>4
<1>4. CASE ~m.reg
  <2>1. m' = [NoEntry EXCEPT !.reg = TRUE, !.group = group, !.direct = ~group,
                             !.incoming = incoming, !.call = m.call + 1]
    BY <1>4 DEF Register
  <2>2. m'.reg = TRUE /\ m'.update = NoUpdate /\ m'.epoch = 0 /\ m'.recv = 0 /\ m'.call # 0
    BY <1>1, <2>1 DEF NoEntry
  <2>3. Life # "live" /\ Life' = "live" /\ Heard' = Heard /\ Used' = Used
    BY <1>1, <1>4, <2>2 DEF Life, Heard, Used
  <2>4. m'.update.tx = 0
    BY <2>2, UpdateTx
  <2>5. GV!Begin
    BY <1>1, <1>2, <1>4, <2>2, <2>3, <2>4 DEF GV!Begin
  <2> QED BY <2>5
<1> QED BY <1>3, <1>4

\* Users and stanzas: they register a handle or start a handler.
LEMMA InputMaps ==
    ASSUME IInv, UserStep \/ StanzaStep
    PROVE  GV!Begin \/ GV!Replace \/ UNCHANGED GV!vars
<1>1. ASSUME NEW t \in Apps, PlaceGroupCall(t) \/ JoinPublicCallLink(t) \/ PlaceCall(t)
      PROVE  GV!Begin \/ GV!Replace
  <2>1. \E group, incoming, phase : Register(group, incoming, phase)
    BY <1>1 DEF PlaceGroupCall, JoinPublicCallLink, PlaceCall
  <2> QED BY <2>1, RegisterMaps
<1>2. CASE OnGroupOffer
  <2>1. \E group, incoming, phase : Register(group, incoming, phase)
    BY <1>2 DEF OnGroupOffer
  <2> QED BY <2>1, RegisterMaps
<1>3. ASSUME NEW t \in Apps, Answer(t) PROVE UNCHANGED <<m, call, r>>
  BY <1>3 DEF Answer
<1>4. ASSUME NEW u \in Updates, GroupUpdateStanza(u) PROVE UNCHANGED <<m, call, r>>
  BY <1>4 DEF GroupUpdateStanza
<1>5. ASSUME NEW tx \in Txs, WaitingRoomUpdate(tx) PROVE UNCHANGED <<m, call, r>>
  BY <1>5 DEF WaitingRoomUpdate
<1>6. ASSUME NEW tx \in Txs, NEW k \in Keys, EncRekeyStanza(tx, k) PROVE UNCHANGED <<m, call, r>>
  BY <1>6 DEF EncRekeyStanza
<1>7. UNCHANGED <<m, call, r>> => UNCHANGED GV!vars
  BY ViewKept
<1> QED BY <1>1, <1>2, <1>3, <1>4, <1>5, <1>6, <1>7 DEF UserStep, StanzaStep

\* The receivers in use go forward and stay sorted; others do not count.
LEMMA HearMaps ==
    ASSUME IInv, UNCHANGED <<m, call>>, NEW n \in Calls, NEW z \in ReceiversType, r' = [r EXCEPT ![n] = z],
           Sorted(z), z.tx >= r[n].tx, z.epoch >= r[n].epoch
    PROVE  GV!Next \/ UNCHANGED GV!vars
<1>0. r'[n] = z /\ \A k \in Calls : k # n => r'[k] = r[k]
  BY ViewFacts
<1>1. CASE n # m.recv
  BY <1>0, <1>1, ViewFacts, ViewKept
<1>2. CASE n = m.recv
  <2>1. z.tx \in Txs \cup {0} /\ z.epoch \in Txs \cup {0} /\ z.epoch <= z.tx /\ n # 0
    BY Fields, CallIds DEF Sorted
  <2>2. PICK tx, e : tx = z.tx /\ e = z.epoch
    OBVIOUS
  <2>3. /\ Heard = r[n].tx /\ Used = r[n].epoch /\ Heard' = tx /\ Used' = e
        /\ Life' = Life /\ m.recv # 0
    BY <1>0, <1>2, <2>1, <2>2 DEF Heard, Used, Life
  <2>4. GV!Hear(tx, e)
    BY <2>1, <2>2, <2>3 DEF GV!Hear
  <2> QED BY <2>1, <2>2, <2>4 DEF GV!Next
<1> QED BY <1>1, <1>2

\* applyGroupUpdate: the receivers, the entry and the handle are told in turn.
LEMMA UpdateMaps ==
    ASSUME IInv, NEW t \in Threads,
           UpdateReceivers(t) \/ UpdateInstalls(t) \/ AdmitSetsPhase(t) \/ SetGroupState(t)
    PROVE  GV!Next \/ UNCHANGED GV!vars
<1>0. /\ m \in MType /\ call \in CallType /\ m.update.tx \in Nat /\ TypeInv /\ r \in [Calls -> ReceiversType]
      /\ th[t].u.tx \in Txs \cup {0} /\ th[t].u.tx \in Nat /\ call.groupTx \in Nat /\ Local(t, th[t])
      /\ (m.reg => m.call # 0) /\ (~m.reg => m.recv = 0)
  BY ViewFacts
<1>1. CASE UpdateReceivers(t)
  <2>1. PICK n : n = th[t].recv
    OBVIOUS
  <2>2. n \in Calls /\ r[n] \in ReceiversType /\ Sorted(r[n])
    BY <1>0, <1>1, <2>1, ViewFacts DEF UpdateReceivers, Local
  <2>3. PICK x, tx, bad : x = r[n] /\ tx = th[t].u.tx /\ bad = th[t].u.bad
    OBVIOUS
  <2>4. PICK a : a = ApplyGroupUpdate(x, tx, bad)
    OBVIOUS
  <2>5. a.recv \in ReceiversType /\ Sorted(a.recv) /\ a.recv.tx >= x.tx /\ a.recv.epoch >= x.epoch
    <3>1. x \in ReceiversType /\ Sorted(x) /\ tx \in Txs \cup {0}
      BY <1>0, <2>2, <2>3
    <3> QED BY <2>4, <3>1, UpdateFacts
  <2>6. PICK z : z = a.recv
    OBVIOUS
  <2>7. UNCHANGED <<m, call>> /\ (r' = r \/ r' = [r EXCEPT ![n] = z])
    BY <1>1, <2>1, <2>3, <2>4, <2>6 DEF UpdateReceivers
  <2>8. z \in ReceiversType /\ Sorted(z) /\ z.tx >= r[n].tx /\ z.epoch >= r[n].epoch
    BY <2>3, <2>5, <2>6
  <2>9. CASE r' = r
    BY <2>7, <2>9, ViewKept
  <2> QED BY <2>2, <2>7, <2>8, <2>9, HearMaps
<1>2. CASE UpdateInstalls(t)
  <2>1. CASE NewRoster(th[t].u)
    <3>1. m' = [m EXCEPT !.group = TRUE, !.update = th[t].u] /\ call' = call /\ r' = r
      BY <1>2, <2>1 DEF UpdateInstalls
    <3>2. /\ m.reg /\ m'.reg = m.reg /\ m'.update = th[t].u /\ m'.epoch = m.epoch /\ m'.recv = m.recv
          /\ m'.call = m.call
      BY <1>0, <2>1, <3>1 DEF NewRoster, MType
    <3>3. th[t].u.tx > m.update.tx /\ th[t].u.tx \in Txs
      BY <1>0, <2>1, Ids DEF NewRoster
    <3>4. Life = "live" /\ Life' = "live" /\ Heard' = Heard /\ Used' = Used
      BY <1>0, <3>1, <3>2 DEF Life, Heard, Used
    <3>5. GV!NewRoster(th[t].u.tx)
      BY <3>1, <3>2, <3>3, <3>4 DEF GV!NewRoster
    <3> QED BY <3>3, <3>5 DEF GV!Next
  <2>2. CASE ~NewRoster(th[t].u)
    <3>1. UNCHANGED <<m, call>> /\ (r' = r \/ ~m.reg)
      BY <1>2, <2>2 DEF UpdateInstalls
    <3> QED BY <1>0, <3>1, ViewKept
  <2> QED BY <2>1, <2>2
<1>3. CASE AdmitSetsPhase(t)
  <2>1. PICK c, tx : c = [call EXCEPT !.phase = "connecting"] /\ tx = call.roomTx
    OBVIOUS
  <2>2. c \in CallType /\ c.groupTx = call.groupTx /\ tx \in Txs \cup {0}
    BY <1>0, <2>1, Types DEF CallType
  <2>3. SetWaitingRoom(c, tx, FALSE).groupTx = call.groupTx
    BY <2>2 DEF SetWaitingRoom, CallType
  <2>4. call'.groupTx = call.groupTx /\ UNCHANGED <<m, r>>
    BY <1>3, <2>1, <2>3 DEF AdmitSetsPhase, Write
  <2> QED BY <2>4, ViewKept
<1>4. CASE SetGroupState(t)
  <2>1. UNCHANGED <<m, r>> /\ th[t].pc = "state"
    BY <1>4 DEF SetGroupState
  <2>2. CASE th[t].h = m.call /\ th[t].u.tx > call.groupTx
    <3>1. th[t].u.tx <= m.update.tx /\ th[t].u.tx \in Txs
      BY <1>0, <2>1, <2>2 DEF Local, Telling
    <3>2. call'.groupTx = th[t].u.tx
      BY <1>0, <1>4, <2>2 DEF SetGroupState, Write, CallType
    <3>3. Life' = Life /\ Heard' = Heard /\ Used' = Used
      BY <2>1 DEF Life, Heard, Used
    <3>4. GV!Show(th[t].u.tx)
      BY <2>1, <2>2, <3>1, <3>2, <3>3 DEF GV!Show
    <3> QED BY <3>1, <3>4 DEF GV!Next
  <2>3. CASE ~(th[t].h = m.call /\ th[t].u.tx > call.groupTx)
    <3>1. call'.groupTx = call.groupTx
      BY <1>0, <1>4, <2>3 DEF SetGroupState, Write, CallType
    <3> QED BY <2>1, <3>1, ViewKept
  <2> QED BY <2>2, <2>3
<1> QED BY <1>1, <1>2, <1>3, <1>4

\* installGroupEpoch.
LEMMA EpochMaps ==
    ASSUME IInv, NEW t \in Threads, EpochReceivers(t) \/ EpochInstalls(t)
    PROVE  GV!Next \/ UNCHANGED GV!vars
<1>0. /\ m \in MType /\ m.epoch \in Nat /\ Local(t, th[t]) /\ (m.reg => m.call # 0)
      /\ th[t].u.tx \in Txs /\ th[t].key \in Keys
  BY ViewFacts DEF EpochReceivers, EpochInstalls, Local
<1>1. CASE EpochReceivers(t)
  <2>1. PICK n : n = th[t].recv
    OBVIOUS
  <2>2. n \in Calls /\ r[n] \in ReceiversType /\ Sorted(r[n]) /\ r[n].tx \in Nat
    BY <1>0, <1>1, <2>1, ViewFacts DEF EpochReceivers, Local
  <2>3. PICK x, tx, k : x = r[n] /\ tx = th[t].u.tx /\ k = th[t].key
    OBVIOUS
  <2>4. PICK a : a = ApplyGroupRawEpoch(x, tx, k)
    OBVIOUS
  <2>5. a.recv \in ReceiversType /\ Sorted(a.recv) /\ a.recv.tx = x.tx /\ a.recv.epoch >= x.epoch
    BY <1>0, <2>2, <2>3, <2>4, EpochFacts
  <2>6. PICK z : z = a.recv
    OBVIOUS
  <2>7. UNCHANGED <<m, call>> /\ r' = [r EXCEPT ![n] = z]
    BY <1>1, <2>1, <2>3, <2>4, <2>6 DEF EpochReceivers
  <2>8. z \in ReceiversType /\ Sorted(z) /\ z.tx >= r[n].tx /\ z.epoch >= r[n].epoch
    BY <2>2, <2>3, <2>5, <2>6
  <2> QED BY <2>2, <2>7, <2>8, HearMaps
<1>2. CASE EpochInstalls(t) /\ NewEpoch(th[t].u.tx)
  <2>1. m' = [m EXCEPT !.epoch = th[t].u.tx, !.key = th[t].key] /\ call' = call /\ r' = r
    BY <1>2 DEF EpochInstalls
  <2>2. /\ m.reg /\ m'.reg = m.reg /\ m'.update = m.update /\ m'.epoch = th[t].u.tx /\ m'.recv = m.recv
        /\ m'.call = m.call
    BY <1>0, <1>2, <2>1 DEF NewEpoch, MType
  <2>3. Life = "live" /\ Life' = "live" /\ Heard' = Heard /\ Used' = Used
    BY <1>0, <2>1, <2>2 DEF Life, Heard, Used
  <2>4. GV!NewEpoch(th[t].u.tx)
    BY <1>2, <2>1, <2>2, <2>3 DEF GV!NewEpoch, NewEpoch
  <2> QED BY <1>0, <2>4 DEF GV!Next
<1>3. CASE EpochInstalls(t) /\ ~NewEpoch(th[t].u.tx)
  BY <1>3, ViewKept DEF EpochInstalls
<1> QED BY <1>1, <1>2, <1>3

\* finishCall; what it wipes is not in use any more.
LEMMA FinishMaps ==
    ASSUME IInv, NEW t \in Threads, FinishCall(t) \/ FinishClears(t) \/ FinishEnds(t)
    PROVE  GV!Next \/ UNCHANGED GV!vars
<1>0. m \in MType /\ (m.reg => m.call # 0) /\ Local(t, th[t]) /\ r \in [Calls -> ReceiversType] /\ TypeInv
      /\ (th[t].recv # 0 => th[t].recv \in Calls) /\ (m.recv # 0 => m.recv \in Calls)
  BY ViewFacts
<1>1. CASE FinishCall(t)
  <2>1. /\ m.reg /\ ~m'.reg /\ m'.update = m.update /\ m'.epoch = m.epoch /\ m'.recv = 0
        /\ m'.call = m.call /\ UNCHANGED <<call, r>>
    BY <1>0, <1>1 DEF FinishCall, MType
  <2>2. Life = "live" /\ Life' = "over" /\ Heard' = 0 /\ Used' = 0
    BY <1>0, <2>1 DEF Life, Heard, Used
  <2>3. GV!End
    BY <2>1, <2>2 DEF GV!End
  <2> QED BY <2>3 DEF GV!Next
<1>2. CASE FinishClears(t)
  <2>1. /\ UNCHANGED <<m, call>> /\ th[t].pc = "clear"
        /\ r' = IF th[t].recv # 0 THEN [r EXCEPT ![th[t].recv] = Clear(r[th[t].recv])] ELSE r
    BY <1>2 DEF FinishClears
  <2>2. m.recv # 0 => r'[m.recv] = r[m.recv]
    BY <1>0, <2>1 DEF Local
  <2> QED BY <2>1, <2>2, ViewKept
<1>3. CASE FinishEnds(t)
  <2>1. call'.groupTx = call.groupTx /\ UNCHANGED <<m, r>>
    BY <1>0, <1>3, PhaseFacts DEF FinishEnds
  <2> QED BY <2>1, ViewKept
<1> QED BY <1>1, <1>2, <1>3

\* maybeStartMedia, Answer and the waiting room.
LEMMA StartMaps ==
    ASSUME IInv, NEW t \in Threads,
           StartMedia(t) \/ LaunchMedia(t) \/ Answered(t) \/ WaitingRoomSets
    PROVE  UNCHANGED GV!vars
<1>0. m \in MType /\ call \in CallType /\ TypeInv
  BY ViewFacts
<1>1. CASE StartMedia(t)
  <2>1. UNCHANGED <<call, r>> /\ (m' = m \/ m' = [m EXCEPT !.media = m.call])
    BY <1>1 DEF StartMedia
  <2>2. /\ m'.reg = m.reg /\ m'.update = m.update /\ m'.epoch = m.epoch /\ m'.recv = m.recv
        /\ m'.call = m.call
    BY <1>0, <2>1 DEF MType
  <2> QED BY <2>1, <2>2, ViewKept
<1>2. CASE LaunchMedia(t) \/ Answered(t)
  <2>1. Phase(t, "connecting") /\ UNCHANGED <<m, r>>
    BY <1>2 DEF LaunchMedia, Answered
  <2>2. call'.groupTx = call.groupTx
    BY <1>0, <2>1, PhaseFacts
  <2> QED BY <2>1, <2>2, ViewKept
<1>3. CASE WaitingRoomSets
  <2>1. call'.groupTx = call.groupTx /\ UNCHANGED <<m, r>>
    BY <1>0, <1>3 DEF WaitingRoomSets, SetWaitingRoom, Write, CallType
  <2> QED BY <2>1, ViewKept
<1> QED BY <1>1, <1>2, <1>3

\* The start of runMedia: what is not published is not in use.
LEMMA MediaMaps ==
    ASSUME IInv, NEW n \in Calls, MediaStep(n)
    PROVE  GV!Next \/ UNCHANGED GV!vars
<1>0. /\ m \in MType /\ r \in [Calls -> ReceiversType] /\ (m.reg => m.call # 0)
      /\ (m.recv # 0 => m.recv \in Calls) /\ r[n] \in ReceiversType /\ Sorted(r[n]) /\ n # 0
  BY ViewFacts, CallIds
<1>1. n # m.recv
  <2>1. md[n].st \notin {"none", "pending", "running"}
    BY DEF MediaStep, MediaConnects, MediaReadsMode, MediaSnapshot, MediaGivesUp, MediaFills,
       MediaPublishes, MediaPublishesDirect
  <2> QED BY <2>1, StartingGoroutine
<1>2. CASE UNCHANGED <<m, call>> /\ \E z : r' = [r EXCEPT ![n] = z]
  <2>1. m.recv # 0 => r'[m.recv] = r[m.recv]
    BY <1>0, <1>1, <1>2
  <2> QED BY <1>2, <2>1, ViewKept
<1>3. CASE \E missed : m.reg /\ m.recv = 0 /\ Publish(n, missed)
  <2>1. m.reg /\ m.recv = 0 /\ m' = [m EXCEPT !.recv = n] /\ UNCHANGED <<call, r>>
    BY <1>3 DEF Publish
  <2>2. /\ m'.reg = m.reg /\ m'.update = m.update /\ m'.epoch = m.epoch /\ m'.recv = n
        /\ m'.call = m.call
    BY <1>0, <2>1 DEF MType
  <2>3. PICK tx, e : tx = r[n].tx /\ e = r[n].epoch
    OBVIOUS
  <2>4. tx \in Txs \cup {0} /\ e \in Txs \cup {0} /\ e <= tx
    BY <1>0, <2>3, Fields DEF Sorted
  <2>5. Life = "live" /\ Life' = "live" /\ Heard' = tx /\ Used' = e
    BY <1>0, <2>1, <2>2, <2>3 DEF Life, Heard, Used
  <2>6. GV!Use(tx, e)
    BY <1>0, <2>1, <2>2, <2>4, <2>5 DEF GV!Use
  <2> QED BY <2>4, <2>6 DEF GV!Next
<1>4. UNCHANGED r => \E z : r' = [r EXCEPT ![n] = z]
  <2>1. UNCHANGED r => r' = [r EXCEPT ![n] = r[n]]
    BY <1>0
  <2> QED BY <2>1
<1>5. \/ UNCHANGED <<m, call>> /\ \E z : r' = [r EXCEPT ![n] = z]
      \/ \E missed : m.reg /\ m.recv = 0 /\ Publish(n, missed)
  <2>1. CASE MediaConnects(n) \/ MediaSnapshot(n)
    BY <1>4, <2>1 DEF MediaConnects, MediaSnapshot
  <2>2. CASE MediaReadsMode(n)
    BY <1>4, <2>2 DEF MediaReadsMode
  <2>3. ASSUME NEW st, MediaDrops(n, st) PROVE UNCHANGED <<m, call>> /\ \E z : r' = [r EXCEPT ![n] = z]
    BY <2>3 DEF MediaDrops
  <2>4. CASE MediaGivesUp(n) \/ MediaFills(n)
    BY <2>3, <2>4 DEF MediaGivesUp, MediaFills
  <2>5. CASE MediaPublishes(n) \/ MediaPublishesDirect(n)
    BY <1>4, <2>3, <2>5 DEF MediaPublishes, MediaPublishesDirect
  <2> QED BY <2>1, <2>2, <2>4, <2>5 DEF MediaStep
<1> QED BY <1>2, <1>3, <1>5

\* No call has begun.
LEMMA InitView == Init => GV!Init
  BY DEF Init, GV!Init, Life, Heard, Used, NoEntry, NoUpdate

\* Every step is a step of GroupView or a stutter.
LEMMA NextView == IInv /\ [Next]_vars => [GV!Next]_GV!vars
<1> SUFFICES ASSUME IInv, [Next]_vars PROVE GV!Next \/ UNCHANGED GV!vars
  OBVIOUS
<1>1. CASE UserStep \/ StanzaStep
  BY <1>1, InputMaps DEF GV!Next
<1>2. ASSUME NEW n \in Calls, MediaStep(n) PROVE GV!Next \/ UNCHANGED GV!vars
  BY <1>2, MediaMaps
<1>3. ASSUME NEW t \in Threads, ThreadStep(t) \/ End(t) PROVE GV!Next \/ UNCHANGED GV!vars
  <2>1. \/ UpdateReceivers(t) \/ UpdateInstalls(t) \/ AdmitSetsPhase(t) \/ SetGroupState(t)
        \/ EpochReceivers(t) \/ EpochInstalls(t)
        \/ StartMedia(t) \/ LaunchMedia(t) \/ Answered(t) \/ WaitingRoomSets
        \/ FinishCall(t) \/ FinishClears(t) \/ FinishEnds(t) \/ UNCHANGED <<m, call, r>>
    BY <1>3 DEF ThreadStep, End, UpdateLooksUp, AdmitReadsPhase, Distribute, EpochLooksUp,
       StartHeartbeat, SendGroupOffer
  <2>2. UNCHANGED <<m, call, r>> => UNCHANGED GV!vars
    BY ViewKept
  <2> QED BY <2>1, <2>2, UpdateMaps, EpochMaps, StartMaps, FinishMaps
<1>4. CASE UNCHANGED vars
  BY <1>4, ViewKept DEF vars
<1> QED BY <1>1, <1>2, <1>3, <1>4 DEF Next

\* Whatever rosters and epochs the server sends, on whichever threads they are
\* handled, however often the id is offered again and whatever an ended call leaves
\* behind: entry and receivers take them in their order, the handle follows the
\* entry, and the receivers in use keep their keys.
THEOREM GroupImplementsView == Spec => ImplementsGroupView
  BY InitView, NextView, Invariance, PTL DEF Spec, ImplementsGroupView, GV!Spec
===============================================================================
