---------------------------- MODULE GroupReceivers ----------------------------
(***************************************************************************)
(* The media receivers of a group call (participantReceiveRegistry in      *)
(* wa-core/call_group_media_receive.go) as operators on a record.  Each    *)
(* method holds r.mu throughout, so each is one step of its caller.        *)
(*                                                                         *)
(* Rosters and key epochs come with transaction ids from the server.  tx   *)
(* is the roster's (0: none yet), epoch the installed key's (0: none),     *)
(* pending the keys of epochs whose roster has not come yet.               *)
(***************************************************************************)
EXTENDS Integers, FiniteSetsExt

CONSTANTS Txs,     \* transaction ids
          Keys     \* raw key epochs

NoKey == "nokey"

ASSUME TxAssumption == Txs \subseteq Nat \ {0} /\ NoKey \notin Keys

NoPending == [t \in Txs |-> NoKey]

Unmade == [st |-> "none", tx |-> 0, epoch |-> 0, key |-> NoKey, pending |-> NoPending]

ReceiversType ==
    [st : {"none", "made", "cleared"}, tx : Txs \cup {0}, epoch : Txs \cup {0},
     key : Keys \cup {NoKey}, pending : [Txs -> Keys \cup {NoKey}]]

\* What a method leaves behind, and whether it returned an error.
Done(r)   == [recv |-> r, err |-> FALSE]
Failed(r) == [recv |-> r, err |-> TRUE]

\* clear: every key is wiped; the roster's transaction id stays.
Clear(r) == [r EXCEPT !.st = "cleared", !.epoch = 0, !.key = NoKey, !.pending = NoPending]

HoldsKeys(r) == r.key # NoKey \/ r.pending # NoPending

\* The buffered epochs a roster releases, and the newest of them (0: none).
Released(r, tx) == {t \in Txs : t <= tx /\ r.pending[t] # NoKey}
Newest(r, tx) == Max(Released(r, tx) \cup {0})

\* Mutant: the roster is replaced and the buffered epochs are left waiting.
CommitRosterOnly(r, tx) == [r EXCEPT !.tx = tx]

\* commitGroupUpdateLocked.
Commit(r, tx) ==
    LET n == Newest(r, tx)
        x == [r EXCEPT !.tx = tx,
                       !.pending = [t \in Txs |-> IF t <= tx THEN NoKey ELSE @[t]]]
    IN  IF n > r.epoch THEN [x EXCEPT !.epoch = n, !.key = r.pending[n]] ELSE x

\* ApplyGroupUpdate.  bad: a roster prepareGroupUpdateLocked refuses, such as
\* one that names a device twice.
ApplyGroupUpdate(r, tx, bad) ==
    LET n == Newest(r, tx)
    IN  CASE tx <= r.tx -> Done(r)
          [] tx > r.tx /\ (bad \/ (n # 0 /\ n = r.epoch /\ r.pending[n] # r.key)) -> Failed(r)
          [] OTHER -> Done(Commit(r, tx))

\* ApplyGroupRawEpoch: a key ahead of its roster is buffered, an old one is
\* ignored, a second key for the same transaction is an error.
ApplyGroupRawEpoch(r, tx, k) ==
    CASE tx > r.tx /\ r.pending[tx] = NoKey -> Done([r EXCEPT !.pending[tx] = k])
      [] tx > r.tx /\ r.pending[tx] # NoKey ->
            IF r.pending[tx] = k THEN Done(r) ELSE Failed(r)
      [] tx <= r.tx /\ tx < r.epoch -> Done(r)
      [] tx <= r.tx /\ tx = r.epoch -> IF r.key = k THEN Done(r) ELSE Failed(r)
      [] OTHER -> Done([r EXCEPT !.epoch = tx, !.key = k])
===============================================================================
