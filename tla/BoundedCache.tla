----------------------------- MODULE BoundedCache -----------------------------
(***************************************************************************)
(* The bounded maps of cache.go.  A counter that is 0 and a time that is   *)
(* Never are keys the map does not hold.  Time is counted in windows of    *)
(* more than an hour: retryCounterWindow and recreateSessionTimeout have   *)
(* passed when, and only when, the window is a later one.                  *)
(***************************************************************************)
EXTENDS Integers, FiniteSets

Never == 0

Held(c) == {k \in DOMAIN c : c[k] # 0}

\* A map of counters: the counts, when it was cleared last, how often it was.
EmptyCounter(K) == [n |-> [k \in K |-> 0], at |-> Never, clears |-> 0]

\* The window has passed, or there was none yet.
Cleared(c, now) ==
    IF c.at # now
      THEN [n |-> [k \in DOMAIN c.n |-> 0], at |-> now, clears |-> c.clears + 1]
      ELSE c

\* incrementBoundedCounter takes the key: it holds it or has room for it.
Accepts(c, k, limit, now) ==
    LET d == Cleared(c, now)
    IN  d.n[k] # 0 \/ Cardinality(Held(d.n)) < limit

\* What it leaves, whether it takes the key or not.
Increment(c, k, limit, now) ==
    IF Accepts(c, k, limit, now) THEN [Cleared(c, now) EXCEPT !.n[k] = @ + 1]
                                 ELSE Cleared(c, now)

\* putBoundedCache evicts an arbitrary key when there is no room: the results.
Puts(h, k, v, limit) ==
    IF h[k] # Never \/ Cardinality(Held(h)) < limit
      THEN {[h EXCEPT ![k] = v]}
      ELSE {[h EXCEPT ![k] = v, ![j] = Never] : j \in Held(h)}

\* pruneExpiredCache, which shouldRecreateSession calls on a full map only.
Pruned(h, now, limit) ==
    IF Cardinality(Held(h)) < limit THEN h
    ELSE [k \in DOMAIN h |-> IF h[k] < now THEN Never ELSE h[k]]
===============================================================================
