------------------------------ MODULE RunLease ------------------------------
(***************************************************************************)
(* What the run queue promises, with no tables, transactions or sessions:  *)
(* every run waits, is leased or has ended; at most one worker at a time   *)
(* works on it, the one that the last claim gave it to; a claim is an      *)
(* attempt; a lease is taken away only when nobody works on the run, and   *)
(* only so often; an ended run stays as it is.                             *)
(*                                                                         *)
(* One step may move several runs: a claim reclaims other leases first.    *)
(***************************************************************************)
EXTENDS Naturals

CONSTANTS Runs, Workers, None, MaxAttempts

VARIABLES state,     \* of each run
          worker,    \* the live worker that works on it, or None
          attempt    \* how often it was claimed

vars == <<state, worker, attempt>>

States == {"absent", "waiting", "leased", "ended"}

Init ==
  /\ state = [r \in Runs |-> "absent"]
  /\ worker = [r \in Runs |-> None]
  /\ attempt = [r \in Runs |-> 0]

Moves(r, to, by, n) == state'[r] = to /\ worker'[r] = by /\ attempt'[r] = n

Submit(r) == state[r] = "absent" /\ Moves(r, "waiting", None, 0)

\* A claimed run may also be nobody's, when the worker fails as it claims.
Claim(r) ==
  /\ worker[r] = None
  /\ state[r] = "waiting" \/ (state[r] = "leased" /\ attempt[r] < MaxAttempts)
  /\ \E w \in Workers \cup {None} : Moves(r, "leased", w, attempt[r] + 1)

Reclaim(r) ==
  /\ state[r] = "leased" /\ worker[r] = None
  /\ Moves(r, IF attempt[r] < MaxAttempts THEN "waiting" ELSE "ended", None, attempt[r])

CancelWaiting(r) ==
  state[r] = "waiting" /\ worker[r] = None /\ Moves(r, "ended", None, attempt[r])

\* The worker ends the run; it may not learn that it has.
End(r) ==
  /\ state[r] = "leased" /\ worker[r] # None
  /\ \E w \in {worker[r], None} : Moves(r, "ended", w, attempt[r])

GiveBack(r) ==
  state[r] = "leased" /\ worker[r] # None /\ Moves(r, "waiting", None, attempt[r])

\* The worker crashes, or fails to give the lease back.
LetGo(r) == worker[r] # None /\ Moves(r, state[r], None, attempt[r])

Step(r) ==
  \/ Submit(r) \/ Claim(r) \/ Reclaim(r) \/ CancelWaiting(r)
  \/ End(r) \/ GiveBack(r) \/ LetGo(r)
  \/ Moves(r, state[r], worker[r], attempt[r])

Next ==
  /\ state' \in [Runs -> States]
  /\ worker' \in [Runs -> Workers \cup {None}]
  /\ attempt' \in [Runs -> Nat]
  /\ \A r \in Runs : Step(r)

Spec == Init /\ [][Next]_vars
=============================================================================
