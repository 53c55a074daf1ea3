--------------------------- MODULE TurnTransaction ---------------------------
(***************************************************************************)
(* What Agent.Run promises of a turn, without its stages: it begins, and   *)
(* either replaces one thread by a complete history that contains it, and  *)
(* besides it only turns that committed, or fails and changes nothing.     *)
(***************************************************************************)
EXTENDS Messages

CONSTANT Threads
VARIABLES store, phase
vars == <<store, phase>>

Init ==
  /\ store = [th \in Threads |-> <<>>]
  /\ phase = [t \in Turns |-> "idle"]

Begin(t) ==
  /\ phase[t] = "idle"
  /\ phase' = [phase EXCEPT ![t] = "running"]
  /\ UNCHANGED store

Commit(t) ==
  /\ phase[t] = "running"
  /\ phase' = [phase EXCEPT ![t] = "ok"]
  /\ \E th \in Threads :
       /\ store' = [store EXCEPT ![th] = store'[th]]
       /\ Paired(store'[th])
       /\ t \in TurnsIn(store'[th])
       /\ TurnsIn(store'[th]) \subseteq {u \in Turns : phase'[u] = "ok"}

Abort(t) ==
  /\ phase[t] = "running"
  /\ phase' = [phase EXCEPT ![t] = "failed"]
  /\ UNCHANGED store

Next == \E t \in Turns : Begin(t) \/ Commit(t) \/ Abort(t)

Spec == Init /\ [][Next]_vars
=============================================================================
