---------------------------- MODULE ThreadRegister ----------------------------
(***************************************************************************)
(* What a thread store promises (state.Store, internal/state/state.go): a  *)
(* save takes effect at one instant between its call and its return, or    *)
(* never; a load returns what the last save before one such instant put    *)
(* there.  A caller that dies does not know whether its save took effect.  *)
(* Of a list only the call is described: it takes no instant.              *)
(***************************************************************************)
CONSTANTS Ops, NoOp, Threads

VARIABLES store,   \* the save whose version of the thread is current, or NoOp
          call

vars == <<store, call>>

Kinds == {"save", "load", "list"}

Init ==
  /\ store = [th \in Threads |-> NoOp]
  /\ \E th \in Threads :
       call = [o \in Ops |-> [phase |-> "idle", kind |-> "list", thread |-> th,
                              result |-> NoOp]]

Enters(o, phase) ==
  call' = [call EXCEPT ![o] = [@ EXCEPT !.phase = phase]]

Begin(o) ==
  /\ call[o].phase = "idle"
  /\ \E kind \in Kinds, th \in Threads :
       call' = [call EXCEPT ![o] = [@ EXCEPT !.phase = "running", !.kind = kind,
                                             !.thread = th]]
  /\ UNCHANGED store

Apply(o) ==
  /\ call[o].phase = "running"
  /\ call[o].kind = "save"
  /\ store' = [store EXCEPT ![call[o].thread] = o]
  /\ Enters(o, "applied")

Read(o) ==
  /\ call[o].phase = "running"
  /\ call[o].kind = "load"
  /\ call' = [call EXCEPT ![o] = [@ EXCEPT !.phase = "done",
                                           !.result = store[call[o].thread]]]
  /\ UNCHANGED store

Reply(o) ==
  /\ \/ call[o].phase = "applied"
     \/ call[o].phase = "running" /\ call[o].kind = "list"
  /\ Enters(o, "done")
  /\ UNCHANGED store

Fail(o) ==
  /\ call[o].phase = "running"
  /\ Enters(o, "failed")
  /\ UNCHANGED store

Crash(o) ==
  /\ call[o].phase \in {"running", "applied"}
  /\ Enters(o, "crashed")
  /\ UNCHANGED store

Next == \E o \in Ops : Begin(o) \/ Apply(o) \/ Read(o) \/ Reply(o) \/ Fail(o) \/ Crash(o)

Spec == Init /\ [][Next]_vars
===============================================================================
