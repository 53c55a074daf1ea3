--------------------------- MODULE ThreadStoreProofs ---------------------------
(***************************************************************************)
(* Theorems about the store and about listing it page by page.             *)
(*                                                                         *)
(* Part one, ThreadStore, for any number of calls, processes and threads:  *)
(* what is in the directory, what a load and a list make of it, and that   *)
(* saves and loads are those of an atomic register.                        *)
(*                                                                         *)
(* Part two, ThreadPages, for any finite number of threads, any saves and  *)
(* any limits: what the pages of thread/list hold taken together.          *)
(***************************************************************************)
EXTENDS ThreadStore, ThreadPages, FiniteSetTheorems, WellFoundedInduction, TLAPS

-----------------------------------------------------------------------------
(* Part one: names and records *)

\* The names of the directory are those of threads and those of saves.
LEMMA NamesApart ==
  /\ \A th \in Threads : Final(th) \in Names
  /\ \A th \in Threads, o \in Ops : Temp(th, o) \in Names
  /\ \A th, u \in Threads : Final(th) = Final(u) => th = u
  /\ \A th, u \in Threads, o \in Ops : Final(th) # Temp(u, o)
  /\ \A th, u \in Threads, o, p \in Ops : Temp(th, o) = Temp(u, p) => th = u /\ o = p
  /\ \A f \in Names : /\ f.id \in Threads
                      /\ f.tmp = NoOp => f = Final(f.id)
                      /\ f.tmp # NoOp => f.tmp \in Ops /\ f = Temp(f.id, f.tmp)
  /\ \A th \in Threads : Final(th).id = th /\ Final(th).tmp = NoOp
  /\ \A th \in Threads, o \in Ops : Temp(th, o).id = th /\ Temp(th, o).tmp = o
BY StoreAssumption DEF Names, Final, Temp

\* The temp file of a save is no other file.
LEMMA TempApart ==
  ASSUME NEW th \in Threads, NEW o \in Ops
  PROVE  /\ Temp(th, o) \in Names
         /\ \A u \in Threads : Final(u) \in Names /\ Final(u) # Temp(th, o)
         /\ \A u \in Threads, p \in Ops : Temp(u, p) \in Names
         /\ \A u \in Threads, p \in Ops : p # o => Temp(u, p) # Temp(th, o)
         /\ \A u \in Threads, p \in Ops : u # th => Temp(u, p) # Temp(th, o)
BY StoreAssumption DEF Names, Final, Temp

\* The file of a thread is no other file.
LEMMA FinalApart ==
  ASSUME NEW th \in Threads
  PROVE  /\ Final(th) \in Names
         /\ \A u \in Threads, p \in Ops : Temp(u, p) # Final(th) /\ Final(th) # Temp(u, p)
         /\ \A u \in Threads : u # th => Final(u) # Final(th)
BY StoreAssumption DEF Names, Final, Temp

\* A call that has not begun, and a file that is not there, have their types.
LEMMA InitTypes ==
  /\ NewOp \in Op
  /\ Absent \in [state : {"absent", "partial", "whole"}, by : Ops \cup {NoOp}, at : Nat]
<1>1. (CHOOSE th \in Threads : TRUE) \in Threads
  BY StoreAssumption
<1>2. {} \in SUBSET Ops /\ {} \in SUBSET Names /\ {} \in SUBSET Entry
  OBVIOUS
<1>3. NewOp \in Op
  BY <1>1, <1>2 DEF NewOp, Op
<1> QED BY <1>3 DEF Absent

-----------------------------------------------------------------------------
(* The inductive invariant *)

\* What a call knows of itself and of those that returned before it.
CallOK(o) ==
  /\ op[o].pc \in {"created", "written", "renamed"} => op[o].kind = "save"
  /\ op[o].pc = "listing" => op[o].kind = "list"
  /\ op[o].why # "" => op[o].pc = "failed"
  /\ op[o].kind = "load" => op[o].why \in {"", "fault"}
  /\ o \notin op[o].before
  /\ \A p \in op[o].before : op[p].kind = "save" /\ op[p].pc = "done"

\* A temp file is of a save that is between CreateTemp and Rename, or was killed there.
TempOK(th, o) ==
  /\ files[Temp(th, o)] # Absent =>
       /\ op[o].pc \in {"created", "written", "crashed"}
       /\ op[o].thread = th
  /\ op[o].pc \in {"created", "written"} /\ op[o].thread = th => files[Temp(th, o)].by = o
  /\ op[o].pc = "written" /\ op[o].thread = th => files[Temp(th, o)].state = "whole"

\* What FinalFilesWhole says of one thread.
FinalOK(th) ==
  LET file == files[Final(th)] IN
  file # Absent =>
    /\ file.state = "whole" /\ file.by \in Ops
    /\ op[file.by].kind = "save" /\ op[file.by].thread = th
    /\ op[file.by].pc \in {"renamed", "done", "crashed"}

\* A save that got through its rename has left a version for good, and never one
\* that it replaced.
SavedOK(p) ==
  op[p].kind = "save" /\ op[p].pc \in {"renamed", "done"} =>
    /\ files[Final(op[p].thread)] # Absent
    /\ files[Final(op[p].thread)].by \notin op[p].before

\* What a list has gathered, and what it has still to read.
EntriesOK(o) ==
  /\ \A e \in op[o].found : /\ op[e.by].pc \in {"renamed", "done", "crashed"}
                            /\ op[e.by].thread = e.id
                            /\ ~Outdated(e.by, o)
                            /\ Final(e.id) \notin op[o].todo
  /\ \A e, f \in op[o].found : e.id = f.id => e = f
  /\ op[o].kind = "list" /\ op[o].pc \in {"listing", "done"} =>
       \A p \in op[o].before : \/ \E e \in op[o].found : e.id = op[p].thread
                               \/ Final(op[p].thread) \in op[o].todo
  /\ op[o].kind # "list" \/ op[o].pc \in {"idle", "called"} =>
       op[o].found = {} /\ op[o].todo = {}
  /\ op[o].pc = "done" => op[o].todo = {}

\* Save q wrote a version with time a that is in the directory or in a list.
Dated(q, a) ==
  \/ \E f \in Names : files[f] # Absent /\ files[f].by = q /\ files[f].at = a
  \/ \E o \in Ops : \E e \in op[o].found : e.by = q /\ e.at = a

\* Times are not ahead of the clock, and agree with the order of saves that do not
\* overlap.
TimesOK ==
  /\ \A q \in Ops, a \in Nat : Dated(q, a) => a <= clock /\ op[q].pc # "idle"
  /\ \A q, p \in Ops, a, b \in Nat :
       Dated(q, a) /\ Dated(p, b) /\ q \in op[p].before => a <= b

StoreInv ==
  /\ TypeOK
  /\ \A o \in Ops : CallOK(o)
  /\ \A th \in Threads, o \in Ops : TempOK(th, o)
  /\ \A th \in Threads : FinalOK(th)
  /\ \A p \in Ops : SavedOK(p)
  /\ \A o \in Ops : EntriesOK(o)
  /\ TimesOK

-----------------------------------------------------------------------------
(* Steps of one call *)

\* Call o becomes new, and is still the same call.
Moves(o, new) ==
  /\ new \in Op
  /\ op' = [op EXCEPT ![o] = new]
  /\ new.kind = op[o].kind /\ new.thread = op[o].thread /\ new.before = op[o].before

\* The fields of a call.
LEMMA OpFields ==
  ASSUME TypeOK, NEW o \in Ops
  PROVE  /\ op[o] \in Op /\ op[o].thread \in Threads /\ op[o].before \subseteq Ops
         /\ op[o].found \subseteq Entry /\ op[o].todo \subseteq Names
         /\ op[o].result \in Ops \cup {NoOp} /\ op[o].kind \in {"save", "load", "list"}
         /\ op[o].why \in {"", "fault", "gone", "parse", "mismatch"}
BY DEF TypeOK, Op

\* What a step of call o leaves of the others.
LEMMA MovesAt ==
  ASSUME TypeOK, NEW o \in Ops, NEW new, Moves(o, new)
  PROVE  /\ op' \in [Ops -> Op]
         /\ op'[o] = new
         /\ \A p \in Ops : p # o => op'[p] = op[p]
         /\ \A p \in Ops : /\ op'[p].kind = op[p].kind /\ op'[p].thread = op[p].thread
                           /\ op'[p].before = op[p].before
<1>1. op \in [Ops -> Op]
  BY DEF TypeOK
<1>2. op' \in [Ops -> Op] /\ op'[o] = new /\ \A p \in Ops : p # o => op'[p] = op[p]
  BY <1>1 DEF Moves
<1>3. ASSUME NEW p \in Ops
      PROVE  /\ op'[p].kind = op[p].kind /\ op'[p].thread = op[p].thread
             /\ op'[p].before = op[p].before
  <2>1. CASE p = o
    BY <1>2, <2>1 DEF Moves
  <2>2. CASE p # o
    BY <1>2, <2>2
  <2> QED BY <2>1, <2>2
<1> QED BY <1>2, <1>3

\* A step that takes a call further, and keeps it in order, keeps all in order:
\* those that are over stay as they are.
LEMMA MoveCalls ==
  ASSUME StoreInv, NEW o \in Ops, NEW new, Moves(o, new),
         op[o].pc \in {"called", "created", "written", "renamed", "listing"},
         op[o].pc = "renamed" => new.pc \in {"done", "crashed"},
         CallOK(o)', EntriesOK(o)'
  PROVE  /\ op' \in [Ops -> Op]
         /\ \A p \in Ops : CallOK(p)' /\ EntriesOK(p)'
         /\ \A p \in Ops : op[p].pc \in {"renamed", "done", "crashed"}
                             => op'[p].pc \in {"renamed", "done", "crashed"}
<1> USE DEF StoreInv
<1>1. /\ op' \in [Ops -> Op] /\ op'[o] = new /\ \A p \in Ops : p # o => op'[p] = op[p]
      /\ \A p \in Ops : /\ op'[p].kind = op[p].kind /\ op'[p].thread = op[p].thread
                        /\ op'[p].before = op[p].before
  BY MovesAt
<1>2. \A p \in Ops : op[p].pc \in {"renamed", "done", "crashed"}
                       => op'[p].pc \in {"renamed", "done", "crashed"}
  <2> SUFFICES ASSUME NEW p \in Ops, op[p].pc \in {"renamed", "done", "crashed"}
               PROVE  op'[p].pc \in {"renamed", "done", "crashed"}
    OBVIOUS
  <2>1. CASE p = o
    BY <1>1, <2>1
  <2>2. CASE p # o
    BY <1>1, <2>2
  <2> QED BY <2>1, <2>2
<1>3. \A p \in Ops : op[p].pc = "done" => op'[p] = op[p]
  BY <1>1
<1>4. ASSUME NEW p \in Ops PROVE CallOK(p)'
  <2>1. CASE p = o
    BY <2>1
  <2>2. CASE p # o
    <3>1. op'[p] = op[p] /\ CallOK(p) /\ op[p].before \subseteq Ops
      BY <1>1, <2>2, OpFields
    <3>2. \A q \in op[p].before : q \in Ops /\ op[q].kind = "save" /\ op[q].pc = "done"
      BY <3>1 DEF CallOK
    <3>3. \A q \in op[p].before : op'[q].kind = "save" /\ op'[q].pc = "done"
      BY <1>3, <3>2
    <3> QED BY <3>1, <3>3 DEF CallOK
  <2> QED BY <2>1, <2>2
<1>5. ASSUME NEW p \in Ops PROVE EntriesOK(p)'
  <2>1. CASE p = o
    BY <2>1
  <2>2. CASE p # o
    <3>1. /\ op'[p] = op[p] /\ EntriesOK(p) /\ op[p].before \subseteq Ops
          /\ op[p].found \subseteq Entry
      BY <1>1, <2>2, OpFields
    <3>2. \A e \in op[p].found : e.by \in Ops
      BY <3>1 DEF Entry
    <3>3. ASSUME NEW q \in Ops PROVE Outdated(q, p)' <=> Outdated(q, p)
      BY <1>1, <3>1 DEF Outdated
    <3>4. /\ \A e \in op[p].found : /\ op'[e.by].pc \in {"renamed", "done", "crashed"}
                                    /\ op'[e.by].thread = e.id
                                    /\ ~Outdated(e.by, p)'
                                    /\ Final(e.id) \notin op[p].todo
      BY <1>1, <1>2, <3>1, <3>2, <3>3 DEF EntriesOK
    <3>5. op[p].kind = "list" /\ op[p].pc \in {"listing", "done"} =>
             \A q \in op[p].before : \/ \E e \in op[p].found : e.id = op'[q].thread
                                     \/ Final(op'[q].thread) \in op[p].todo
      BY <1>1, <3>1 DEF EntriesOK
    <3> QED BY <3>1, <3>4, <3>5 DEF EntriesOK
  <2> QED BY <2>1, <2>2
<1> QED BY <1>1, <1>2, <1>4, <1>5

\* A step that takes a call further, but neither begins it nor puts a version of a
\* thread or a new time into the directory, keeps the invariant if it does so for
\* the call itself and for the temp files.
LEMMA MoveKeeps ==
  ASSUME StoreInv, NEW o \in Ops, NEW new, Moves(o, new),
         op[o].pc \in {"called", "created", "written", "renamed", "listing"},
         new.pc # "idle", new.pc \in {"renamed", "done"} /\ new.kind = "save" => op[o].pc = "renamed",
         op[o].pc = "renamed" => new.pc \in {"done", "crashed"},
         CallOK(o)', EntriesOK(o)', clock' = clock,
         files' \in [Names -> [state : {"absent", "partial", "whole"},
                               by : Ops \cup {NoOp}, at : Nat]],
         \A th \in Threads : files'[Final(th)] = files[Final(th)],
         \A f \in Names : files'[f] # Absent =>
           files[f] # Absent /\ files'[f].by = files[f].by /\ files'[f].at = files[f].at,
         \A e \in new.found : e \in op[o].found \/ Dated(e.by, e.at),
         \A th \in Threads, p \in Ops : TempOK(th, p)'
  PROVE  StoreInv'
<1> USE DEF StoreInv
<1>1. /\ op' \in [Ops -> Op] /\ op'[o] = new /\ \A p \in Ops : p # o => op'[p] = op[p]
      /\ \A p \in Ops : /\ op'[p].kind = op[p].kind /\ op'[p].thread = op[p].thread
                        /\ op'[p].before = op[p].before
  BY MovesAt
<1>2. /\ \A p \in Ops : CallOK(p)' /\ EntriesOK(p)'
      /\ \A p \in Ops : op[p].pc \in {"renamed", "done", "crashed"}
                          => op'[p].pc \in {"renamed", "done", "crashed"}
  BY MoveCalls
<1>3. TypeOK'
  BY <1>1 DEF TypeOK
<1>4. ASSUME NEW th \in Threads PROVE FinalOK(th)'
  BY <1>1, <1>2 DEF FinalOK
<1>5. ASSUME NEW p \in Ops PROVE SavedOK(p)'
  <2>1. SavedOK(p) /\ op[p].thread \in Threads
    BY OpFields
  <2>2. op'[p].pc \in {"renamed", "done"} /\ op'[p].kind = "save" => op[p].pc \in {"renamed", "done"}
    <3>1. CASE p = o
      BY <1>1, <3>1
    <3>2. CASE p # o
      BY <1>1, <3>2
    <3> QED BY <3>1, <3>2
  <2> QED BY <1>1, <2>1, <2>2 DEF SavedOK
<1>6. ASSUME NEW q \in Ops, NEW a \in Nat, Dated(q, a)' PROVE Dated(q, a)
  <2>1. CASE \E f \in Names : files'[f] # Absent /\ files'[f].by = q /\ files'[f].at = a
    BY <2>1 DEF Dated
  <2>2. CASE \E p \in Ops : \E e \in op'[p].found : e.by = q /\ e.at = a
    <3>1. PICK p \in Ops : \E e \in op'[p].found : e.by = q /\ e.at = a
      BY <2>2
    <3>2. CASE p = o
      <4>1. PICK e \in new.found : e.by = q /\ e.at = a
        BY <1>1, <3>1, <3>2
      <4>2. e \in op[o].found \/ Dated(q, a)
        BY <4>1
      <4> QED BY <4>1, <4>2 DEF Dated
    <3>3. CASE p # o
      BY <1>1, <3>1, <3>3 DEF Dated
    <3> QED BY <3>2, <3>3
  <2> QED BY <1>6, <2>1, <2>2 DEF Dated
<1>7. TimesOK'
  <2>1. \A q \in Ops : op[q].pc # "idle" => op'[q].pc # "idle"
    BY <1>1
  <2>2. \A q \in Ops, a \in Nat : Dated(q, a)' => a <= clock /\ op'[q].pc # "idle"
    BY <1>6, <2>1 DEF TimesOK
  <2>3. \A q, p \in Ops, a, b \in Nat :
          Dated(q, a)' /\ Dated(p, b)' /\ q \in op'[p].before => a <= b
    BY <1>1, <1>6 DEF TimesOK
  <2> QED BY <2>2, <2>3 DEF TimesOK
<1> QED BY <1>2, <1>3, <1>4, <1>5, <1>7

\* What the call itself must keep; those before it are over.
LEMMA CallMoves ==
  ASSUME StoreInv, NEW o \in Ops, NEW new, Moves(o, new),
         new.pc \in {"created", "written", "renamed"} => new.kind = "save",
         new.pc = "listing" => new.kind = "list",
         new.why # "" => new.pc = "failed",
         new.kind = "load" => new.why \in {"", "fault"}
  PROVE  CallOK(o)'
<1>1. TypeOK /\ CallOK(o)
  BY DEF StoreInv
<1>2. /\ op'[o] = new /\ op'[o].before = op[o].before
      /\ \A p \in Ops : p # o => op'[p] = op[p]
  BY <1>1, MovesAt
<1>3. /\ o \notin op[o].before
      /\ \A p \in op[o].before : p \in Ops /\ op[p].kind = "save" /\ op[p].pc = "done"
  BY <1>1, OpFields DEF CallOK
<1>4. \A p \in op[o].before : op'[p].kind = "save" /\ op'[p].pc = "done"
  BY <1>2, <1>3
<1> QED BY <1>2, <1>3, <1>4 DEF CallOK

\* A step of one call that leaves the temp files of the others, and keeps its own
\* in order.
LEMMA TempMoves ==
  ASSUME StoreInv, NEW o \in Ops, NEW new, Moves(o, new),
         \A th \in Threads, p \in Ops : p # o => files'[Temp(th, p)] = files[Temp(th, p)],
         \A th \in Threads : TempOK(th, o)'
  PROVE  \A th \in Threads, p \in Ops : TempOK(th, p)'
<1> SUFFICES ASSUME NEW th \in Threads, NEW p \in Ops, p # o PROVE TempOK(th, p)'
  OBVIOUS
<1>1. op'[p] = op[p]
  BY MovesAt DEF StoreInv
<1>2. TempOK(th, p)
  BY DEF StoreInv
<1> QED BY <1>1, <1>2 DEF TempOK

\* A call that ends without success, or with its process, leaves the threads alone
\* and the temp files in order: its own is removed, or was not there, or its
\* process was killed (local.go:123-140).
LEMMA StopKeeps ==
  ASSUME StoreInv, NEW o \in Ops, NEW x \in {"failed", "crashed"}, NEW w,
         w \in {"", "fault", "gone", "parse", "mismatch"},
         op' = [op EXCEPT ![o] = [op[o] EXCEPT !.pc = x, !.why = w, !.todo = {}, !.found = {}]],
         op[o].pc \in {"called", "created", "written", "renamed", "listing"},
         op[o].pc = "renamed" => x = "crashed",
         w # "" => x = "failed",
         op[o].kind = "load" => w \in {"", "fault"},
         clock' = clock,
         \/ files' = files /\ (x = "failed" => op[o].pc \in {"called", "listing"})
         \/ files' = [files EXCEPT ![Temp(op[o].thread, o)] = Absent]
  PROVE  StoreInv'
<1> DEFINE new == [op[o] EXCEPT !.pc = x, !.why = w, !.todo = {}, !.found = {}]
<1>1. /\ op[o] \in Op /\ op[o].thread \in Threads /\ TypeOK
  BY OpFields DEF StoreInv
<1>2. {} \in SUBSET Names /\ {} \in SUBSET Entry
  OBVIOUS
<1>3. new \in Op
  BY <1>1, <1>2 DEF Op
<1>4. /\ new.kind = op[o].kind /\ new.thread = op[o].thread /\ new.before = op[o].before
      /\ new.pc = x /\ new.why = w /\ new.todo = {} /\ new.found = {}
  BY <1>1 DEF Op
<1>5. op' = [op EXCEPT ![o] = new]
  OBVIOUS
<1> HIDE DEF new
<1>6. Moves(o, new)
  BY <1>3, <1>4, <1>5 DEF Moves
<1>7. op'[o] = new
  BY <1>1, <1>6, MovesAt
<1>8. CallOK(o)'
  BY <1>4, <1>6, CallMoves
<1>9. EntriesOK(o)'
  BY <1>4, <1>7 DEF EntriesOK
<1>10. /\ \A f \in Names : files'[f] = files[f] \/ files'[f] = Absent
       /\ files' \in [Names -> [state : {"absent", "partial", "whole"},
                                by : Ops \cup {NoOp}, at : Nat]]
       /\ \A th \in Threads : files'[Final(th)] = files[Final(th)]
       /\ \A th \in Threads, p \in Ops : p # o => files'[Temp(th, p)] = files[Temp(th, p)]
  <2>1. files \in [Names -> [state : {"absent", "partial", "whole"},
                              by : Ops \cup {NoOp}, at : Nat]]
    BY <1>1 DEF TypeOK
  <2>2. CASE files' = files
    BY <2>1, <2>2, Zenon
  <2>3. CASE files' = [files EXCEPT ![Temp(op[o].thread, o)] = Absent]
    <3> DEFINE temp == Temp(op[o].thread, o)
    <3>1. temp \in Names
      BY <1>1, TempApart
    <3>2. /\ \A th \in Threads : Final(th) \in Names /\ Final(th) # temp
          /\ \A th \in Threads, p \in Ops : p # o => Temp(th, p) \in Names /\ Temp(th, p) # temp
      BY <1>1, TempApart
    <3> HIDE DEF temp
    <3>3. /\ files' \in [Names -> [state : {"absent", "partial", "whole"},
                                   by : Ops \cup {NoOp}, at : Nat]]
          /\ \A f \in Names : files'[f] = IF f = temp THEN Absent ELSE files[f]
      BY <2>1, <2>3, InitTypes DEF temp
    <3> QED BY <3>1, <3>2, <3>3
  <2> QED BY <2>2, <2>3
<1>11. ASSUME NEW th \in Threads PROVE TempOK(th, o)'
  <2>1. TempOK(th, o)
    BY DEF StoreInv
  <2>2. ASSUME files'[Temp(th, o)] # Absent
        PROVE  x = "crashed" /\ op[o].thread = th
    <3>1. files'[Temp(th, o)] = files[Temp(th, o)] /\ Temp(th, o) \in Names
      BY <1>10, <2>2, NamesApart
    <3>2. op[o].pc \in {"created", "written", "crashed"} /\ op[o].thread = th
      BY <2>1, <2>2, <3>1 DEF TempOK
    <3>3. files' # [files EXCEPT ![Temp(op[o].thread, o)] = Absent]
      BY <1>1, <2>2, <3>1, <3>2 DEF TypeOK
    <3> QED BY <3>2, <3>3
  <2> QED BY <1>4, <1>7, <2>2 DEF TempOK
<1>12. \A th \in Threads, p \in Ops : TempOK(th, p)'
  BY <1>6, <1>10, <1>11, TempMoves
<1>13. \A f \in Names : files'[f] # Absent =>
         files[f] # Absent /\ files'[f].by = files[f].by /\ files'[f].at = files[f].at
  BY <1>10
<1> QED BY <1>4, <1>6, <1>8, <1>9, <1>10, <1>12, <1>13, MoveKeeps

\* The entries of a list stay in order while other saves go on, and when some that
\* were still to be read are in the list now.
LEMMA EntriesMove ==
  ASSUME StoreInv, NEW o \in Ops, NEW new, Moves(o, new),
         op[o].pc = "listing", new.pc \in {"listing", "done"}, new.kind = "list",
         new.pc = "done" => new.todo = {}, new.todo \subseteq op[o].todo,
         op[o].found \subseteq new.found, new.found \subseteq Entry,
         \A f \in op[o].todo \ new.todo : \A th \in Threads :
           f = Final(th) => \E e \in new.found : e.id = th,
         \A e \in new.found \ op[o].found :
           /\ op[e.by].pc \in {"renamed", "done", "crashed"} /\ op[e.by].thread = e.id
           /\ ~Outdated(e.by, o)
           /\ Final(e.id) \in op[o].todo \ new.todo,
         \A e, f \in new.found \ op[o].found : e = f
  PROVE  EntriesOK(o)'
<1>1. TypeOK /\ EntriesOK(o) /\ CallOK(o) /\ op[o].before \subseteq Ops /\ op[o].kind = "list"
  BY OpFields DEF StoreInv, Moves
<1>2. /\ op'[o] = new /\ \A p \in Ops : p # o => op'[p] = op[p]
      /\ \A p \in Ops : /\ op'[p].kind = op[p].kind /\ op'[p].thread = op[p].thread
                        /\ op'[p].before = op[p].before
  BY <1>1, MovesAt
<1>3. \A e \in new.found : e.by \in Ops
  BY DEF Entry
<1>4. ASSUME NEW q \in Ops PROVE Outdated(q, o)' <=> Outdated(q, o)
  BY <1>1, <1>2 DEF Outdated
<1>5. \A e \in new.found : /\ op[e.by].pc \in {"renamed", "done", "crashed"}
                           /\ op[e.by].thread = e.id
                           /\ ~Outdated(e.by, o)
                           /\ Final(e.id) \notin new.todo
  BY <1>1 DEF EntriesOK
<1>6. \A e \in new.found : /\ op'[e.by].pc \in {"renamed", "done", "crashed"}
                           /\ op'[e.by].thread = e.id
                           /\ ~Outdated(e.by, o)'
                           /\ Final(e.id) \notin new.todo
  BY <1>2, <1>3, <1>4, <1>5
<1>7. \A e, f \in new.found : e.id = f.id => e = f
  <2> SUFFICES ASSUME NEW e \in new.found, NEW f \in new.found, e.id = f.id PROVE e = f
    OBVIOUS
  <2>1. CASE e \in op[o].found /\ f \in op[o].found
    BY <1>1, <2>1 DEF EntriesOK
  <2>2. CASE e \notin op[o].found /\ f \notin op[o].found
    BY <2>2
  <2>3. CASE (e \in op[o].found) # (f \in op[o].found)
    BY <1>1, <2>3 DEF EntriesOK
  <2> QED BY <2>1, <2>2, <2>3
<1>8. \A p \in op[o].before : \/ \E e \in new.found : e.id = op[p].thread
                              \/ Final(op[p].thread) \in new.todo
  <2> SUFFICES ASSUME NEW p \in op[o].before, Final(op[p].thread) \notin new.todo
               PROVE  \E e \in new.found : e.id = op[p].thread
    OBVIOUS
  <2>1. op[p].thread \in Threads
    BY <1>1, OpFields
  <2>2. \/ \E e \in op[o].found : e.id = op[p].thread
        \/ Final(op[p].thread) \in op[o].todo
    BY <1>1 DEF EntriesOK
  <2> QED BY <2>1, <2>2
<1>9. \A p \in new.before : \/ \E e \in new.found : e.id = op'[p].thread
                            \/ Final(op'[p].thread) \in new.todo
  BY <1>1, <1>2, <1>8 DEF Moves
<1> QED BY <1>2, <1>6, <1>7, <1>9 DEF EntriesOK

\* Nor does a call that goes on without touching the directory.
LEMMA QuietKeeps ==
  ASSUME StoreInv, NEW o \in Ops, NEW new, Moves(o, new), UNCHANGED <<files, clock>>,
         op[o].pc \in {"called", "renamed", "listing"}, new.pc \in {"listing", "done"},
         new.pc = "done" /\ new.kind = "save" => op[o].pc = "renamed",
         op[o].pc = "renamed" => new.pc = "done",
         new.pc = "listing" => new.kind = "list", new.why = "", EntriesOK(o)',
         \A e \in new.found : e \in op[o].found \/ Dated(e.by, e.at)
  PROVE  StoreInv'
<1>1. TypeOK /\ files' = files /\ clock' = clock
  BY DEF StoreInv
<1>2. op'[o] = new
  BY <1>1, MovesAt
<1>3. CallOK(o)'
  BY CallMoves
<1>4. ASSUME NEW th \in Threads PROVE TempOK(th, o)'
  <2>1. files[Temp(th, o)] = Absent
    BY DEF StoreInv, TempOK
  <2> QED BY <1>1, <1>2, <2>1 DEF TempOK
<1>5. \A th \in Threads, p \in Ops : TempOK(th, p)'
  BY <1>1, <1>4, TempMoves
<1>6. files' \in [Names -> [state : {"absent", "partial", "whole"},
                            by : Ops \cup {NoOp}, at : Nat]]
  BY <1>1 DEF TypeOK
<1> QED BY <1>1, <1>3, <1>5, <1>6, MoveKeeps

-----------------------------------------------------------------------------
(* One lemma per action *)

\* An operation that reports an error (local.go:83-95, 105-140, 214-257).
LEMMA FailsKeeps ==
  ASSUME StoreInv, NEW o \in Ops, SaveFails(o) \/ LoadFails(o) \/ ListFails(o)
  PROVE  StoreInv'
<1>1. op' = [op EXCEPT ![o] = [op[o] EXCEPT !.pc = "failed", !.why = "fault",
                                            !.todo = {}, !.found = {}]]
  BY DEF SaveFails, LoadFails, ListFails, Fails
<1>2. CASE SaveFails(o)
  BY <1>1, <1>2, StopKeeps DEF SaveFails
<1>3. CASE LoadFails(o) \/ ListFails(o)
  BY <1>1, <1>3, StopKeeps DEF LoadFails, ListFails
<1> QED BY <1>2, <1>3

\* A process that is killed.
LEMMA CrashKeeps ==
  ASSUME StoreInv, NEW o \in Ops, Crash(o)
  PROVE  StoreInv'
<1>1. op[o] \in Op /\ op[o].why = ""
  BY OpFields DEF StoreInv, CallOK, Crash
<1>2. [op[o] EXCEPT !.pc = "crashed", !.todo = {}, !.found = {}]
        = [op[o] EXCEPT !.pc = "crashed", !.why = "", !.todo = {}, !.found = {}]
  BY <1>1 DEF Op
<1>3. op' = [op EXCEPT ![o] = [op[o] EXCEPT !.pc = "crashed", !.why = "",
                                            !.todo = {}, !.found = {}]]
  BY <1>2 DEF Crash
<1> QED BY <1>3, StopKeeps DEF Crash

\* A save that is through (local.go:137-143).
LEMMA SaveReturnsKeeps ==
  ASSUME StoreInv, NEW o \in Ops, SaveReturns(o)
  PROVE  StoreInv'
<1> DEFINE new == [op[o] EXCEPT !.pc = "done"]
<1>1. /\ op[o] \in Op /\ op[o].pc = "renamed" /\ op[o].kind = "save" /\ op[o].why = ""
      /\ op[o].found = {} /\ op[o].todo = {} /\ TypeOK
  BY OpFields DEF StoreInv, CallOK, EntriesOK, SaveReturns
<1>2. /\ new \in Op /\ new.pc = "done" /\ new.kind = "save" /\ new.kind = op[o].kind
      /\ new.thread = op[o].thread /\ new.before = op[o].before /\ new.why = ""
      /\ new.found = {} /\ new.todo = {}
  BY <1>1 DEF Op
<1>3. op' = [op EXCEPT ![o] = new] /\ UNCHANGED <<files, clock>>
  BY DEF SaveReturns, Enters
<1> HIDE DEF new
<1>4. Moves(o, new)
  BY <1>2, <1>3 DEF Moves
<1>5. EntriesOK(o)'
  <2>1. op'[o] = new
    BY <1>1, <1>4, MovesAt
  <2> QED BY <1>2, <2>1 DEF EntriesOK
<1> QED BY <1>1, <1>2, <1>3, <1>4, <1>5, QuietKeeps

\* A load meets no file but a whole one (local.go:69-80).
LEMMA ReadThreadKeeps ==
  ASSUME StoreInv, NEW o \in Ops, ReadThread(o)
  PROVE  StoreInv'
<1> DEFINE file == files[Final(op[o].thread)]
           new == [op[o] EXCEPT !.pc = "done", !.result = file.by]
<1>1. /\ op[o] \in Op /\ op[o].pc = "called" /\ op[o].kind = "load" /\ op[o].why = ""
      /\ op[o].found = {} /\ op[o].todo = {} /\ TypeOK /\ op[o].thread \in Threads
  BY OpFields DEF StoreInv, CallOK, EntriesOK, ReadThread
<1>2. file.state # "partial" /\ file.by \in Ops \cup {NoOp}
  <2>1. FinalOK(op[o].thread) /\ Final(op[o].thread) \in Names
    BY <1>1, NamesApart DEF StoreInv
  <2>2. file.by \in Ops \cup {NoOp}
    BY <1>1, <2>1 DEF TypeOK
  <2> QED BY <2>1, <2>2 DEF FinalOK, Absent
<1>3. op' = [op EXCEPT ![o] = new] /\ UNCHANGED <<files, clock>>
  BY <1>2 DEF ReadThread
<1> HIDE DEF file
<1>4. /\ new \in Op /\ new.pc = "done" /\ new.kind = "load" /\ new.kind = op[o].kind
      /\ new.thread = op[o].thread /\ new.before = op[o].before /\ new.why = ""
      /\ new.found = {} /\ new.todo = {}
  BY <1>1, <1>2 DEF Op
<1> HIDE DEF new
<1>5. Moves(o, new)
  BY <1>3, <1>4 DEF Moves
<1>6. EntriesOK(o)'
  <2>1. op'[o] = new
    BY <1>1, <1>5, MovesAt
  <2> QED BY <1>4, <2>1 DEF EntriesOK
<1> QED BY <1>1, <1>3, <1>4, <1>5, <1>6, QuietKeeps

\* A list reads the directory: every thread saved before is in it
\* (local.go:218-222).
LEMMA ReadDirKeeps ==
  ASSUME StoreInv, NEW o \in Ops, ReadDir(o)
  PROVE  StoreInv'
<1> DEFINE left == {f \in Names : files[f] # Absent}
           new == [op[o] EXCEPT !.pc = "listing", !.todo = left]
<1>1. /\ op[o] \in Op /\ op[o].pc = "called" /\ op[o].kind = "list" /\ op[o].why = ""
      /\ op[o].found = {} /\ TypeOK /\ op[o].before \subseteq Ops
      /\ \A p \in op[o].before : op[p].kind = "save" /\ op[p].pc = "done"
  BY OpFields DEF StoreInv, CallOK, EntriesOK, ReadDir
<1>2. op' = [op EXCEPT ![o] = new] /\ UNCHANGED <<files, clock>>
  BY DEF ReadDir
<1>3. left \subseteq Names
  OBVIOUS
<1>4. \A p \in op[o].before : Final(op[p].thread) \in left
  <2> SUFFICES ASSUME NEW p \in op[o].before PROVE Final(op[p].thread) \in left
    OBVIOUS
  <2>1. p \in Ops /\ op[p].thread \in Threads
    BY <1>1, OpFields
  <2>2. SavedOK(p) /\ Final(op[p].thread) \in Names
    BY <2>1, NamesApart DEF StoreInv
  <2> QED BY <1>1, <2>1, <2>2 DEF SavedOK
<1> HIDE DEF left
<1>5. /\ new \in Op /\ new.pc = "listing" /\ new.kind = "list" /\ new.kind = op[o].kind
      /\ new.thread = op[o].thread /\ new.before = op[o].before /\ new.why = ""
      /\ new.found = {} /\ new.todo = left
  BY <1>1, <1>3 DEF Op
<1> HIDE DEF new
<1>6. Moves(o, new)
  BY <1>2, <1>5 DEF Moves
<1>7. EntriesOK(o)'
  <2>1. op'[o] = new /\ \A p \in Ops : op'[p].thread = op[p].thread
    BY <1>1, <1>6, MovesAt
  <2>2. \A p \in new.before : Final(op'[p].thread) \in new.todo
    BY <1>1, <1>4, <1>5, <2>1
  <2> QED BY <1>5, <2>1, <2>2 DEF EntriesOK
<1> QED BY <1>1, <1>2, <1>5, <1>6, <1>7, QuietKeeps

\* A list that has read every entry (local.go:251-256).
LEMMA ListReturnsKeeps ==
  ASSUME StoreInv, NEW o \in Ops, ListReturns(o)
  PROVE  StoreInv'
<1> DEFINE new == [op[o] EXCEPT !.pc = "done"]
<1>1. /\ op[o] \in Op /\ op[o].pc = "listing" /\ op[o].kind = "list" /\ op[o].why = ""
      /\ op[o].todo = {} /\ TypeOK /\ EntriesOK(o)
  BY OpFields DEF StoreInv, CallOK, ListReturns
<1>2. /\ new \in Op /\ new.pc = "done" /\ new.kind = "list" /\ new.kind = op[o].kind
      /\ new.thread = op[o].thread /\ new.before = op[o].before /\ new.why = ""
      /\ new.found = op[o].found /\ new.todo = {}
  BY <1>1 DEF Op
<1>3. op' = [op EXCEPT ![o] = new] /\ UNCHANGED <<files, clock>>
  BY DEF ListReturns, Enters
<1> HIDE DEF new
<1>4. Moves(o, new)
  BY <1>2, <1>3 DEF Moves
<1>5. EntriesOK(o)'
  <2>1. /\ op[o].todo \ new.todo = {} /\ new.found \ op[o].found = {} /\ new.found \subseteq Entry
        /\ new.todo \subseteq op[o].todo /\ op[o].found \subseteq new.found
    BY <1>1, <1>2, OpFields
  <2>2. /\ \A f \in op[o].todo \ new.todo : \A th \in Threads :
             f = Final(th) => \E e \in new.found : e.id = th
        /\ \A e \in new.found \ op[o].found :
             /\ op[e.by].pc \in {"renamed", "done", "crashed"} /\ op[e.by].thread = e.id
             /\ ~Outdated(e.by, o)
             /\ Final(e.id) \in op[o].todo \ new.todo
        /\ \A e, f \in new.found \ op[o].found : e = f
    BY <2>1
  <2> QED BY <1>1, <1>2, <1>4, <2>1, <2>2, EntriesMove
<1> QED BY <1>1, <1>2, <1>3, <1>4, <1>5, QuietKeeps

\* A list takes an entry: a whole file of a thread, with a version that no save
\* before the list had replaced, or it fails (local.go:223-250).
LEMMA ListEntryKeeps ==
  ASSUME StoreInv, NEW o \in Ops, ListEntry(o)
  PROVE  StoreInv'
<1>1. /\ op[o] \in Op /\ op[o].pc = "listing" /\ op[o].kind = "list" /\ op[o].why = ""
      /\ TypeOK /\ op[o].todo \subseteq Names /\ op[o].found \subseteq Entry
      /\ op[o].before \subseteq Ops
      /\ \A p \in op[o].before : op[p].kind = "save" /\ op[p].pc = "done"
  BY OpFields DEF StoreInv, CallOK, ListEntry
<1>2. PICK f \in op[o].todo :
        IF EntryError(f) # ""
          THEN Fails(o, EntryError(f))
          ELSE op' = [op EXCEPT ![o] =
                        [op[o] EXCEPT !.todo = @ \ {f},
                                      !.found = @ \cup {[id |-> f.id, by |-> files[f].by,
                                                         at |-> files[f].at]}]]
  BY DEF ListEntry
<1>3. /\ f \in Names /\ files[f].state \in {"absent", "partial", "whole"}
      /\ files[f].at \in Nat /\ f.id \in Threads
  BY <1>1, NamesApart DEF TypeOK
<1>4. CASE EntryError(f) # ""
  <2> DEFINE w == EntryError(f)
  <2>1. w \in {"", "fault", "gone", "parse", "mismatch"}
    BY <1>3 DEF EntryError
  <2>2. op' = [op EXCEPT ![o] = [op[o] EXCEPT !.pc = "failed", !.why = w,
                                              !.todo = {}, !.found = {}]]
    BY <1>2, <1>4 DEF Fails
  <2>3. UNCHANGED <<files, clock>>
    BY DEF ListEntry
  <2> HIDE DEF w
  <2> QED BY <1>1, <2>1, <2>2, <2>3, StopKeeps
<1>5. CASE EntryError(f) = ""
  <2> DEFINE entry == [id |-> f.id, by |-> files[f].by, at |-> files[f].at]
             new == [op[o] EXCEPT !.todo = op[o].todo \ {f}, !.found = op[o].found \cup {entry}]
  <2>1. files[f].state = "whole" /\ f.tmp = NoOp
    BY <1>3, <1>5 DEF EntryError
  <2>2. f = Final(f.id) /\ files[f] # Absent
    BY <1>3, <2>1, NamesApart DEF Absent
  <2>3. /\ entry.by \in Ops /\ op[entry.by].kind = "save" /\ op[entry.by].thread = f.id
        /\ op[entry.by].pc \in {"renamed", "done", "crashed"}
    <3>1. FinalOK(f.id)
      BY <1>3 DEF StoreInv
    <3> QED BY <2>2, <3>1 DEF FinalOK
  <2>4. entry \in Entry /\ entry.id = f.id /\ Dated(entry.by, entry.at)
    BY <1>3, <2>2, <2>3 DEF Entry, Dated
  <2>5. ~Outdated(entry.by, o)
    <3> SUFFICES ASSUME NEW p \in op[o].before, op[p].thread = f.id PROVE entry.by \notin op[p].before
      BY <2>3 DEF Outdated
    <3>1. SavedOK(p)
      BY <1>1 DEF StoreInv
    <3> QED BY <1>1, <2>2, <3>1 DEF SavedOK
  <2>6. op' = [op EXCEPT ![o] = new] /\ UNCHANGED <<files, clock>>
    <3>1. op' = [op EXCEPT ![o] = new]
      BY <1>2, <1>5
    <3> QED BY <3>1 DEF ListEntry
  <2> HIDE DEF entry
  <2>7. /\ new \in Op /\ new.pc = "listing" /\ new.kind = "list" /\ new.kind = op[o].kind
        /\ new.thread = op[o].thread /\ new.before = op[o].before /\ new.why = ""
        /\ new.found = op[o].found \cup {entry} /\ new.todo = op[o].todo \ {f}
    <3>1. op[o].found \cup {entry} \in SUBSET Entry /\ op[o].todo \ {f} \in SUBSET Names
      BY <1>1, <2>4
    <3> QED BY <1>1, <3>1 DEF Op
  <2> HIDE DEF new
  <2>8. Moves(o, new)
    BY <2>6, <2>7 DEF Moves
  <2>9. EntriesOK(o)'
    <3>1. /\ op[o].todo \ new.todo = {f} /\ \A e \in new.found \ op[o].found : e = entry
          /\ new.found \subseteq Entry /\ new.todo \subseteq op[o].todo
          /\ op[o].found \subseteq new.found /\ entry \in new.found
      BY <1>1, <2>4, <2>7
    <3>2. \A g \in op[o].todo \ new.todo : \A th \in Threads :
            g = Final(th) => \E e \in new.found : e.id = th
      BY <1>3, <2>2, <2>4, <3>1, NamesApart
    <3>3. \A e \in new.found \ op[o].found :
            /\ op[e.by].pc \in {"renamed", "done", "crashed"} /\ op[e.by].thread = e.id
            /\ ~Outdated(e.by, o)
            /\ Final(e.id) \in op[o].todo \ new.todo
      <4> SUFFICES /\ op[entry.by].pc \in {"renamed", "done", "crashed"}
                   /\ op[entry.by].thread = entry.id /\ ~Outdated(entry.by, o)
                   /\ Final(entry.id) \in op[o].todo \ new.todo
        BY <3>1
      <4> QED BY <2>2, <2>3, <2>4, <2>5, <3>1
    <3>4. \A e, g \in new.found \ op[o].found : e = g
      BY <3>1
    <3> QED BY <1>1, <2>7, <2>8, <3>1, <3>2, <3>3, <3>4, EntriesMove
  <2>10. \A e \in new.found : e \in op[o].found \/ Dated(e.by, e.at)
    BY <2>4, <2>7
  <2> QED BY <1>1, <2>6, <2>7, <2>8, <2>9, <2>10, QuietKeeps
<1> QED BY <1>4, <1>5

\* The temp file gets its content (local.go:129-136).
LEMMA WriteKeeps ==
  ASSUME StoreInv, NEW o \in Ops, Write(o)
  PROVE  StoreInv'
<1> DEFINE new  == [op[o] EXCEPT !.pc = "written"]
           temp == Temp(op[o].thread, o)
<1>1. /\ op[o] \in Op /\ op[o].pc = "created" /\ op[o].kind = "save" /\ op[o].why = ""
      /\ op[o].found = {} /\ op[o].todo = {} /\ TypeOK /\ op[o].thread \in Threads
  BY OpFields DEF StoreInv, CallOK, EntriesOK, Write
<1>2. /\ new \in Op /\ new.pc = "written" /\ new.kind = "save" /\ new.kind = op[o].kind
      /\ new.thread = op[o].thread /\ new.before = op[o].before /\ new.why = ""
      /\ new.found = {} /\ new.todo = {}
  BY <1>1 DEF Op
<1>3. op' = [op EXCEPT ![o] = new] /\ clock' = clock
  BY DEF Write, Enters
<1> HIDE DEF new
<1>4. Moves(o, new)
  BY <1>2, <1>3 DEF Moves
<1>5. op'[o] = new
  BY <1>1, <1>4, MovesAt
<1>6. EntriesOK(o)' /\ CallOK(o)'
  BY <1>2, <1>4, <1>5, CallMoves DEF EntriesOK
<1>7. /\ temp \in Names /\ \A th \in Threads : Final(th) \in Names /\ Final(th) # temp
      /\ \A th \in Threads, p \in Ops : Temp(th, p) \in Names /\ (p # o => Temp(th, p) # temp)
      /\ \A th \in Threads : th # op[o].thread => Temp(th, o) # temp
  BY <1>1, TempApart
<1>8. files[temp].by = o /\ files[temp] # Absent
  <2>1. TempOK(op[o].thread, o)
    BY <1>1 DEF StoreInv
  <2>2. files[temp].by = o
    BY <1>1, <2>1 DEF TempOK
  <2> QED BY <2>2, StoreAssumption DEF Absent
<1> HIDE DEF temp
<1>9. /\ files' = [files EXCEPT ![temp] = [files[temp] EXCEPT !.state = "whole"]]
      /\ files \in [Names -> [state : {"absent", "partial", "whole"},
                              by : Ops \cup {NoOp}, at : Nat]]
  BY <1>1 DEF Write, TypeOK, temp
<1> DEFINE full == [files[temp] EXCEPT !.state = "whole"]
<1>10. /\ full \in [state : {"absent", "partial", "whole"}, by : Ops \cup {NoOp}, at : Nat]
       /\ full.state = "whole" /\ full.by = o /\ full.at = files[temp].at
  BY <1>7, <1>8, <1>9
<1> HIDE DEF full
<1>11. /\ files' \in [Names -> [state : {"absent", "partial", "whole"},
                                by : Ops \cup {NoOp}, at : Nat]]
       /\ \A f \in Names : files'[f] = IF f = temp THEN full ELSE files[f]
  BY <1>9, <1>10 DEF full
<1>12. \A f \in Names : files'[f] # Absent =>
         files[f] # Absent /\ files'[f].by = files[f].by /\ files'[f].at = files[f].at
  BY <1>7, <1>8, <1>10, <1>11
<1>13. ASSUME NEW th \in Threads PROVE TempOK(th, o)'
  <2>1. CASE th = op[o].thread
    BY <1>2, <1>5, <1>7, <1>10, <1>11, <2>1 DEF TempOK, temp
  <2>2. CASE th # op[o].thread
    <3>1. files'[Temp(th, o)] = files[Temp(th, o)] /\ TempOK(th, o)
      BY <1>7, <1>11, <2>2 DEF StoreInv
    <3> QED BY <1>2, <1>5, <2>2, <3>1 DEF TempOK
  <2> QED BY <2>1, <2>2
<1>14. \A th \in Threads, p \in Ops : TempOK(th, p)'
  BY <1>4, <1>7, <1>11, <1>13, TempMoves
<1> QED BY <1>1, <1>2, <1>3, <1>4, <1>6, <1>7, <1>11, <1>12, <1>14, MoveKeeps

\* A call begins: nothing in the directory or in a list is of it.
LEMMA BeginKeeps ==
  ASSUME StoreInv, NEW o \in Ops, Begin(o)
  PROVE  StoreInv'
<1> DEFINE before == {p \in Ops : op[p].kind = "save" /\ op[p].pc = "done"}
<1>1. /\ op[o] \in Op /\ op[o].pc = "idle" /\ op[o].why = "" /\ op[o].found = {}
      /\ op[o].todo = {} /\ TypeOK /\ op \in [Ops -> Op]
  BY OpFields DEF StoreInv, CallOK, EntriesOK, Begin, TypeOK
<1>2. PICK kind \in {"save", "load", "list"}, th \in Threads :
        op' = [op EXCEPT ![o] = [op[o] EXCEPT !.pc = "called", !.kind = kind,
                                              !.thread = th, !.before = before]]
  BY DEF Begin
<1> DEFINE new == [op[o] EXCEPT !.pc = "called", !.kind = kind, !.thread = th,
                                !.before = before]
<1>3. before \subseteq Ops /\ o \notin before
  BY <1>1
<1>4. \A p \in before : p \in Ops /\ op[p].kind = "save" /\ op[p].pc = "done"
  OBVIOUS
<1> HIDE DEF before
<1>5. /\ new \in Op /\ new.pc = "called" /\ new.before = before /\ new.why = ""
      /\ new.found = {} /\ new.todo = {}
  BY <1>1, <1>3 DEF Op
<1> HIDE DEF new
<1>6. /\ op' \in [Ops -> Op] /\ op'[o] = new /\ \A p \in Ops : p # o => op'[p] = op[p]
  BY <1>1, <1>2, <1>5 DEF new
<1>7. files' = files /\ clock' = clock
  BY DEF Begin
<1>8. \A p \in Ops : op[p].pc # "idle" => op'[p] = op[p] /\ p # o
  BY <1>1, <1>6
<1>9. TypeOK'
  BY <1>1, <1>6, <1>7 DEF TypeOK
<1>10. ASSUME NEW p \in Ops PROVE CallOK(p)'
  <2>1. CASE p = o
    <3>1. \A q \in before : op'[q].kind = "save" /\ op'[q].pc = "done"
      BY <1>4, <1>8
    <3> QED BY <1>3, <1>5, <1>6, <2>1, <3>1 DEF CallOK
  <2>2. CASE p # o
    <3>1. op'[p] = op[p] /\ CallOK(p) /\ op[p].before \subseteq Ops
      BY <1>1, <1>6, <2>2, OpFields DEF StoreInv
    <3>2. \A q \in op[p].before : q \in Ops /\ op[q].kind = "save" /\ op[q].pc = "done"
      BY <3>1 DEF CallOK
    <3>3. \A q \in op[p].before : op'[q].kind = "save" /\ op'[q].pc = "done"
      BY <1>8, <3>2
    <3> QED BY <3>1, <3>3 DEF CallOK
  <2> QED BY <2>1, <2>2
<1>11. ASSUME NEW u \in Threads, NEW p \in Ops PROVE TempOK(u, p)'
  <2>1. TempOK(u, p)
    BY DEF StoreInv
  <2>2. CASE p = o
    BY <1>1, <1>5, <1>6, <1>7, <2>1, <2>2 DEF TempOK
  <2>3. CASE p # o
    BY <1>6, <1>7, <2>1, <2>3 DEF TempOK
  <2> QED BY <2>2, <2>3
<1>12. ASSUME NEW u \in Threads PROVE FinalOK(u)'
  <2>1. FinalOK(u)
    BY DEF StoreInv
  <2>2. \A p \in Ops : op[p].pc \in {"renamed", "done", "crashed"} => op'[p] = op[p]
    BY <1>8
  <2> QED BY <1>7, <2>1, <2>2 DEF FinalOK
<1>13. ASSUME NEW p \in Ops PROVE SavedOK(p)'
  <2>1. SavedOK(p)
    BY DEF StoreInv
  <2>2. CASE p = o
    BY <1>5, <1>6, <2>2 DEF SavedOK
  <2>3. CASE p # o
    BY <1>6, <1>7, <2>1, <2>3 DEF SavedOK
  <2> QED BY <2>2, <2>3
<1>14. ASSUME NEW p \in Ops PROVE EntriesOK(p)'
  <2>1. CASE p = o
    BY <1>5, <1>6, <2>1 DEF EntriesOK
  <2>2. CASE p # o
    <3>1. /\ op'[p] = op[p] /\ EntriesOK(p) /\ CallOK(p) /\ op[p].before \subseteq Ops
          /\ op[p].found \subseteq Entry
      BY <1>1, <1>6, <2>2, OpFields DEF StoreInv
    <3>2. \A q \in op[p].before : q \in Ops /\ op[q].pc = "done"
      BY <3>1 DEF CallOK
    <3>3. \A q \in op[p].before : op'[q] = op[q]
      BY <1>8, <3>2
    <3>4. \A e \in op[p].found : e.by \in Ops /\ op[e.by].pc \in {"renamed", "done", "crashed"}
      BY <3>1 DEF Entry, EntriesOK
    <3>5. \A e \in op[p].found : op'[e.by] = op[e.by]
      BY <1>8, <3>4
    <3>6. \A e \in op[p].found : Outdated(e.by, p)' <=> Outdated(e.by, p)
      BY <3>1, <3>3, <3>5 DEF Outdated
    <3>7. \A e \in op[p].found : /\ op'[e.by].pc \in {"renamed", "done", "crashed"}
                                 /\ op'[e.by].thread = e.id
                                 /\ ~Outdated(e.by, p)'
                                 /\ Final(e.id) \notin op[p].todo
      BY <3>1, <3>5, <3>6 DEF EntriesOK
    <3>8. op[p].kind = "list" /\ op[p].pc \in {"listing", "done"} =>
             \A q \in op[p].before : \/ \E e \in op[p].found : e.id = op'[q].thread
                                     \/ Final(op'[q].thread) \in op[p].todo
      BY <3>1, <3>3 DEF EntriesOK
    <3> QED BY <3>1, <3>7, <3>8 DEF EntriesOK
  <2> QED BY <2>1, <2>2
<1>15. ASSUME NEW q \in Ops, NEW a \in Nat, Dated(q, a)' PROVE Dated(q, a)
  <2>1. \A p \in Ops : op'[p].found = op[p].found
    BY <1>1, <1>5, <1>6
  <2> QED BY <1>7, <1>15, <2>1 DEF Dated
<1>16. TimesOK'
  <2>1. TimesOK
    BY DEF StoreInv
  <2>2. \A q \in Ops, a \in Nat : Dated(q, a)' => a <= clock /\ op'[q].pc # "idle"
    BY <1>8, <1>15, <2>1 DEF TimesOK
  <2>3. ASSUME NEW q \in Ops, NEW p \in Ops, NEW a \in Nat, NEW b \in Nat,
               Dated(q, a)', Dated(p, b)', q \in op'[p].before
        PROVE  a <= b
    <3>1. Dated(q, a) /\ Dated(p, b) /\ op[p].pc # "idle"
      BY <1>15, <2>1, <2>3 DEF TimesOK
    <3>2. q \in op[p].before
      BY <1>8, <2>3, <3>1
    <3> QED BY <2>1, <3>1, <3>2 DEF TimesOK
  <2> QED BY <1>7, <2>2, <2>3 DEF TimesOK
<1> QED BY <1>9, <1>10, <1>11, <1>12, <1>13, <1>14, <1>16 DEF StoreInv

\* A save takes its time and creates its temp file (local.go:96-128).
LEMMA CreateTempKeeps ==
  ASSUME StoreInv, NEW o \in Ops, CreateTemp(o)
  PROVE  StoreInv'
<1> DEFINE new  == [op[o] EXCEPT !.pc = "created"]
           temp == Temp(op[o].thread, o)
           file == [state |-> "partial", by |-> o, at |-> clock']
<1>1. /\ op[o] \in Op /\ op[o].pc = "called" /\ op[o].kind = "save" /\ op[o].why = ""
      /\ op[o].found = {} /\ op[o].todo = {} /\ TypeOK /\ op[o].thread \in Threads
      /\ clock' \in Nat
  <2>1. op[o].pc = "called" /\ op[o].kind = "save" /\ TypeOK
    BY DEF StoreInv, CreateTemp
  <2>2. op[o].why = "" /\ op[o].found = {} /\ op[o].todo = {}
    BY <2>1 DEF StoreInv, CallOK, EntriesOK
  <2>3. clock' \in Nat
    BY <2>1 DEF TypeOK, CreateTemp
  <2> QED BY <2>1, <2>2, <2>3, OpFields
<1>2. /\ new \in Op /\ new.pc = "created" /\ new.kind = "save" /\ new.kind = op[o].kind
      /\ new.thread = op[o].thread /\ new.before = op[o].before /\ new.why = ""
      /\ new.found = {} /\ new.todo = {}
  BY <1>1 DEF Op
<1>3. op' = [op EXCEPT ![o] = new]
  BY DEF CreateTemp, Enters
<1> HIDE DEF new
<1>4. Moves(o, new)
  BY <1>2, <1>3 DEF Moves
<1>5. /\ op'[o] = new /\ \A p \in Ops : p # o => op'[p] = op[p]
      /\ \A p \in Ops : op'[p].kind = op[p].kind /\ op'[p].thread = op[p].thread
                        /\ op'[p].before = op[p].before
  BY <1>1, <1>4, MovesAt
<1>6. EntriesOK(o)' /\ CallOK(o)'
  BY <1>2, <1>4, <1>5, CallMoves DEF EntriesOK
<1>7. /\ op' \in [Ops -> Op] /\ \A p \in Ops : CallOK(p)' /\ EntriesOK(p)'
      /\ \A p \in Ops : op[p].pc \in {"renamed", "done", "crashed"}
                          => op'[p].pc \in {"renamed", "done", "crashed"}
  BY <1>1, <1>4, <1>6, MoveCalls
<1>8. /\ temp \in Names /\ \A th \in Threads : Final(th) \in Names /\ Final(th) # temp
      /\ \A th \in Threads, p \in Ops : Temp(th, p) \in Names /\ (p # o => Temp(th, p) # temp)
      /\ \A th \in Threads : th # op[o].thread => Temp(th, o) # temp
  BY <1>1, TempApart
<1>9. /\ file.state = "partial" /\ file.by = o /\ file.at = clock' /\ file # Absent
      /\ file \in [state : {"absent", "partial", "whole"}, by : Ops \cup {NoOp}, at : Nat]
  <2>1. file.state # Absent.state
    BY DEF Absent
  <2> QED BY <1>1, <2>1
<1>10. files' = [files EXCEPT ![temp] = file]
  BY DEF CreateTemp
<1> HIDE DEF file, temp
<1>11. /\ files' \in [Names -> [state : {"absent", "partial", "whole"},
                                by : Ops \cup {NoOp}, at : Nat]]
       /\ \A f \in Names : files'[f] = IF f = temp THEN file ELSE files[f]
  BY <1>1, <1>9, <1>10 DEF TypeOK
<1>12. TypeOK'
  BY <1>1, <1>7, <1>11 DEF TypeOK
<1>13. ASSUME NEW th \in Threads PROVE TempOK(th, o)'
  <2>1. CASE th = op[o].thread
    <3>1. files'[Temp(th, o)] = file
      BY <1>8, <1>11, <2>1 DEF temp
    <3> QED BY <1>2, <1>5, <1>9, <2>1, <3>1 DEF TempOK
  <2>2. CASE th # op[o].thread
    <3>1. files'[Temp(th, o)] = files[Temp(th, o)] /\ TempOK(th, o)
      BY <1>8, <1>11, <2>2 DEF StoreInv
    <3> QED BY <1>1, <1>2, <1>5, <2>2, <3>1 DEF TempOK
  <2> QED BY <2>1, <2>2
<1>14. \A th \in Threads, p \in Ops : TempOK(th, p)'
  <2>1. \A th \in Threads, p \in Ops : p # o => files'[Temp(th, p)] = files[Temp(th, p)]
    BY <1>8, <1>11
  <2> QED BY <1>4, <1>13, <2>1, TempMoves
<1>15. \A th \in Threads : files'[Final(th)] = files[Final(th)]
  BY <1>8, <1>11
<1>16. ASSUME NEW th \in Threads PROVE FinalOK(th)'
  BY <1>5, <1>7, <1>15 DEF FinalOK, StoreInv
<1>17. ASSUME NEW p \in Ops PROVE SavedOK(p)'
  <2>1. SavedOK(p) /\ op[p].thread \in Threads
    BY <1>1, OpFields DEF StoreInv
  <2>2. CASE p = o
    BY <1>2, <1>5, <2>2 DEF SavedOK
  <2>3. CASE p # o
    BY <1>5, <1>15, <2>1, <2>3 DEF SavedOK
  <2> QED BY <2>2, <2>3
<1>18. ASSUME NEW q \in Ops, NEW a \in Nat, Dated(q, a)'
       PROVE  Dated(q, a) \/ (q = o /\ a = clock')
  <2>1. CASE \E f \in Names : files'[f] # Absent /\ files'[f].by = q /\ files'[f].at = a
    <3>1. PICK f \in Names : files'[f] # Absent /\ files'[f].by = q /\ files'[f].at = a
      BY <2>1
    <3>2. CASE f = temp
      BY <1>9, <1>11, <3>1, <3>2
    <3>3. CASE f # temp
      BY <1>11, <3>1, <3>3 DEF Dated
    <3> QED BY <3>2, <3>3
  <2>2. CASE \E p \in Ops : \E e \in op'[p].found : e.by = q /\ e.at = a
    <3>1. \A p \in Ops : op'[p].found = op[p].found
      BY <1>1, <1>2, <1>5
    <3> QED BY <2>2, <3>1 DEF Dated
  <2> QED BY <1>18, <2>1, <2>2 DEF Dated
<1>19. TimesOK'
  <2>1. TimesOK /\ \A p \in Ops : o \notin op[p].before
    <3>1. \A p \in Ops : CallOK(p)
      BY DEF StoreInv
    <3> QED BY <1>1, <3>1 DEF StoreInv, CallOK
  <2>2. \A q \in Ops : op[q].pc # "idle" => op'[q].pc # "idle"
    BY <1>2, <1>5
  <2>3. \A a \in Nat : a <= clock => a <= clock'
    <3>1. clock \in Nat /\ (clock' = clock \/ clock' = clock + 1)
      BY <1>1 DEF TypeOK, CreateTemp
    <3> QED BY <3>1
  <2>4. \A q \in Ops, a \in Nat : Dated(q, a) => a <= clock'
    BY <2>1, <2>3 DEF TimesOK
  <2>5. \A q \in Ops, a \in Nat : Dated(q, a)' => a <= clock' /\ op'[q].pc # "idle"
    <3> SUFFICES ASSUME NEW q \in Ops, NEW a \in Nat, Dated(q, a)'
                 PROVE  a <= clock' /\ op'[q].pc # "idle"
      OBVIOUS
    <3>1. CASE Dated(q, a)
      BY <2>1, <2>2, <2>4, <3>1 DEF TimesOK
    <3>2. CASE q = o /\ a = clock'
      <4>1. op'[o].pc = "created"
        BY <1>2, <1>5
      <4>2. a <= a
        OBVIOUS
      <4> QED BY <3>2, <4>1, <4>2
    <3> QED BY <1>18, <3>1, <3>2
  <2>6. ASSUME NEW q \in Ops, NEW p \in Ops, NEW a \in Nat, NEW b \in Nat,
               Dated(q, a)', Dated(p, b)', q \in op'[p].before
        PROVE  a <= b
    <3>1. q \in op[p].before /\ q # o
      BY <1>5, <2>1, <2>6
    <3>2. Dated(q, a)
      BY <1>18, <2>6, <3>1
    <3>3. CASE Dated(p, b)
      BY <2>1, <3>1, <3>2, <3>3 DEF TimesOK
    <3>4. CASE b = clock'
      BY <2>4, <3>2, <3>4
    <3> QED BY <1>18, <2>6, <3>3, <3>4
  <2> QED BY <2>5, <2>6 DEF TimesOK
<1> QED BY <1>7, <1>12, <1>14, <1>16, <1>17, <1>19 DEF StoreInv

\* The temp file becomes the thread, in place of what was there (local.go:137-140).
LEMMA RenameKeeps ==
  ASSUME StoreInv, NEW o \in Ops, Rename(o)
  PROVE  StoreInv'
<1> DEFINE new   == [op[o] EXCEPT !.pc = "renamed"]
           temp  == Temp(op[o].thread, o)
           final == Final(op[o].thread)
<1>1. /\ op[o] \in Op /\ op[o].pc = "written" /\ op[o].kind = "save" /\ op[o].why = ""
      /\ op[o].found = {} /\ op[o].todo = {} /\ TypeOK /\ op[o].thread \in Threads
      /\ o \notin op[o].before
  BY OpFields DEF StoreInv, CallOK, EntriesOK, Rename
<1>2. /\ new \in Op /\ new.pc = "renamed" /\ new.kind = "save" /\ new.kind = op[o].kind
      /\ new.thread = op[o].thread /\ new.before = op[o].before /\ new.why = ""
      /\ new.found = {} /\ new.todo = {}
  BY <1>1 DEF Op
<1>3. op' = [op EXCEPT ![o] = new] /\ clock' = clock
  BY DEF Rename, Enters
<1> HIDE DEF new
<1>4. Moves(o, new)
  BY <1>2, <1>3 DEF Moves
<1>5. /\ op'[o] = new /\ \A p \in Ops : p # o => op'[p] = op[p]
      /\ \A p \in Ops : op'[p].kind = op[p].kind /\ op'[p].thread = op[p].thread
                        /\ op'[p].before = op[p].before
  BY <1>1, <1>4, MovesAt
<1>6. EntriesOK(o)' /\ CallOK(o)'
  BY <1>2, <1>4, <1>5, CallMoves DEF EntriesOK
<1>7. /\ op' \in [Ops -> Op] /\ \A p \in Ops : CallOK(p)' /\ EntriesOK(p)'
      /\ \A p \in Ops : op[p].pc \in {"renamed", "done", "crashed"}
                          => op'[p].pc \in {"renamed", "done", "crashed"}
  BY <1>1, <1>4, <1>6, MoveCalls
<1>8. /\ temp \in Names /\ \A th \in Threads : Final(th) \in Names /\ Final(th) # temp
      /\ \A th \in Threads, p \in Ops : Temp(th, p) \in Names /\ (p # o => Temp(th, p) # temp)
      /\ \A th \in Threads : th # op[o].thread => Temp(th, o) # temp
  BY <1>1, TempApart
<1>9. /\ final \in Names /\ final # temp
      /\ \A th \in Threads : th # op[o].thread => Final(th) # final
      /\ \A th \in Threads, p \in Ops : Temp(th, p) # final
  BY <1>1, FinalApart
<1>10. /\ files[temp].by = o /\ files[temp].state = "whole" /\ files[temp] # Absent
  <2>1. TempOK(op[o].thread, o)
    BY <1>1 DEF StoreInv
  <2>2. files[temp].by = o /\ files[temp].state = "whole"
    BY <1>1, <2>1 DEF TempOK
  <2> QED BY <2>2, StoreAssumption DEF Absent
<1>11. files' = [files EXCEPT ![final] = files[temp], ![temp] = Absent]
  BY DEF Rename
<1> HIDE DEF temp, final
<1>12. /\ files' \in [Names -> [state : {"absent", "partial", "whole"},
                                by : Ops \cup {NoOp}, at : Nat]]
       /\ files'[final] = files[temp] /\ files'[temp] = Absent
       /\ \A f \in Names : f # temp /\ f # final => files'[f] = files[f]
  BY <1>1, <1>8, <1>9, <1>11, InitTypes DEF TypeOK
<1>13. TypeOK'
  BY <1>1, <1>3, <1>7, <1>12 DEF TypeOK
<1>14. ASSUME NEW th \in Threads PROVE TempOK(th, o)'
  <2>1. files'[Temp(th, o)] = Absent
    <3>1. CASE th = op[o].thread
      BY <1>12, <3>1 DEF temp
    <3>2. CASE th # op[o].thread
      <4>1. files'[Temp(th, o)] = files[Temp(th, o)] /\ TempOK(th, o)
        BY <1>8, <1>9, <1>12, <3>2 DEF StoreInv
      <4> QED BY <3>2, <4>1 DEF TempOK
    <3> QED BY <3>1, <3>2
  <2> QED BY <1>2, <1>5, <2>1 DEF TempOK
<1>15. \A th \in Threads, p \in Ops : TempOK(th, p)'
  <2>1. \A th \in Threads, p \in Ops : p # o => files'[Temp(th, p)] = files[Temp(th, p)]
    BY <1>8, <1>9, <1>12
  <2> QED BY <1>4, <1>14, <2>1, TempMoves
<1>16. \A th \in Threads : th # op[o].thread => files'[Final(th)] = files[Final(th)]
  BY <1>8, <1>9, <1>12
<1>17. files'[Final(op[o].thread)] = files[temp]
  BY <1>12 DEF final
<1>18. ASSUME NEW th \in Threads PROVE FinalOK(th)'
  <2>1. CASE th = op[o].thread
    BY <1>2, <1>5, <1>10, <1>17, <2>1 DEF FinalOK
  <2>2. CASE th # op[o].thread
    BY <1>5, <1>7, <1>16, <2>2 DEF FinalOK, StoreInv
  <2> QED BY <2>1, <2>2
<1>19. ASSUME NEW p \in Ops PROVE SavedOK(p)'
  <2>1. SavedOK(p) /\ op[p].thread \in Threads /\ o \notin op[p].before
    <3>1. CallOK(p)
      BY DEF StoreInv
    <3>2. o \notin op[p].before
      BY <1>1, <3>1 DEF CallOK
    <3> QED BY <1>1, <3>2, OpFields DEF StoreInv
  <2>2. CASE op[p].thread = op[o].thread
    BY <1>5, <1>10, <1>17, <2>1, <2>2 DEF SavedOK
  <2>3. CASE op[p].thread # op[o].thread
    <3>1. p # o
      BY <2>3
    <3> QED BY <1>5, <1>16, <2>1, <2>3, <3>1 DEF SavedOK
  <2> QED BY <2>2, <2>3
<1>20. ASSUME NEW q \in Ops, NEW a \in Nat, Dated(q, a)' PROVE Dated(q, a)
  <2>1. \A p \in Ops : op'[p].found = op[p].found
    BY <1>1, <1>2, <1>5
  <2>2. \A f \in Names : files'[f] # Absent =>
          \E g \in Names : files[g] = files'[f] /\ files[g] # Absent
    BY <1>8, <1>9, <1>10, <1>12
  <2> QED BY <1>20, <2>1, <2>2 DEF Dated
<1>21. TimesOK'
  <2>1. TimesOK
    BY DEF StoreInv
  <2>2. \A q \in Ops : op[q].pc # "idle" => op'[q].pc # "idle"
    BY <1>2, <1>5
  <2>3. \A q \in Ops, a \in Nat : Dated(q, a)' => a <= clock /\ op'[q].pc # "idle"
    BY <1>20, <2>1, <2>2 DEF TimesOK
  <2>4. \A q, p \in Ops, a, b \in Nat :
          Dated(q, a)' /\ Dated(p, b)' /\ q \in op'[p].before => a <= b
    BY <1>5, <1>20, <2>1 DEF TimesOK
  <2> QED BY <1>3, <2>3, <2>4 DEF TimesOK
<1> QED BY <1>7, <1>13, <1>15, <1>18, <1>19, <1>21 DEF StoreInv

-----------------------------------------------------------------------------
(* The invariant holds *)

\* The invariant holds at first: the directory is empty and nothing is called.
LEMMA InitStoreInv == Init => StoreInv
<1> SUFFICES ASSUME Init PROVE StoreInv
  OBVIOUS
<1>1. /\ \A f \in Names : files[f] = Absent
      /\ \A o \in Ops : op[o] = NewOp
      /\ clock = 0 /\ 0 \in Nat
  BY DEF Init
<1>2. NewOp.pc = "idle" /\ NewOp.kind = "list" /\ NewOp.why = "" /\ NewOp.before = {}
      /\ NewOp.todo = {} /\ NewOp.found = {}
  BY DEF NewOp
<1>3. TypeOK
  <2>1. files = [f \in Names |-> Absent] /\ op = [o \in Ops |-> NewOp]
    BY DEF Init
  <2> QED BY <1>1, <2>1, InitTypes DEF TypeOK
<1>4. \A o \in Ops : CallOK(o)
  BY <1>1, <1>2 DEF CallOK
<1>5. \A th \in Threads, o \in Ops : TempOK(th, o)
  BY <1>1, <1>2, NamesApart DEF TempOK
<1>6. \A th \in Threads : FinalOK(th)
  BY <1>1, NamesApart DEF FinalOK
<1>7. \A o \in Ops : SavedOK(o)
  BY <1>1, <1>2 DEF SavedOK
<1>8. \A o \in Ops : EntriesOK(o)
  BY <1>1, <1>2 DEF EntriesOK
<1>9. \A q \in Ops, a \in Nat : ~Dated(q, a)
  BY <1>1, <1>2 DEF Dated
<1>10. TimesOK
  BY <1>9 DEF TimesOK
<1> QED BY <1>3, <1>4, <1>5, <1>6, <1>7, <1>8, <1>10 DEF StoreInv

\* Every step keeps the invariant.
LEMMA NextStoreInv == StoreInv /\ [Next]_vars => StoreInv'
<1> SUFFICES ASSUME StoreInv, [Next]_vars PROVE StoreInv'
  OBVIOUS
<1>1. CASE UNCHANGED vars
  <2>1. files' = files /\ op' = op /\ clock' = clock
    BY <1>1 DEF vars
  <2>2. TypeOK' /\ \A o \in Ops : CallOK(o)'
    BY <2>1 DEF StoreInv, TypeOK, CallOK
  <2>3. (\A th \in Threads, o \in Ops : TempOK(th, o)') /\ \A th \in Threads : FinalOK(th)'
    BY <2>1 DEF StoreInv, TempOK, FinalOK
  <2>4. \A o \in Ops : SavedOK(o)'
    BY <2>1 DEF StoreInv, SavedOK
  <2>5. \A o \in Ops : EntriesOK(o)'
    BY <2>1 DEF StoreInv, EntriesOK, Outdated
  <2>6. TimesOK'
    <3>1. \A q \in Ops, a \in Nat : Dated(q, a)' <=> Dated(q, a)
      BY <2>1 DEF Dated
    <3> QED BY <2>1, <3>1 DEF StoreInv, TimesOK
  <2> QED BY <2>2, <2>3, <2>4, <2>5, <2>6 DEF StoreInv
<1>2. ASSUME NEW o \in Ops, Begin(o) PROVE StoreInv'
  BY <1>2, BeginKeeps
<1>3. ASSUME NEW o \in Ops, CreateTemp(o) PROVE StoreInv'
  BY <1>3, CreateTempKeeps
<1>4. ASSUME NEW o \in Ops, Write(o) PROVE StoreInv'
  BY <1>4, WriteKeeps
<1>5. ASSUME NEW o \in Ops, Rename(o) PROVE StoreInv'
  BY <1>5, RenameKeeps
<1>6. ASSUME NEW o \in Ops, SaveReturns(o) PROVE StoreInv'
  BY <1>6, SaveReturnsKeeps
<1>7. ASSUME NEW o \in Ops, SaveFails(o) \/ LoadFails(o) \/ ListFails(o) PROVE StoreInv'
  BY <1>7, FailsKeeps
<1>8. ASSUME NEW o \in Ops, ReadThread(o) PROVE StoreInv'
  BY <1>8, ReadThreadKeeps
<1>9. ASSUME NEW o \in Ops, ReadDir(o) PROVE StoreInv'
  BY <1>9, ReadDirKeeps
<1>10. ASSUME NEW o \in Ops, ListEntry(o) PROVE StoreInv'
  BY <1>10, ListEntryKeeps
<1>11. ASSUME NEW o \in Ops, ListReturns(o) PROVE StoreInv'
  BY <1>11, ListReturnsKeeps
<1>12. ASSUME NEW o \in Ops, Crash(o) PROVE StoreInv'
  BY <1>12, CrashKeeps
<1> QED BY <1>1, <1>2, <1>3, <1>4, <1>5, <1>6, <1>7, <1>8, <1>9, <1>10, <1>11, <1>12 DEF Next

\* StoreInv holds in every reachable state.
THEOREM StoreInvariance == Spec => []StoreInv
BY InitStoreInv, NextStoreInv, PTL DEF Spec

-----------------------------------------------------------------------------
(* The theorems *)

\* A thread's own file is absent or a whole version of that thread, by a save that
\* got through its rename (local.go:122-143).
THEOREM FinalWhole == Spec => []FinalFilesWhole
<1>1. StoreInv => FinalFilesWhole
  BY DEF StoreInv, FinalOK, FinalFilesWhole
<1> QED BY <1>1, StoreInvariance, PTL

\* No load meets a file that does not parse, whatever the other processes write
\* and wherever they are killed (local.go:69-80).
THEOREM NeverTorn == Spec => []LoadsNeverTorn
<1>1. StoreInv => LoadsNeverTorn
  BY DEF StoreInv, CallOK, LoadsNeverTorn
<1> QED BY <1>1, StoreInvariance, PTL

\* A temp file is of a save that is under way or was killed (local.go:123-140).
THEOREM OnlyTempsInFlight == Spec => []TempsInFlight
<1>1. StoreInv => TempsInFlight
  BY DEF StoreInv, TempOK, TempsInFlight
<1> QED BY <1>1, StoreInvariance, PTL

\* A list that succeeds names every thread saved before it, once, and with no
\* version that was replaced by then (local.go:214-257).
THEOREM ListsComplete == Spec => []ListsCompleteAndFresh
<1>1. StoreInv => ListsCompleteAndFresh
  <2> SUFFICES ASSUME StoreInv, NEW o \in Ops, op[o].kind = "list", op[o].pc = "done"
               PROVE  /\ \A p \in op[o].before : \E e \in op[o].found : e.id = op[p].thread
                      /\ \A e, f \in op[o].found : e.id = f.id => e = f
                      /\ \A e \in op[o].found : op[e.by].thread = e.id /\ ~Outdated(e.by, o)
    BY DEF ListsCompleteAndFresh
  <2>1. EntriesOK(o)
    BY DEF StoreInv
  <2> QED BY <2>1 DEF EntriesOK
<1> QED BY <1>1, StoreInvariance, PTL

\* A version whose save began after that of another had returned is listed before
\* it, unless the clock shows the same time (local.go:100, 156-161).
THEOREM NewestFirst == Spec => []ListsNewestFirst
<1>1. StoreInv => ListsNewestFirst
  <2> SUFFICES ASSUME StoreInv, NEW o \in Ops, NEW e \in op[o].found, NEW f \in op[o].found,
                      e.by \in op[f.by].before, e.at # f.at
               PROVE  After(f, e)
    BY DEF ListsNewestFirst
  <2>1. e \in Entry /\ f \in Entry
    BY OpFields DEF StoreInv
  <2>2. e.by \in Ops /\ f.by \in Ops /\ e.at \in Nat /\ f.at \in Nat
    BY <2>1 DEF Entry
  <2>3. Dated(e.by, e.at) /\ Dated(f.by, f.at)
    BY DEF Dated
  <2>4. e.at <= f.at
    BY <2>2, <2>3 DEF StoreInv, TimesOK
  <2> QED BY <2>2, <2>4 DEF After
<1> QED BY <1>1, StoreInvariance, PTL

-----------------------------------------------------------------------------
(* Saves and loads are those of an atomic register *)

\* What the register sees of the calls and of the directory.
Calls == [o \in Ops |-> [phase |-> Phase(o), kind |-> op[o].kind,
                         thread |-> op[o].thread, result |-> op[o].result]]
Current == [th \in Threads |-> files[Final(th)].by]

\* The register sees one call move.
LEMMA CallSteps ==
  ASSUME TypeOK, NEW o \in Ops, NEW new, op' = [op EXCEPT ![o] = new]
  PROVE  /\ op'[o] = new
         /\ Calls' = [Calls EXCEPT ![o] = [phase |-> Phase(o)', kind |-> new.kind,
                                           thread |-> new.thread, result |-> new.result]]
<1>1. op'[o] = new /\ \A p \in Ops : p # o => op'[p] = op[p]
  BY DEF TypeOK
<1>2. \A p \in Ops : p # o => Phase(p)' = Phase(p)
  BY <1>1 DEF Phase
<1>3. \A p \in Ops : Calls'[p] = IF p = o THEN [phase |-> Phase(o)', kind |-> new.kind,
                                       thread |-> new.thread, result |-> new.result]
                                 ELSE Calls[p]
  BY <1>1, <1>2 DEF Calls
<1>4. Calls' = [p \in Ops |-> Calls'[p]] /\ Calls = [p \in Ops |-> Calls[p]]
  BY DEF Calls
<1> QED BY <1>1, <1>3, <1>4

\* It sees a new phase of the call when no more than that has changed.
LEMMA PhaseSteps ==
  ASSUME TypeOK, NEW o \in Ops, NEW new, op' = [op EXCEPT ![o] = new],
         new.kind = op[o].kind, new.thread = op[o].thread, new.result = op[o].result
  PROVE  /\ op'[o] = new
         /\ Calls' = [Calls EXCEPT ![o] = [Calls[o] EXCEPT !.phase = Phase(o)']]
         /\ Phase(o)' = Phase(o) => Calls' = Calls
<1>1. /\ op'[o] = new
      /\ Calls' = [Calls EXCEPT ![o] = [phase |-> Phase(o)', kind |-> op[o].kind,
                                        thread |-> op[o].thread, result |-> op[o].result]]
  <2>1. /\ op'[o] = new
        /\ Calls' = [Calls EXCEPT ![o] = [phase |-> Phase(o)', kind |-> new.kind,
                                          thread |-> new.thread, result |-> new.result]]
    BY CallSteps
  <2>2. [phase |-> Phase(o)', kind |-> new.kind, thread |-> new.thread, result |-> new.result]
          = [phase |-> Phase(o)', kind |-> op[o].kind, thread |-> op[o].thread,
             result |-> op[o].result]
    OBVIOUS
  <2> QED BY <2>1, <2>2, Zenon
<1>2. Calls[o] = [phase |-> Phase(o), kind |-> op[o].kind, thread |-> op[o].thread,
                  result |-> op[o].result]
  BY DEF Calls
<1>3. [Calls[o] EXCEPT !.phase = Phase(o)'] = [phase |-> Phase(o)', kind |-> op[o].kind,
                                     thread |-> op[o].thread, result |-> op[o].result]
  BY <1>2
<1>4. Phase(o)' = Phase(o) => Calls' = Calls
  <2>1. Calls = [Calls EXCEPT ![o] = Calls[o]]
    BY DEF Calls
  <2> QED BY <1>1, <1>2, <2>1
<1> QED BY <1>1, <1>3, <1>4

\* The fields of a call of the register make it up.
LEMMA CallFields ==
  \A p, q, r, s : \A call \in [phase : {p}, kind : {q}, thread : {r}, result : {s}] :
    call = [phase |-> p, kind |-> q, thread |-> r, result |-> s]
OBVIOUS

\* The register is as it was when the files of the threads are.
LEMMA SameCurrent ==
  ASSUME \A th \in Threads : files'[Final(th)].by = files[Final(th)].by
  PROVE  Current' = Current
BY DEF Current

\* A step that only takes a call from one phase to another.
LEMMA PhaseImplements ==
  ASSUME StoreInv, NEW o \in Ops, NEW new, op' = [op EXCEPT ![o] = new],
         new.kind = op[o].kind, new.thread = op[o].thread, new.result = op[o].result,
         \A th \in Threads : files'[Final(th)].by = files[Final(th)].by,
         \/ Phase(o)' = Phase(o)
         \/ /\ Phase(o)' = "done"
            /\ Phase(o) = "applied" \/ (Phase(o) = "running" /\ op[o].kind = "list")
         \/ Phase(o)' = "failed" /\ Phase(o) = "running"
         \/ Phase(o)' = "crashed" /\ Phase(o) \in {"running", "applied"}
  PROVE  [Register!Next]_(Register!vars)
<1>1. /\ Calls' = [Calls EXCEPT ![o] = [Calls[o] EXCEPT !.phase = Phase(o)']]
      /\ Phase(o)' = Phase(o) => Calls' = Calls
  BY PhaseSteps DEF StoreInv
<1>2. Current' = Current
  BY SameCurrent
<1>3. Calls[o].phase = Phase(o) /\ Calls[o].kind = op[o].kind
  BY DEF Calls
<1>4. CASE Phase(o)' = Phase(o)
  BY <1>1, <1>2, <1>4 DEF Register!vars, Calls, Current
<1>5. CASE /\ Phase(o)' = "done"
           /\ Phase(o) = "applied" \/ (Phase(o) = "running" /\ op[o].kind = "list")
  <2>1. Calls' = [Calls EXCEPT ![o] = [Calls[o] EXCEPT !.phase = "done"]]
    BY <1>1, <1>5
  <2>2. Register!Reply(o)
    BY <1>2, <1>3, <1>5, <2>1 DEF Register!Reply, Register!Enters, Calls, Current
  <2> QED BY <2>2 DEF Register!Next
<1>6. CASE Phase(o)' = "failed" /\ Phase(o) = "running"
  <2>1. Calls' = [Calls EXCEPT ![o] = [Calls[o] EXCEPT !.phase = "failed"]]
    BY <1>1, <1>6
  <2>2. Register!Fail(o)
    BY <1>2, <1>3, <1>6, <2>1 DEF Register!Fail, Register!Enters, Calls, Current
  <2> QED BY <2>2 DEF Register!Next
<1>7. CASE Phase(o)' = "crashed" /\ Phase(o) \in {"running", "applied"}
  <2>1. Calls' = [Calls EXCEPT ![o] = [Calls[o] EXCEPT !.phase = "crashed"]]
    BY <1>1, <1>7
  <2>2. Register!Crash(o)
    BY <1>2, <1>3, <1>7, <2>1 DEF Register!Crash, Register!Enters, Calls, Current
  <2> QED BY <2>2 DEF Register!Next
<1> QED BY <1>4, <1>5, <1>6, <1>7

\* The call of an operation is a call of the register (state.go:14-19).
LEMMA BeginImplements ==
  ASSUME StoreInv, NEW o \in Ops, Begin(o)
  PROVE  Register!Next
<1>1. PICK kind \in {"save", "load", "list"}, th \in Threads :
        op' = [op EXCEPT ![o] =
                [op[o] EXCEPT !.pc = "called", !.kind = kind, !.thread = th,
                              !.before = {p \in Ops : op[p].kind = "save"
                                                      /\ op[p].pc = "done"}]]
  BY DEF Begin
<1> DEFINE new == [op[o] EXCEPT !.pc = "called", !.kind = kind, !.thread = th,
                                !.before = {p \in Ops : op[p].kind = "save"
                                                        /\ op[p].pc = "done"}]
<1>2. op[o] \in Op /\ op[o].pc = "idle"
  BY OpFields DEF StoreInv, Begin
<1>3. new.pc = "called" /\ new.kind = kind /\ new.thread = th /\ new.result = op[o].result
  BY <1>2 DEF Op
<1>4. op' = [op EXCEPT ![o] = new]
  BY <1>1
<1> HIDE DEF new
<1>5. /\ op'[o] = new
      /\ Calls' = [Calls EXCEPT ![o] = [phase |-> Phase(o)', kind |-> new.kind,
                                        thread |-> new.thread, result |-> new.result]]
  BY <1>4, CallSteps DEF StoreInv
<1>6. Phase(o)' = "running" /\ Phase(o) = "idle"
  BY <1>2, <1>3, <1>5 DEF Phase
<1>7. Calls[o] = [phase |-> Phase(o), kind |-> op[o].kind, thread |-> op[o].thread,
                  result |-> op[o].result]
  BY DEF Calls
<1>8. Calls' = [Calls EXCEPT ![o] = [Calls[o] EXCEPT !.phase = "running", !.kind = kind,
                                                     !.thread = th]]
  <2>1. [Calls[o] EXCEPT !.phase = "running", !.kind = kind, !.thread = th]
          = [phase |-> "running", kind |-> kind, thread |-> th, result |-> op[o].result]
    <3>1. Calls[o] \in [phase : {Phase(o)}, kind : {op[o].kind}, thread : {op[o].thread},
                        result : {op[o].result}]
      BY <1>7
    <3>2. [Calls[o] EXCEPT !.phase = "running", !.kind = kind, !.thread = th]
            \in [phase : {"running"}, kind : {kind}, thread : {th}, result : {op[o].result}]
      BY <3>1
    <3> QED BY <3>2, CallFields, Zenon
  <2>2. [phase |-> Phase(o)', kind |-> new.kind, thread |-> new.thread, result |-> new.result]
          = [phase |-> "running", kind |-> kind, thread |-> th, result |-> op[o].result]
    BY <1>3, <1>6
  <2> QED BY <1>5, <2>1, <2>2, Zenon
<1>9. Current' = Current
  BY SameCurrent DEF Begin
<1>10. Calls[o].phase = "idle"
  BY <1>6, <1>7
<1>11. Register!Begin(o)
  BY <1>8, <1>9, <1>10 DEF Register!Begin, Register!Kinds, Calls, Current
<1> QED BY <1>11 DEF Register!Next

\* A save takes effect with its rename (local.go:137).
LEMMA RenameImplements ==
  ASSUME StoreInv, NEW o \in Ops, Rename(o)
  PROVE  Register!Next
<1> DEFINE new   == [op[o] EXCEPT !.pc = "renamed"]
           temp  == Temp(op[o].thread, o)
           final == Final(op[o].thread)
<1>1. /\ op[o] \in Op /\ op[o].pc = "written" /\ op[o].kind = "save"
      /\ TypeOK /\ op[o].thread \in Threads
  BY OpFields DEF StoreInv, CallOK, Rename
<1>2. /\ op' = [op EXCEPT ![o] = new] /\ new.pc = "renamed" /\ new.kind = op[o].kind
      /\ new.thread = op[o].thread /\ new.result = op[o].result
  BY <1>1 DEF Op, Rename, Enters
<1> HIDE DEF new
<1>3. op'[o] = new /\ Calls' = [Calls EXCEPT ![o] = [Calls[o] EXCEPT !.phase = Phase(o)']]
  BY <1>1, <1>2, PhaseSteps
<1>4. Phase(o)' = "applied" /\ Phase(o) = "running"
  BY <1>1, <1>2, <1>3 DEF Phase
<1>5. Calls' = [Calls EXCEPT ![o] = [Calls[o] EXCEPT !.phase = "applied"]]
  BY <1>3, <1>4
<1>6. Calls[o].phase = "running" /\ Calls[o].kind = "save" /\ Calls[o].thread = op[o].thread
  BY <1>1, <1>4 DEF Calls
<1>7. /\ temp \in Names /\ final \in Names /\ final # temp
      /\ \A th \in Threads : Final(th) \in Names /\ Final(th) # temp
      /\ \A th \in Threads : th # op[o].thread => Final(th) # final
  BY <1>1, TempApart, FinalApart
<1>8. files[temp].by = o
  <2>1. TempOK(op[o].thread, o)
    BY <1>1 DEF StoreInv
  <2> QED BY <1>1, <2>1 DEF TempOK
<1>9. files' = [files EXCEPT ![final] = files[temp], ![temp] = Absent]
  BY DEF Rename
<1> HIDE DEF temp
<1>10. \A th \in Threads : files'[Final(th)].by = IF th = op[o].thread THEN o
                                                  ELSE files[Final(th)].by
  BY <1>1, <1>7, <1>8, <1>9 DEF TypeOK
<1>11. Current' = [Current EXCEPT ![op[o].thread] = o]
  BY <1>10 DEF Current
<1>12. Register!Apply(o)
  BY <1>5, <1>6, <1>11 DEF Register!Apply, Register!Enters, Calls, Current
<1> QED BY <1>12 DEF Register!Next

\* A load takes effect when it reads the file (local.go:69-80).
LEMMA ReadImplements ==
  ASSUME StoreInv, NEW o \in Ops, ReadThread(o)
  PROVE  Register!Next
<1> DEFINE file == files[Final(op[o].thread)]
           new  == [op[o] EXCEPT !.pc = "done", !.result = file.by]
<1>1. /\ op[o] \in Op /\ op[o].pc = "called" /\ op[o].kind = "load"
      /\ TypeOK /\ op[o].thread \in Threads
  BY OpFields DEF StoreInv, ReadThread
<1>2. file.state # "partial"
  BY <1>1 DEF StoreInv, FinalOK, Absent
<1>3. op' = [op EXCEPT ![o] = new] /\ files' = files
  BY <1>2 DEF ReadThread
<1> HIDE DEF file
<1>4. new.pc = "done" /\ new.kind = "load" /\ new.thread = op[o].thread /\ new.result = file.by
  BY <1>1 DEF Op
<1> HIDE DEF new
<1>5. /\ op'[o] = new
      /\ Calls' = [Calls EXCEPT ![o] = [phase |-> Phase(o)', kind |-> new.kind,
                                        thread |-> new.thread, result |-> new.result]]
  BY <1>1, <1>3, CallSteps
<1>6. Phase(o)' = "done" /\ Phase(o) = "running"
  BY <1>1, <1>4, <1>5 DEF Phase
<1>7. Calls[o] = [phase |-> "running", kind |-> "load", thread |-> op[o].thread,
                  result |-> op[o].result]
  BY <1>1, <1>6 DEF Calls
<1>8. Current[Calls[o].thread] = file.by
  BY <1>1, <1>7 DEF Current, file
<1>9. Calls' = [Calls EXCEPT ![o] = [Calls[o] EXCEPT !.phase = "done",
                                                     !.result = Current[Calls[o].thread]]]
  <2>1. [Calls[o] EXCEPT !.phase = "done", !.result = Current[Calls[o].thread]]
          = [phase |-> "done", kind |-> "load", thread |-> op[o].thread, result |-> file.by]
    <3>1. Calls[o] \in [phase : {"running"}, kind : {"load"}, thread : {op[o].thread},
                        result : {op[o].result}]
      BY <1>7
    <3>2. [Calls[o] EXCEPT !.phase = "done", !.result = file.by]
            \in [phase : {"done"}, kind : {"load"}, thread : {op[o].thread},
                 result : {file.by}]
      BY <3>1
    <3> QED BY <1>8, <3>2, CallFields, Zenon
  <2>2. [phase |-> Phase(o)', kind |-> new.kind, thread |-> new.thread, result |-> new.result]
          = [phase |-> "done", kind |-> "load", thread |-> op[o].thread, result |-> file.by]
    BY <1>4, <1>6
  <2> QED BY <1>5, <2>1, <2>2, Zenon
<1>10. Current' = Current
  BY <1>3, SameCurrent
<1>11. Calls[o].phase = "running" /\ Calls[o].kind = "load"
  BY <1>7
<1>12. Register!Read(o)
  BY <1>9, <1>10, <1>11 DEF Register!Read, Calls, Current
<1> QED BY <1>12 DEF Register!Next

\* The other steps change the phase of the call at most, and no thread.
LEMMA OthersImplement ==
  ASSUME StoreInv, NEW o \in Ops,
         \/ CreateTemp(o) \/ Write(o) \/ SaveReturns(o) \/ SaveFails(o)
         \/ LoadFails(o) \/ ReadDir(o) \/ ListEntry(o) \/ ListReturns(o) \/ ListFails(o)
         \/ Crash(o)
  PROVE  [Register!Next]_(Register!vars)
<1>1. /\ op[o] \in Op /\ TypeOK /\ op[o].thread \in Threads
      /\ op[o].pc \in {"created", "written", "renamed"} => op[o].kind = "save"
      /\ op[o].pc = "listing" => op[o].kind = "list"
  BY OpFields DEF StoreInv, CallOK
<1>2. \A th \in Threads : files'[Final(th)].by = files[Final(th)].by
  <2> DEFINE temp == Temp(op[o].thread, o)
  <2>1. temp \in Names /\ \A th \in Threads : Final(th) \in Names /\ Final(th) # temp
    BY <1>1, TempApart
  <2>2. files' = files \/ \E file : files' = [files EXCEPT ![temp] = file]
    BY DEF CreateTemp, Write, SaveReturns, SaveFails, LoadFails, ReadDir, ListEntry,
           ListReturns, ListFails, Crash
  <2> HIDE DEF temp
  <2> QED BY <1>1, <2>1, <2>2 DEF TypeOK
<1>3. ASSUME NEW new, op' = [op EXCEPT ![o] = new], new.pc = op[o].pc,
             new.kind = op[o].kind, new.thread = op[o].thread, new.result = op[o].result
      PROVE  [Register!Next]_(Register!vars)
  <2>1. op'[o] = new
    BY <1>1, <1>3 DEF TypeOK
  <2>2. Phase(o)' = Phase(o)
    BY <1>3, <2>1 DEF Phase
  <2> QED BY <1>2, <1>3, <2>2, PhaseImplements
<1>4. ASSUME NEW x, op' = [op EXCEPT ![o] = [op[o] EXCEPT !.pc = x]],
             \/ Phase(o) = "running" /\ x \in {"created", "written"}
             \/ op[o].pc = "renamed" /\ x = "done"
             \/ op[o].pc = "listing" /\ x = "done"
      PROVE  [Register!Next]_(Register!vars)
  <2> DEFINE new == [op[o] EXCEPT !.pc = x]
  <2>1. /\ new.pc = x /\ new.kind = op[o].kind /\ new.thread = op[o].thread
        /\ new.result = op[o].result /\ op' = [op EXCEPT ![o] = new]
    BY <1>1, <1>4 DEF Op
  <2> HIDE DEF new
  <2>2. op'[o] = new
    BY <1>1, <2>1 DEF TypeOK
  <2>3. \/ Phase(o)' = Phase(o)
        \/ /\ Phase(o)' = "done"
           /\ Phase(o) = "applied" \/ (Phase(o) = "running" /\ op[o].kind = "list")
    BY <1>1, <1>4, <2>1, <2>2 DEF Phase
  <2> QED BY <1>2, <2>1, <2>3, PhaseImplements
<1>5. ASSUME NEW x \in {"failed", "crashed"}, NEW w,
             op' = [op EXCEPT ![o] = [op[o] EXCEPT !.pc = x, !.why = w,
                                                   !.todo = {}, !.found = {}]],
             op[o].pc \in {"called", "created", "written", "renamed", "listing"},
             op[o].pc = "renamed" => x = "crashed"
      PROVE  [Register!Next]_(Register!vars)
  <2> DEFINE new == [op[o] EXCEPT !.pc = x, !.why = w, !.todo = {}, !.found = {}]
  <2>1. /\ new.pc = x /\ new.kind = op[o].kind /\ new.thread = op[o].thread
        /\ new.result = op[o].result /\ op' = [op EXCEPT ![o] = new]
    BY <1>1, <1>5 DEF Op
  <2> HIDE DEF new
  <2>2. op'[o] = new
    BY <1>1, <2>1 DEF TypeOK
  <2>3. \/ Phase(o)' = "failed" /\ Phase(o) = "running"
        \/ Phase(o)' = "crashed" /\ Phase(o) \in {"running", "applied"}
    BY <1>5, <2>1, <2>2 DEF Phase
  <2> QED BY <1>2, <2>1, <2>3, PhaseImplements
<1>6. CASE CreateTemp(o) \/ Write(o) \/ SaveReturns(o) \/ ListReturns(o)
  BY <1>4, <1>6 DEF CreateTemp, Write, SaveReturns, ListReturns, Enters, Phase
<1>7. CASE SaveFails(o) \/ LoadFails(o) \/ ListFails(o)
  BY <1>5, <1>7 DEF SaveFails, LoadFails, ListFails, Fails
<1>8. CASE Crash(o)
  <2>1. [op[o] EXCEPT !.pc = "crashed", !.todo = {}, !.found = {}]
          = [op[o] EXCEPT !.pc = "crashed", !.why = op[o].why, !.todo = {}, !.found = {}]
    BY <1>1 DEF Op
  <2>2. op' = [op EXCEPT ![o] = [op[o] EXCEPT !.pc = "crashed", !.why = op[o].why,
                                              !.todo = {}, !.found = {}]]
    BY <1>8, <2>1 DEF Crash
  <2> QED BY <1>5, <1>8, <2>2 DEF Crash
<1>9. CASE ReadDir(o)
  <2> DEFINE left == {f \in Names : files[f] # Absent}
             new == [op[o] EXCEPT !.pc = "listing", !.todo = left]
  <2>1. op' = [op EXCEPT ![o] = new]
    BY <1>9 DEF ReadDir
  <2> HIDE DEF left
  <2>2. /\ new.pc = "listing" /\ new.kind = op[o].kind /\ new.thread = op[o].thread
        /\ new.result = op[o].result
    BY <1>1 DEF Op
  <2> HIDE DEF new
  <2>3. op'[o] = new
    BY <1>1, <2>1 DEF TypeOK
  <2>4. Phase(o)' = Phase(o)
    BY <1>9, <2>2, <2>3 DEF Phase, ReadDir
  <2> QED BY <1>2, <2>1, <2>2, <2>4, PhaseImplements
<1>10. CASE ListEntry(o)
  <2>1. PICK f \in op[o].todo :
          IF EntryError(f) # ""
            THEN Fails(o, EntryError(f))
            ELSE op' = [op EXCEPT ![o] =
                          [op[o] EXCEPT !.todo = @ \ {f},
                                        !.found = @ \cup {[id |-> f.id, by |-> files[f].by,
                                                           at |-> files[f].at]}]]
    BY <1>10 DEF ListEntry
  <2>2. CASE EntryError(f) # ""
    <3> DEFINE w == EntryError(f)
    <3>1. op' = [op EXCEPT ![o] = [op[o] EXCEPT !.pc = "failed", !.why = w,
                                                !.todo = {}, !.found = {}]]
      BY <2>1, <2>2 DEF Fails
    <3>2. op[o].pc = "listing"
      BY <1>10 DEF ListEntry
    <3> HIDE DEF w
    <3> QED BY <1>5, <3>1, <3>2
  <2>3. CASE EntryError(f) = ""
    <3> DEFINE left  == op[o].todo \ {f}
               found == op[o].found \cup {[id |-> f.id, by |-> files[f].by,
                                           at |-> files[f].at]}
               new   == [op[o] EXCEPT !.todo = left, !.found = found]
    <3>1. op' = [op EXCEPT ![o] = new]
      BY <2>1, <2>3
    <3> HIDE DEF left, found
    <3>2. /\ new.pc = op[o].pc /\ new.kind = op[o].kind /\ new.thread = op[o].thread
          /\ new.result = op[o].result
      BY <1>1 DEF Op
    <3> HIDE DEF new
    <3> QED BY <1>3, <3>1, <3>2
  <2> QED BY <2>2, <2>3
<1> QED BY <1>6, <1>7, <1>8, <1>9, <1>10

\* Whatever processes do to the directory at the same time, and wherever they are
\* killed, a save takes effect at one instant inside its call or never, and a load
\* returns what the last save before an instant inside its call has put there
\* (local.go:69-143).
THEOREM RegisterImplemented == Spec => ImplementsRegister
<1>1. Init => Register!Init
  <2> SUFFICES ASSUME Init PROVE Register!Init
    OBVIOUS
  <2> DEFINE th == CHOOSE u \in Threads : TRUE
  <2>1. th \in Threads /\ \A o \in Ops : op[o] = NewOp
    BY StoreAssumption DEF Init
  <2>2. NewOp.pc = "idle" /\ NewOp.kind = "list" /\ NewOp.thread = th /\ NewOp.result = NoOp
    BY DEF NewOp
  <2> HIDE DEF th
  <2>3. Calls = [o \in Ops |-> [phase |-> "idle", kind |-> "list", thread |-> th,
                                result |-> NoOp]]
    BY <2>1, <2>2 DEF Calls, Phase
  <2>4. \A u \in Threads : files[Final(u)].by = NoOp
    BY NamesApart DEF Init, Absent
  <2>5. Current = [u \in Threads |-> NoOp]
    BY <2>4 DEF Current
  <2> QED BY <2>1, <2>3, <2>5 DEF Register!Init, Calls, Current
<1>2. StoreInv /\ [Next]_vars => [Register!Next]_(Register!vars)
  <2> SUFFICES ASSUME StoreInv, [Next]_vars
               PROVE  [Register!Next]_(Register!vars)
    OBVIOUS
  <2>1. CASE UNCHANGED vars
    <3>1. Calls' = Calls /\ Current' = Current
      BY <2>1 DEF vars, Calls, Current, Phase
    <3> QED BY <3>1 DEF Register!vars, Calls, Current
  <2>2. CASE Next
    BY <2>2, BeginImplements, RenameImplements, ReadImplements, OthersImplement DEF Next
  <2> QED BY <2>1, <2>2
<1> QED BY <1>1, <1>2, StoreInvariance, PTL DEF Spec, ImplementsRegister, Register!Spec

-----------------------------------------------------------------------------
(* Part two: the order of a list and its pages *)

\* List's order is a strict and total one (local.go:156-161).
LEMMA BeforeIsAnOrder ==
  ASSUME read \in [Ids -> Nat]
  PROVE  /\ \A a \in Ids : ~Before(a, a)
         /\ \A a, b, c \in Ids : Before(a, b) /\ Before(b, c) => Before(a, c)
         /\ \A a, b \in Ids : a = b \/ Before(a, b) \/ Before(b, a)
BY PagesAssumption DEF Before, Newer

\* How many threads of the rest come before a thread of it.
Rank(th) == Cardinality({u \in Rest : Before(u, th)})

\* A later thread of the rest has a greater rank.
LEMMA RanksGrow ==
  ASSUME read \in [Ids -> Nat]
  PROVE  /\ \A th \in Rest : Rank(th) \in Nat
         /\ \A a, b \in Rest : Before(a, b) => Rank(a) < Rank(b)
<1>1. Rest \subseteq Ids
  BY DEF Rest, Found
<1>2. ASSUME NEW b \in Rest
      PROVE  IsFiniteSet({u \in Rest : Before(u, b)}) /\ Rank(b) \in Nat
  <2>1. IsFiniteSet(Ids) /\ {u \in Rest : Before(u, b)} \in SUBSET Ids
    BY <1>1, PagesAssumption
  <2>2. IsFiniteSet({u \in Rest : Before(u, b)})
    BY <2>1, FS_Subset
  <2> QED BY <2>2, FS_CardinalityType DEF Rank
<1>3. ASSUME NEW a \in Rest, NEW b \in Rest, Before(a, b)
      PROVE  Rank(a) < Rank(b)
  <2> DEFINE A == {u \in Rest : Before(u, a)}
             B == {u \in Rest : Before(u, b)}
  <2>1. A \in SUBSET B
    BY <1>1, <1>3, BeforeIsAnOrder
  <2>2. a \in B /\ a \notin A
    BY <1>1, <1>3, BeforeIsAnOrder
  <2>3. IsFiniteSet(B)
    BY <1>2
  <2>4. Cardinality(A) <= Cardinality(B) /\ Cardinality(A) # Cardinality(B)
    <3> HIDE DEF A, B
    <3> QED BY <2>1, <2>2, <2>3, FS_Subset
  <2>5. Rank(a) \in Nat /\ Rank(b) \in Nat
    BY <1>2
  <2>6. Rank(a) = Cardinality(A) /\ Rank(b) = Cardinality(B)
    BY DEF Rank
  <2> QED BY <2>4, <2>5, <2>6
<1> QED BY <1>2, <1>3

\* A set of numbers that is not empty has a least one.
LEMMA LeastNumber ==
  ASSUME NEW S \in SUBSET Nat, S # {}
  PROVE  \E n \in S : \A m \in S : n <= m
<1>1. PICK n \in S : \A m \in S : ~(<<m, n>> \in OpToRel(<, Nat))
  BY WFMin, NatLessThanWellFounded, Zenon
<1>2. \A m \in S : n <= m
  <2> TAKE m \in S
  <2>1. n \in Nat /\ m \in Nat
    OBVIOUS
  <2>2. ~(m < n)
    BY <1>1, <2>1 DEF OpToRel
  <2> QED BY <2>1, <2>2
<1> QED BY <1>2

\* A page is the first part of the rest and is empty only with it; it has a last
\* thread, which every other thread of it comes before.
LEMMA PageIsPrefix ==
  ASSUME read \in [Ids -> Nat], limit \in Nat \ {0}
  PROVE  /\ Page \subseteq Rest
         /\ Page = {} => Rest = {}
         /\ \A th \in Page, u \in Rest : Before(u, th) => u \in Page
         /\ Page # {} => /\ Last(Page) \in Page
                         /\ \A u \in Page : u = Last(Page) \/ Before(u, Last(Page))
<1>1. Rest \subseteq Ids
  BY DEF Rest, Found
<1>2. Page = {th \in Rest : Rank(th) < limit}
  BY DEF Page, Rank
<1>3. /\ \A th \in Rest : Rank(th) \in Nat
      /\ \A a, b \in Rest : Before(a, b) => Rank(a) < Rank(b)
  BY RanksGrow
<1>4. ASSUME Rest # {} PROVE Page # {}
  <2>1. \E first \in Rest : \A u \in Rest : Rank(first) <= Rank(u)
    <3> DEFINE S == {Rank(u) : u \in Rest}
    <3>1. S \in SUBSET Nat /\ S # {}
      BY <1>3, <1>4
    <3>2. \E n \in S : \A m \in S : n <= m
      <4> HIDE DEF S
      <4> QED BY <3>1, LeastNumber
    <3> QED BY <3>2
  <2>2. PICK first \in Rest : \A u \in Rest : Rank(first) <= Rank(u)
    BY <2>1
  <2>3. \A u \in Rest : ~Before(u, first)
    <3> SUFFICES ASSUME NEW u \in Rest, Before(u, first) PROVE FALSE
      OBVIOUS
    <3> QED BY <1>3, <2>2
  <2>4. {u \in Rest : Before(u, first)} = {}
    BY <2>3
  <2>5. Rank(first) = 0
    BY <2>4, FS_EmptySet DEF Rank
  <2> QED BY <1>2, <2>5
<1>5. ASSUME NEW th \in Page, NEW u \in Rest, Before(u, th) PROVE u \in Page
  BY <1>2, <1>3, <1>5
<1>6. ASSUME Page # {}
      PROVE  /\ Last(Page) \in Page
             /\ \A u \in Page : u = Last(Page) \/ Before(u, Last(Page))
  <2>1. \E last \in Page : \A u \in Page : Rank(u) <= Rank(last)
    <3> DEFINE S == {limit - Rank(u) : u \in Page}
    <3>1. S \in SUBSET Nat /\ S # {}
      BY <1>2, <1>3, <1>6
    <3>2. \E n \in S : \A m \in S : n <= m
      <4> HIDE DEF S
      <4> QED BY <3>1, LeastNumber
    <3>3. PICK last \in Page : \A m \in S : limit - Rank(last) <= m
      BY <3>2
    <3>4. ASSUME NEW u \in Page PROVE Rank(u) <= Rank(last)
      <4>1. limit - Rank(last) <= limit - Rank(u)
        BY <3>3
      <4>2. Rank(u) \in Nat /\ Rank(last) \in Nat
        BY <1>2, <1>3
      <4> QED BY <4>1, <4>2
    <3> QED BY <3>4
  <2>2. PICK last \in Page : \A u \in Page : Rank(u) <= Rank(last)
    BY <2>1
  <2>3. \A u \in Page : u = last \/ Before(u, last)
    <3> SUFFICES ASSUME NEW u \in Page PROVE u = last \/ Before(u, last)
      OBVIOUS
    <3>1. u \in Rest /\ last \in Rest /\ u \in Ids /\ last \in Ids
      BY <1>1, <1>2
    <3>2. ~Before(last, u)
      BY <1>3, <2>2, <3>1
    <3> QED BY <3>1, <3>2, BeforeIsAnOrder
  <2> QED BY <2>3 DEF Last
<1> QED BY <1>2, <1>4, <1>5, <1>6

-----------------------------------------------------------------------------
(* The inductive invariant *)

\* A thread in the list that nobody saved since has the time it was read with.
ReadInv ==
  stage = "listing" =>
    /\ limit # 0
    /\ \A th \in Ids \ touched : th \notin todo => read[th] = at[th]

\* The client is still at it.
Paging == stage \in {"idle", "listing"}

\* A cursor that an answer gave is a thread, and comes with what was listed.
CursorInv ==
  Paging => /\ cursorAt = 0 <=> listed = {}
            /\ cursorAt # 0 => cursor \in Ids
            /\ cursorAt = 0 /\ whole => cursor = NoThread

\* The thread stands in the list no later than where the cursor was given.
Passed(th) == ~Newer(cursorAt, cursor, at[th], th)

\* What was listed has been passed, if no cursor moved up the list ...
ListedInv ==
  Paging /\ ~up /\ cursorAt # 0 => \A th \in Untouched \cap listed : Passed(th)

\* ... and what has been passed was listed, if none moved down.
PassedInv ==
  Paging /\ whole /\ ~down /\ cursorAt # 0 => \A th \in Untouched : Passed(th) => th \in listed

PagesInv ==
  /\ PagesTypeOK /\ ReadInv /\ CursorInv /\ ListedInv /\ PassedInv
  /\ UntouchedAreListed /\ UntouchedListedOnce

\* All of the invariant at the client's first request.
LEMMA PagesInvInit == PagesInit => PagesInv
<1> SUFFICES ASSUME PagesInit PROVE PagesInv
  OBVIOUS
<1>1. (CHOOSE th \in Ids : TRUE) \in Ids
  BY PagesAssumption
<1>2. /\ save \in [Saves -> [pc : {"idle", "timed", "done"}, thread : Ids, time : Nat]]
      /\ at \in [Ids -> Nat] /\ read \in [Ids -> Nat]
  BY <1>1, PagesAssumption DEF PagesInit, Nothing
<1>3. PagesTypeOK
  BY <1>2, PagesAssumption DEF PagesInit, PagesTypeOK
<1> QED
  BY <1>3 DEF PagesInit, PagesInv, ReadInv, CursorInv, ListedInv, PassedInv, Paging,
              UntouchedAreListed, UntouchedListedOnce, Untouched

\* A save that takes its time changes nothing a page depends on.
LEMMA TakeTimeKeeps ==
  ASSUME PagesInv, NEW s \in Saves, TakeTime(s)
  PROVE  PagesInv'
<1> USE DEF PagesInv, TakeTime, ghostVars
<1>1. PagesTypeOK'
  BY DEF PagesTypeOK
<1> QED
  BY <1>1 DEF ReadInv, CursorInv, ListedInv, PassedInv, Passed, Newer, Paging,
              UntouchedAreListed, UntouchedListedOnce, Untouched

\* A commit touches its thread, or comes before anything was asked for or listed.
LEMMA CommitKeeps ==
  ASSUME PagesInv, NEW s \in Saves, Commit(s)
  PROVE  PagesInv'
<1> USE DEF PagesInv, Commit
<1>1. PagesTypeOK'
  BY DEF PagesTypeOK
<1>2. CASE stage = "idle" /\ listed = {}
  BY <1>1, <1>2 DEF PagesTypeOK, ReadInv, CursorInv, ListedInv, PassedInv, Paging,
                    UntouchedAreListed, UntouchedListedOnce, Untouched
<1>3. CASE ~(stage = "idle" /\ listed = {})
  <2>1. touched' = touched \cup {save[s].thread}
    BY <1>3
  <2>2. \A th \in Ids \ touched' : at'[th] = at[th] /\ th \notin touched
    BY <2>1 DEF PagesTypeOK
  <2>3. Untouched' \subseteq Untouched
    BY <2>2 DEF Untouched
  <2>4. \A th \in Untouched' : th \in Untouched /\ (Passed(th)' <=> Passed(th))
    BY <2>2, <2>3 DEF Untouched, Passed, Newer
  <2> QED
    BY <1>1, <2>2, <2>3, <2>4 DEF ReadInv, CursorInv, ListedInv, PassedInv, Paging,
                                  UntouchedAreListed, UntouchedListedOnce
<1> QED BY <1>2, <1>3

\* A new page begins with nothing read.
LEMMA RequestPageKeeps ==
  ASSUME PagesInv, RequestPage
  PROVE  PagesInv'
<1> USE DEF PagesInv, RequestPage, storeVars, ghostVars
<1>1. limit' \in Nat \ {0}
  BY PagesAssumption DEF Limit
<1>2. PagesTypeOK'
  BY <1>1 DEF PagesTypeOK, Nothing
<1>3. ReadInv'
  BY <1>1 DEF ReadInv, PagesTypeOK, Nothing
<1> QED
  BY <1>2, <1>3 DEF CursorInv, ListedInv, PassedInv, Passed, Newer, Paging,
                    UntouchedAreListed, UntouchedListedOnce, Untouched

\* A file that is read has the time it has.
LEMMA ReadEntryKeeps ==
  ASSUME PagesInv, ReadEntry
  PROVE  PagesInv'
<1> USE DEF PagesInv, ReadEntry, storeVars, ghostVars
<1>1. PagesTypeOK'
  BY DEF PagesTypeOK
<1>2. ReadInv'
  BY DEF ReadInv, PagesTypeOK
<1> QED
  BY <1>1, <1>2 DEF CursorInv, ListedInv, PassedInv, Passed, Newer, Paging,
                    UntouchedAreListed, UntouchedListedOnce, Untouched

\* A page that fails or is refused leaves the cursor and what was listed.
LEMMA NoPageKeeps ==
  ASSUME PagesInv, PageFails \/ Refuse
  PROVE  PagesInv'
<1> USE DEF PagesInv, PageFails, Refuse, storeVars, ghostVars
<1>1. PagesTypeOK'
  BY DEF PagesTypeOK
<1> QED
  BY <1>1 DEF ReadInv, CursorInv, ListedInv, PassedInv, Passed, Newer, Paging,
              UntouchedAreListed, UntouchedListedOnce, Untouched

\* An answer: the cursor is found where it was given, above it or below it, and
\* the page begins behind that place.
LEMMA AnswerKeeps ==
  ASSUME PagesInv, Answer
  PROVE  PagesInv'
<1> USE DEF PagesInv, Answer, storeVars
<1>1. /\ stage = "listing" /\ todo = {} /\ Paging
      /\ read \in [Ids -> Nat] /\ at \in [Ids -> Nat] /\ cursorAt \in Nat
      /\ limit \in Nat \ {0} /\ Ids \subseteq Nat
      /\ Untouched \subseteq Ids
  BY PagesAssumption DEF PagesTypeOK, ReadInv, Paging, Untouched
<1>2. /\ ~up' => ~up /\ (cursorAt # 0 => ~(read[cursor] > cursorAt))
      /\ ~down' => ~down /\ (cursorAt # 0 => ~(read[cursor] < cursorAt))
  BY Zenon
<1>3. /\ Page \subseteq Rest
      /\ Page = {} => Rest = {}
      /\ \A th \in Page, u \in Rest : Before(u, th) => u \in Page
      /\ Page # {} => /\ Last(Page) \in Page
                      /\ \A u \in Page : u = Last(Page) \/ Before(u, Last(Page))
  BY <1>1, PageIsPrefix
<1>4. Rest \subseteq Found /\ Found \subseteq Ids
  BY DEF Rest, Found
<1>5. /\ Untouched' = Untouched /\ at' = at /\ read' = read
      /\ \A th \in Untouched : read[th] = at[th] /\ th \in Found
  BY <1>1 DEF Untouched, ReadInv, Found
<1>6. PagesTypeOK'
  BY <1>1, <1>3, <1>4 DEF PagesTypeOK
<1>7. ReadInv'
  BY DEF ReadInv
<1>8. ASSUME ~up', cursorAt # 0, NEW th \in Untouched \cap listed
      PROVE  th \notin Rest /\ ~Before(cursor, th)
  <2>1. cursor \in Ids /\ cursor # NoThread /\ Passed(th)
    BY <1>1, <1>8, PagesAssumption DEF CursorInv, ListedInv
  <2>2. read[cursor] <= cursorAt
    <3>1. ~(read[cursor] > cursorAt)
      BY <1>2, <1>8
    <3> QED BY <1>1, <2>1, <3>1
  <2>3. ~Before(cursor, th)
    BY <1>1, <1>5, <2>1, <2>2 DEF Passed, Before, Newer
  <2> QED BY <2>1, <2>3 DEF Rest
<1>9. ASSUME ~up' PROVE Untouched \cap listed \cap Page = {}
  BY <1>1, <1>3, <1>8, <1>9 DEF CursorInv
<1>10. UntouchedListedOnce'
  BY <1>5, <1>9 DEF UntouchedListedOnce
<1>11. ASSUME whole, ~down', NEW th \in Untouched
      PROVE  th \in listed \/ th \in Rest
  <2>1. CASE cursorAt = 0
    BY <1>1, <1>5, <1>11, <2>1 DEF CursorInv, Rest
  <2>2. CASE cursorAt # 0
    <3>1. cursor \in Ids /\ cursor # NoThread
      BY <1>1, <2>2, PagesAssumption DEF CursorInv
    <3>2. read[cursor] >= cursorAt
      <4>1. ~(read[cursor] < cursorAt)
        BY <1>2, <1>11, <2>2
      <4> QED BY <1>1, <3>1, <4>1
    <3>3. ASSUME ~Before(cursor, th) PROVE Passed(th)
      BY <1>1, <1>5, <3>1, <3>2, <3>3 DEF Passed, Before, Newer
    <3> QED BY <1>1, <1>5, <1>11, <2>2, <3>1, <3>3 DEF PassedInv, Rest
  <2> QED BY <2>1, <2>2
<1>12. CASE Page # Rest /\ Page # {}
  <2> DEFINE last == Last(Page)
  <2>1. /\ stage' = "idle" /\ cursor' = last /\ cursorAt' = read[last]
        /\ last \in Page /\ last \in Ids /\ last \in Rest /\ read[last] \in Nat \ {0}
    BY <1>1, <1>3, <1>4, <1>12 DEF Found
  <2>2. \A th \in Untouched : Passed(th)' <=> (th = last \/ Before(th, last))
    <3> HIDE DEF last
    <3> SUFFICES ASSUME NEW th \in Untouched
                 PROVE  ~Newer(read[last], last, read[th], th) <=> (th = last \/ Before(th, last))
      BY <1>5, <2>1 DEF Passed
    <3>1. th \in Nat /\ last \in Nat /\ read[th] \in Nat /\ read[last] \in Nat
      BY <1>1, <2>1
    <3> QED BY <3>1 DEF Before, Newer
  <2>3. CursorInv'
    BY <2>1 DEF CursorInv
  <2>4. ListedInv'
    <3> SUFFICES ASSUME ~up', NEW th \in Untouched, th \in listed \cup Page
                 PROVE  th = last \/ Before(th, last)
      BY <1>5, <2>2 DEF ListedInv
    <3>1. CASE th \in Page
      BY <1>3, <1>12, <3>1
    <3>2. CASE th \in listed
      <4>1. cursorAt # 0 /\ cursor \in Ids /\ ~Before(cursor, th)
        BY <1>1, <1>8, <3>2 DEF CursorInv
      <4>2. Before(cursor, last)
        BY <2>1, <4>1, PagesAssumption DEF Rest
      <4> QED BY <1>1, <2>1, <4>1, <4>2, BeforeIsAnOrder
    <3> QED BY <3>1, <3>2
  <2>5. PassedInv'
    <3> SUFFICES ASSUME whole, ~down', NEW th \in Untouched, th = last \/ Before(th, last)
                 PROVE  th \in listed \cup Page
      BY <1>5, <2>2 DEF PassedInv
    <3> QED BY <1>3, <1>11, <2>1
  <2>6. UntouchedAreListed'
    BY <2>1 DEF UntouchedAreListed
  <2> QED BY <1>6, <1>7, <1>10, <2>3, <2>4, <2>5, <2>6
<1>13. CASE ~(Page # Rest /\ Page # {})
  <2>1. stage' = "done" /\ Page = Rest
    BY <1>3, <1>13
  <2>2. UntouchedAreListed'
    BY <1>5, <1>11, <2>1 DEF UntouchedAreListed
  <2> QED
    BY <1>6, <1>7, <1>10, <2>1, <2>2 DEF CursorInv, ListedInv, PassedInv, Paging
<1> QED BY <1>12, <1>13

\* The invariant holds in every behaviour of the model.
THEOREM PagesInvariant == PagesSpec => []PagesInv
<1>1. ASSUME PagesInv, [PagesNext]_pagesVars PROVE PagesInv'
  <2>1. CASE UNCHANGED pagesVars
    BY <1>1, <2>1 DEF pagesVars, storeVars, ghostVars, PagesInv, PagesTypeOK, ReadInv, CursorInv,
                      ListedInv, PassedInv, Passed, Newer, Paging,
                      UntouchedAreListed, UntouchedListedOnce, Untouched
  <2>2. ASSUME NEW s \in Saves, TakeTime(s) PROVE PagesInv'
    BY <1>1, <2>2, TakeTimeKeeps
  <2>3. ASSUME NEW s \in Saves, Commit(s) PROVE PagesInv'
    BY <1>1, <2>3, CommitKeeps
  <2> QED
    BY <1>1, <2>1, <2>2, <2>3, RequestPageKeeps, ReadEntryKeeps, NoPageKeeps, AnswerKeeps
       DEF PagesNext
<1> QED BY <1>1, PagesInvInit, PTL DEF PagesSpec

\* A client that follows the cursors to the end is given every thread that was
\* not saved meanwhile, if no cursor's thread moved back (server.go:256-285).
THEOREM NoThreadIsMissed == PagesSpec => []UntouchedAreListed
<1>1. PagesInv => UntouchedAreListed
  BY DEF PagesInv
<1> QED BY <1>1, PagesInvariant, PTL

\* And none of them twice, if no cursor's thread moved to the front
\* (server.go:259-264).
THEOREM NoThreadIsRepeated == PagesSpec => []UntouchedListedOnce
<1>1. PagesInv => UntouchedListedOnce
  BY DEF PagesInv
<1> QED BY <1>1, PagesInvariant, PTL

-----------------------------------------------------------------------------
(* When a cursor's thread moves back *)

\* A save of the same thread that took its time later is through already.
Overtaken(s) ==
  \E p \in Saves : /\ save[p].pc = "done" /\ save[p].thread = save[s].thread
                   /\ save[p].time > save[s].time

\* Saves of one thread arrive in the order of their times.
SavesInOrder == [][\A s \in Saves : Commit(s) => ~Overtaken(s)]_pagesVars

\* A thread's time is from before the client came or from a save that is through.
TimesInv ==
  /\ now >= Start
  /\ \A s \in Saves : save[s].pc # "idle" => save[s].time >= Start
  /\ \A th \in Ids : at[th] > Start =>
       \E p \in Saves : save[p].pc = "done" /\ save[p].thread = th /\ save[p].time = at[th]

\* No thread is older than it was read, and no cursor's thread than it was given.
ForwardInv ==
  /\ ~down
  /\ stage = "listing" => \A th \in Ids \ todo : read[th] <= at[th]
  /\ Paging /\ cursorAt # 0 =>
       /\ at[cursor] >= cursorAt
       /\ stage = "listing" /\ cursor \notin todo => read[cursor] >= cursorAt

\* Both hold when the client comes.
LEMMA TimesInvInit == PagesInit => TimesInv /\ ForwardInv
BY PagesAssumption DEF PagesInit, TimesInv, ForwardInv, Paging

\* Every save that is under way has a time no earlier than Start.
LEMMA TimesInvStep ==
  ASSUME PagesInv, TimesInv, [PagesNext]_pagesVars
  PROVE  TimesInv'
<1>1. ASSUME NEW s \in Saves, TakeTime(s) PROVE TimesInv'
  <2> USE DEF PagesInv, PagesTypeOK
  <2>1. PICK th \in Ids :
          save' = [save EXCEPT ![s] = [pc |-> "timed", thread |-> th, time |-> now']]
    BY <1>1 DEF TakeTime
  <2>2. /\ now' >= now /\ now' \in Nat /\ now >= Start /\ at' = at /\ Start \in Nat /\ now \in Nat
        /\ save[s].pc = "idle"
    BY <1>1, PagesAssumption DEF TakeTime, TimesInv
  <2>3. now' >= Start
    BY <2>2
  <2>4. \A p \in Saves : p # s => save'[p] = save[p]
    BY <2>1
  <2>5. save'[s].time >= Start
    BY <2>1, <2>3
  <2>6. \A p \in Saves : save[p].pc = "done" => save'[p] = save[p]
    BY <2>2, <2>4
  <2> QED BY <2>2, <2>3, <2>4, <2>5, <2>6 DEF TimesInv
<1>2. ASSUME NEW s \in Saves, Commit(s) PROVE TimesInv'
  <2> USE DEF PagesInv, PagesTypeOK
  <2>1. /\ save'[s].pc = "done" /\ save'[s].thread = save[s].thread
        /\ save'[s].time = save[s].time /\ now' = now /\ save[s].pc = "timed"
        /\ \A p \in Saves : p # s => save'[p] = save[p]
    BY <1>2 DEF Commit
  <2>2. /\ at'[save[s].thread] = save[s].time
        /\ \A th \in Ids : th # save[s].thread => at'[th] = at[th]
    BY <1>2 DEF Commit
  <2>3. ASSUME NEW th \in Ids, at'[th] > Start
        PROVE  \E p \in Saves : /\ save'[p].pc = "done" /\ save'[p].thread = th
                                /\ save'[p].time = at'[th]
    BY <2>1, <2>2, <2>3 DEF TimesInv
  <2> QED BY <2>1, <2>3 DEF TimesInv
<1>3. CASE UNCHANGED storeVars
  BY <1>3 DEF TimesInv, storeVars
<1> QED
  BY <1>1, <1>2, <1>3 DEF PagesNext, RequestPage, ReadEntry, PageFails, Refuse, Answer,
                          pagesVars

\* A save that was not overtaken makes its thread no older.
LEMMA CommitForward ==
  ASSUME PagesInv, TimesInv, NEW s \in Saves, Commit(s), ~Overtaken(s)
  PROVE  \A th \in Ids : at'[th] >= at[th]
<1> USE DEF PagesInv, PagesTypeOK
<1>1. /\ at' = [at EXCEPT ![save[s].thread] = save[s].time]
      /\ save[s].pc = "timed" /\ save[s].thread \in Ids /\ save[s].time \in Nat
      /\ save[s].time >= Start /\ Start \in Nat
  BY PagesAssumption DEF Commit, TimesInv
<1>2. save[s].time >= at[save[s].thread]
  <2>1. CASE at[save[s].thread] > Start
    <3>1. PICK p \in Saves : /\ save[p].pc = "done" /\ save[p].thread = save[s].thread
                             /\ save[p].time = at[save[s].thread]
      BY <1>1, <2>1 DEF TimesInv
    <3>2. ~(at[save[s].thread] > save[s].time)
      BY <3>1 DEF Overtaken
    <3> QED BY <1>1, <3>2
  <2>2. CASE ~(at[save[s].thread] > Start)
    BY <1>1, <2>2
  <2> QED BY <2>1, <2>2
<1> QED BY <1>1, <1>2

\* So the thread of a cursor is found where it was given or nearer to the front.
LEMMA ForwardStep ==
  ASSUME PagesInv, TimesInv, ForwardInv, [PagesNext]_pagesVars,
         [\A s \in Saves : Commit(s) => ~Overtaken(s)]_pagesVars
  PROVE  ForwardInv'
<1> USE DEF PagesInv
<1>0. /\ at \in [Ids -> Nat] /\ read \in [Ids -> Nat] /\ cursorAt \in Nat /\ todo \subseteq Ids
      /\ Paging /\ cursorAt # 0 => cursor \in Ids
  BY DEF PagesTypeOK, CursorInv
<1>1. ASSUME NEW s \in Saves, TakeTime(s) PROVE ForwardInv'
  BY <1>1 DEF TakeTime, ForwardInv, Paging, ghostVars
<1>2. ASSUME NEW s \in Saves, Commit(s) PROVE ForwardInv'
  <2>1. ~Overtaken(s)
    <3>1. save' # save
      BY <1>2 DEF Commit, PagesTypeOK
    <3> QED BY <1>2, <3>1 DEF pagesVars, storeVars
  <2>2. \A th \in Ids : at'[th] >= at[th] /\ at'[th] \in Nat
    BY <1>2, <2>1, CommitForward DEF Commit, PagesTypeOK
  <2>3. UNCHANGED <<stage, cursor, todo, read, cursorAt, down>>
    BY <1>2 DEF Commit
  <2>4. \A th \in Ids : read[th] <= at[th] => read[th] <= at'[th]
    BY <1>0, <2>2
  <2>5. \A th \in Ids : at[th] >= cursorAt => at'[th] >= cursorAt
    BY <1>0, <2>2
  <2> QED BY <1>0, <2>3, <2>4, <2>5 DEF ForwardInv, Paging
<1>3. CASE RequestPage
  <2>1. \A th \in Ids \ todo' : at[th] = 0 /\ read'[th] = 0
    BY <1>3 DEF RequestPage, Nothing
  <2>2. UNCHANGED <<at, cursor, cursorAt, down>> /\ stage = "idle"
    BY <1>3 DEF RequestPage, storeVars, ghostVars
  <2>3. Paging /\ cursorAt # 0 => cursor \in todo'
    <3> SUFFICES ASSUME Paging, cursorAt # 0 PROVE at[cursor] # 0
      BY <1>0, <1>3 DEF RequestPage
    <3> QED BY <1>0 DEF ForwardInv
  <2> QED BY <1>0, <2>1, <2>2, <2>3 DEF ForwardInv, Paging
<1>4. CASE ReadEntry
  <2>1. PICK th \in todo : todo' = todo \ {th} /\ read' = [read EXCEPT ![th] = at[th]]
    BY <1>4 DEF ReadEntry
  <2>2. UNCHANGED <<at, cursor, cursorAt, down, stage>> /\ stage = "listing" /\ Paging
    BY <1>4 DEF ReadEntry, storeVars, ghostVars, Paging
  <2>3. \A u \in Ids : read'[u] = IF u = th THEN at[u] ELSE read[u]
    BY <1>0, <2>1
  <2>4. \A u \in Ids \ todo' : read'[u] <= at[u]
    BY <1>0, <2>1, <2>2, <2>3 DEF ForwardInv
  <2>5. cursorAt # 0 /\ cursor \notin todo' => read'[cursor] >= cursorAt
    BY <1>0, <2>1, <2>2, <2>3 DEF ForwardInv
  <2> QED BY <2>2, <2>4, <2>5 DEF ForwardInv, Paging
<1>5. CASE PageFails \/ Refuse
  BY <1>5 DEF PageFails, Refuse, ForwardInv, Paging, storeVars, ghostVars
<1>6. CASE Answer
  <2>1. /\ stage = "listing" /\ todo = {} /\ Paging /\ UNCHANGED <<at, todo, read>>
        /\ stage' \in {"idle", "done"}
    BY <1>6 DEF Answer, storeVars, Paging
  <2>2. cursorAt # 0 => ~(read[cursor] < cursorAt)
    BY <1>0, <2>1 DEF ForwardInv
  <2>3. ~down'
    BY <1>6, <2>2, Zenon DEF Answer, ForwardInv
  <2>4. \A th \in Ids : read[th] <= at[th]
    BY <2>1 DEF ForwardInv
  <2>5. Paging' => cursor' \in Ids /\ cursorAt' = read[cursor']
    <3> SUFFICES ASSUME stage' = "idle" PROVE cursor' \in Ids /\ cursorAt' = read[cursor']
      BY <2>1 DEF Paging
    <3>1. Page # {} /\ cursor' = Last(Page) /\ cursorAt' = read[Last(Page)]
      BY <1>6 DEF Answer
    <3>2. Last(Page) \in Page
      <4>1. limit \in Nat \ {0}
        BY <2>1 DEF ReadInv, PagesTypeOK
      <4> QED BY <1>0, <3>1, <4>1, PageIsPrefix
    <3>3. Page \subseteq Ids
      BY DEF Page, Rest, Found
    <3> QED BY <3>1, <3>2, <3>3
  <2> QED BY <1>0, <2>1, <2>3, <2>4, <2>5 DEF ForwardInv, Paging
<1>7. CASE UNCHANGED pagesVars
  BY <1>7 DEF pagesVars, storeVars, ghostVars, ForwardInv, Paging
<1> QED BY <1>1, <1>2, <1>3, <1>4, <1>5, <1>6, <1>7 DEF PagesNext

\* A client that follows the cursors to the end is given every thread that was
\* not saved meanwhile, if no save of a thread arrives behind a later one of it
\* (server.go:256-285, local.go:99-137).
THEOREM OnlyOvertakenSavesHide ==
  PagesSpec /\ SavesInOrder => [](stage = "done" /\ whole => Untouched \subseteq listed)
<1>1. PagesInv /\ ForwardInv => (stage = "done" /\ whole => Untouched \subseteq listed)
  BY DEF PagesInv, ForwardInv, UntouchedAreListed
<1>2. PagesInv /\ TimesInv /\ [PagesNext]_pagesVars => TimesInv'
  BY TimesInvStep
<1>3. PagesInv /\ TimesInv /\ ForwardInv /\ [PagesNext]_pagesVars
      /\ [\A s \in Saves : Commit(s) => ~Overtaken(s)]_pagesVars => ForwardInv'
  BY ForwardStep
<1> QED
  BY <1>1, <1>2, <1>3, PagesInvariant, TimesInvInit, PTL DEF PagesSpec, SavesInOrder
===============================================================================
