------------------------------ MODULE ThreadStore ------------------------------
(***************************************************************************)
(* LocalStore (internal/state/local.go): the threads of every agn process  *)
(* of a user, one JSON file per thread in one directory.  An operation is  *)
(* one call of Save, Load or List by any process; processes share nothing  *)
(* but the directory and can be killed anywhere.                           *)
(*                                                                         *)
(* A thread's content is abstracted to the save that wrote it (by) and its *)
(* updated_at (at).  External: the file system.  CreateTemp, Rename,       *)
(* ReadDir and the opening of a file are atomic, a file that is open stays *)
(* readable when its name goes away, and the removal of a temp file after  *)
(* a failed step succeeds.  What the disk holds after a power failure is   *)
(* not modelled (the code never calls Sync).                               *)
(***************************************************************************)
EXTENDS Integers

CONSTANTS Ops,      \* the calls made in a behaviour
          NoOp,     \* "written by nobody"
          Threads   \* thread ids; as numbers they have the order sort.Slice uses

ASSUME StoreAssumption == NoOp \notin Ops /\ Threads # {} /\ Threads \subseteq Nat

VARIABLES files, op, clock
vars == <<files, op, clock>>

\* "<id>.json" and the "<id>.<random>.json" that CreateTemp gives to one save.
Names == [id : Threads, tmp : Ops \cup {NoOp}]
Final(th)   == [id |-> th, tmp |-> NoOp]
Temp(th, o) == [id |-> th, tmp |-> o]

Absent == [state |-> "absent", by |-> NoOp, at |-> 0]

NewOp == [pc |-> "idle", kind |-> "list", thread |-> CHOOSE th \in Threads : TRUE,
          result |-> NoOp, why |-> "", before |-> {}, todo |-> {}, found |-> {}]

Enters(o, pc) == op' = [op EXCEPT ![o] = [@ EXCEPT !.pc = pc]]

\* The call returns an error and nothing else.
Fails(o, why) ==
  op' = [op EXCEPT ![o] = [@ EXCEPT !.pc = "failed", !.why = why,
                                    !.todo = {}, !.found = {}]]

Init ==
  /\ files = [f \in Names |-> Absent]
  /\ op = [o \in Ops |-> NewOp]
  /\ clock = 0

\* A call (a list is of no thread); before, for properties only, holds the saves
\* that returned earlier.
Begin(o) ==
  /\ op[o].pc = "idle"
  /\ \E kind \in {"save", "load", "list"}, th \in Threads :
       /\ kind = "list" => th = op[o].thread
       /\ op' = [op EXCEPT ![o] =
                 [@ EXCEPT !.pc = "called", !.kind = kind, !.thread = th,
                           !.before = {p \in Ops : op[p].kind = "save"
                                                   /\ op[p].pc = "done"}]]
  /\ UNCHANGED <<files, clock>>

-----------------------------------------------------------------------------
(* Save *)

\* Mutant of CreateTemp: the thread's own file is opened and truncated.
CreateInPlace(o) ==
  /\ op[o].pc = "called" /\ op[o].kind = "save"
  /\ clock' \in {clock, clock + 1}
  /\ Enters(o, "created")
  /\ files' = [files EXCEPT ![Final(op[o].thread)] =
                 [state |-> "partial", by |-> o, at |-> clock']]

\* The thread is encoded with the time of day, then the temp file is created:
\* it is empty, and does not parse.
CreateTemp(o) ==
  /\ op[o].pc = "called" /\ op[o].kind = "save"
  /\ clock' \in {clock, clock + 1}
  /\ Enters(o, "created")
  /\ files' = [files EXCEPT ![Temp(op[o].thread, o)] =
                 [state |-> "partial", by |-> o, at |-> clock']]

\* tmp.Write and tmp.Close.
Write(o) ==
  /\ op[o].pc = "created"
  /\ files' = [files EXCEPT ![Temp(op[o].thread, o)] = [@ EXCEPT !.state = "whole"]]
  /\ Enters(o, "written")
  /\ UNCHANGED clock

\* Mutant of Rename: a copy, the temp file stays.
Copy(o) ==
  /\ op[o].pc = "written"
  /\ files' = [files EXCEPT ![Final(op[o].thread)] = files[Temp(op[o].thread, o)]]
  /\ Enters(o, "renamed")
  /\ UNCHANGED clock

Rename(o) ==
  /\ op[o].pc = "written"
  /\ files' = [files EXCEPT ![Final(op[o].thread)]   = files[Temp(op[o].thread, o)],
                            ![Temp(op[o].thread, o)] = Absent]
  /\ Enters(o, "renamed")
  /\ UNCHANGED clock

SaveReturns(o) ==
  /\ op[o].pc = "renamed"
  /\ Enters(o, "done")
  /\ UNCHANGED <<files, clock>>

\* Mutant of SaveFails: a failure is reported after the rename too.
SaveFailsLate(o) ==
  /\ op[o].kind = "save"
  /\ op[o].pc \in {"called", "created", "written", "renamed"}
  /\ files' = [files EXCEPT ![Temp(op[o].thread, o)] = Absent]
  /\ Fails(o, "fault")
  /\ UNCHANGED clock

\* A step of a save reports an error, or its context had ended before the first:
\* a temp file that was created is removed.
SaveFails(o) ==
  /\ op[o].kind = "save"
  /\ op[o].pc \in {"called", "created", "written"}
  /\ files' = [files EXCEPT ![Temp(op[o].thread, o)] = Absent]
  /\ Fails(o, "fault")
  /\ UNCHANGED clock

-----------------------------------------------------------------------------
(* Load *)

\* readThreadFile and decodeThread: no file is an empty thread.
ReadThread(o) ==
  LET file == files[Final(op[o].thread)] IN
  /\ op[o].pc = "called" /\ op[o].kind = "load"
  /\ IF file.state = "partial"
       THEN Fails(o, "parse")
       ELSE op' = [op EXCEPT ![o] = [@ EXCEPT !.pc = "done", !.result = file.by]]
  /\ UNCHANGED <<files, clock>>

\* The context had ended or the file cannot be read.
LoadFails(o) ==
  /\ op[o].pc = "called" /\ op[o].kind = "load"
  /\ Fails(o, "fault")
  /\ UNCHANGED <<files, clock>>

-----------------------------------------------------------------------------
(* List *)

ReadDir(o) ==
  /\ op[o].pc = "called" /\ op[o].kind = "list"
  /\ op' = [op EXCEPT ![o] = [@ EXCEPT !.pc = "listing",
                                       !.todo = {f \in Names : files[f] # Absent}]]
  /\ UNCHANGED <<files, clock>>

\* What ReadFile, Unmarshal and the comparison of the ids make of an entry.
EntryError(f) ==
  CASE files[f].state = "absent"  -> "gone"
    [] files[f].state = "partial" -> "parse"
    [] files[f].state = "whole" /\ f.tmp # NoOp -> "mismatch"
    [] OTHER -> ""

\* Mutant of ListEntry: an entry that cannot be read or parsed is left out.
ListEntrySkips(o) ==
  /\ op[o].pc = "listing"
  /\ \E f \in op[o].todo :
       op' = [op EXCEPT ![o] =
                [op[o] EXCEPT !.todo = @ \ {f},
                              !.found = IF files[f].state # "whole" THEN @
                                        ELSE @ \cup {[id |-> f.id, by |-> files[f].by,
                                                      at |-> files[f].at]}]]
  /\ UNCHANGED <<files, clock>>

\* One entry of the directory, in any order; the first error ends the list.
ListEntry(o) ==
  /\ op[o].pc = "listing"
  /\ \E f \in op[o].todo :
       IF EntryError(f) # ""
         THEN Fails(o, EntryError(f))
         ELSE op' = [op EXCEPT ![o] =
                       [op[o] EXCEPT !.todo = @ \ {f},
                                     !.found = @ \cup {[id |-> f.id, by |-> files[f].by,
                                                        at |-> files[f].at]}]]
  /\ UNCHANGED <<files, clock>>

\* Mutant of After.
OldestFirst(e, f) == IF e.at = f.at THEN e.id < f.id ELSE e.at < f.at

\* sort.Slice: newest first, then by id.
After(e, f) == IF e.at = f.at THEN e.id < f.id ELSE e.at > f.at

ListReturns(o) ==
  /\ op[o].pc = "listing"
  /\ op[o].todo = {}
  /\ Enters(o, "done")
  /\ UNCHANGED <<files, clock>>

\* The context ends before an entry, or a file or the directory cannot be read.
ListFails(o) ==
  /\ op[o].kind = "list"
  /\ op[o].pc \in {"called", "listing"}
  /\ Fails(o, "fault")
  /\ UNCHANGED <<files, clock>>

-----------------------------------------------------------------------------
\* The process of the call is killed; its files stay.
Crash(o) ==
  /\ op[o].pc \in {"called", "created", "written", "renamed", "listing"}
  /\ op' = [op EXCEPT ![o] = [@ EXCEPT !.pc = "crashed", !.todo = {}, !.found = {}]]
  /\ UNCHANGED <<files, clock>>

Next == \E o \in Ops :
  \/ Begin(o)
  \/ CreateTemp(o) \/ Write(o) \/ Rename(o) \/ SaveReturns(o) \/ SaveFails(o)
  \/ ReadThread(o) \/ LoadFails(o)
  \/ ReadDir(o) \/ ListEntry(o) \/ ListReturns(o) \/ ListFails(o)
  \/ Crash(o)

Spec == Init /\ [][Next]_vars

-----------------------------------------------------------------------------
Entry == [id : Threads, by : Ops, at : Nat]

Op ==
  [pc : {"idle", "called", "created", "written", "renamed", "listing",
         "done", "failed", "crashed"},
   kind : {"save", "load", "list"}, thread : Threads,
   result : Ops \cup {NoOp}, why : {"", "fault", "gone", "parse", "mismatch"},
   before : SUBSET Ops, todo : SUBSET Names, found : SUBSET Entry]

TypeOK ==
  /\ files \in [Names -> [state : {"absent", "partial", "whole"},
                          by : Ops \cup {NoOp}, at : Nat]]
  /\ op \in [Ops -> Op]
  /\ clock \in Nat

\* A thread's own file is absent or a whole version of that thread, by a save
\* that got through its rename, also when processes are killed inside a save or
\* save the same thread at the same time (local.go:122-143).
FinalFilesWhole ==
  \A th \in Threads : LET file == files[Final(th)] IN
    file # Absent =>
      /\ file.state = "whole"
      /\ op[file.by].kind = "save" /\ op[file.by].thread = th
      /\ op[file.by].pc \in {"renamed", "done", "crashed"}

\* No load meets a file that does not parse: it fails only for its context or
\* the disk (local.go:69-80).
LoadsNeverTorn ==
  \A o \in Ops : op[o].kind = "load" => op[o].why \in {"", "fault"}

\* A save that returned, well or with an error, has left no temp file: what is
\* in the directory for good belongs to a thread or to a process that was
\* killed (local.go:123-140).
TempsInFlight ==
  \A th \in Threads, o \in Ops :
    files[Temp(th, o)] # Absent => op[o].pc \in {"created", "written", "crashed"}

\* q wrote its version of the thread, and p replaced it, before o was called.
Outdated(q, o) ==
  \E p \in op[o].before : op[p].thread = op[q].thread /\ q \in op[p].before

\* A list that succeeds names every thread saved before it was called, each
\* once, and with no version that was already replaced by then, although files
\* come and go while it reads them (local.go:214-257).
ListsCompleteAndFresh ==
  \A o \in Ops : LET found == op[o].found IN
    op[o].kind = "list" /\ op[o].pc = "done" =>
      /\ \A p \in op[o].before : \E e \in found : e.id = op[p].thread
      /\ \A e, f \in found : e.id = f.id => e = f
      /\ \A e \in found : op[e.by].thread = e.id /\ ~Outdated(e.by, o)

\* A version whose save began after that of another version had returned is
\* listed before it, unless the clock shows the same time: what resume --last
\* takes is the thread saved last (local.go:100, 156-161; main.go:108-116).
ListsNewestFirst ==
  \A o \in Ops : \A e, f \in op[o].found :
    e.by \in op[f.by].before /\ e.at # f.at => After(f, e)

\* "Use most recent thread" (main.go:142): a list no fault of the disk and no
\* ended context hits succeeds.  It does not: the temp file of a save that has
\* not come to its rename, or never will, is an entry that ends in .json too.
ListsSucceed ==
  \A o \in Ops : op[o].kind = "list" => op[o].why \in {"", "fault"}

-----------------------------------------------------------------------------
Phase(o) ==
  CASE op[o].pc \in {"called", "created", "written", "listing"} -> "running"
    [] op[o].pc = "renamed" -> "applied"
    [] OTHER -> op[o].pc

\* For saves and loads the directory is an atomic register per thread.
Register == INSTANCE ThreadRegister WITH
  store <- [th \in Threads |-> files[Final(th)].by],
  call  <- [o \in Ops |-> [phase |-> Phase(o), kind |-> op[o].kind,
                           thread |-> op[o].thread, result |-> op[o].result]]

ImplementsRegister == Register!Spec
===============================================================================
