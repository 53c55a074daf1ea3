------------------------------ MODULE ThreadPages ------------------------------
(***************************************************************************)
(* thread/list (handleThreadList, internal/server/server.go): a client     *)
(* follows the cursors of one listing, page by page, while turns of this   *)
(* and of other processes save threads.                                    *)
(*                                                                         *)
(* Every page reads the whole store again: LocalStore.List names the files *)
(* at one moment (ReadDir) and reads them one by one, so its times are not *)
(* of one moment either.  A save takes its time first and reaches the      *)
(* thread's file later, in a single step (ThreadStore shows why it may be  *)
(* one), so that two saves of a thread can arrive in the other order.      *)
(*                                                                         *)
(* A cursor is a thread id: where it stands is looked up in the new list.  *)
(* For the properties only: cursorAt, the time that the list which gave    *)
(* the cursor had for it; listed and again, the threads handed out at      *)
(* least once and more than once; touched, those saved since the first     *)
(* page was asked for; up and down, whether a cursor was found before or   *)
(* behind the place it was given at; whole, whether the client began with  *)
(* no cursor.                                                              *)
(***************************************************************************)
EXTENDS Integers, FiniteSets

CONSTANTS Ids,           \* thread ids; as numbers they have the order sort.Slice uses
          NoThread,      \* the empty cursor
          Saves,         \* the saves made in a behaviour
          Asked,         \* the limits a client asks for
          DefaultLimit, MaxLimit,
          Start,         \* the time at which the client comes
          MaxFailures    \* caps the requests that fail

ASSUME PagesAssumption ==
  /\ Ids # {} /\ Ids \subseteq Nat /\ IsFiniteSet(Ids) /\ NoThread \notin Ids
  /\ Asked \subseteq Int
  /\ DefaultLimit \in Nat \ {0} /\ MaxLimit \in Nat \ {0}
  /\ Start \in Nat /\ MaxFailures \in Nat

VARIABLES at,      \* thread id to updated_at, 0 if it was never saved
          now, save,
          stage, cursor, limit, todo, read, failures,
          cursorAt, listed, again, touched, up, down, whole
storeVars == <<at, now, save>>
ghostVars == <<cursorAt, listed, again, touched, up, down, whole>>
pagesVars == <<storeVars, stage, cursor, limit, todo, read, failures, ghostVars>>

Nothing == [th \in Ids |-> 0]

\* Any threads saved earlier at any order of times; the client starts from
\* nothing or from an id it has from elsewhere.
PagesInit ==
  /\ now = Start
  /\ at \in [Ids -> 0 .. now]
  /\ save = [s \in Saves |-> [pc |-> "idle", thread |-> CHOOSE th \in Ids : TRUE, time |-> 0]]
  /\ stage = "idle" /\ cursor \in Ids \cup {NoThread} /\ limit = 0
  /\ todo = {} /\ read = Nothing /\ failures = 0
  /\ cursorAt = 0 /\ listed = {} /\ again = {} /\ touched = {}
  /\ up = FALSE /\ down = FALSE /\ whole = (cursor = NoThread)

-----------------------------------------------------------------------------
(* The store *)

\* Save reads the time of day; two saves may see the same one.
TakeTime(s) ==
  /\ save[s].pc = "idle"
  /\ now' \in {now, now + 1} \ {0}
  /\ \E th \in Ids :
       save' = [save EXCEPT ![s] = [pc |-> "timed", thread |-> th, time |-> now']]
  /\ UNCHANGED <<at, stage, cursor, limit, todo, read, failures, ghostVars>>

\* The file is renamed into its place.
Commit(s) ==
  /\ save[s].pc = "timed"
  /\ at' = [at EXCEPT ![save[s].thread] = save[s].time]
  /\ save' = [save EXCEPT ![s] = [@ EXCEPT !.pc = "done"]]
  /\ touched' = IF stage = "idle" /\ listed = {} THEN touched
                ELSE touched \cup {save[s].thread}
  /\ UNCHANGED <<now, stage, cursor, limit, todo, read, failures,
                 cursorAt, listed, again, up, down, whole>>

-----------------------------------------------------------------------------
(* One page *)

Limit(n) == LET wanted == IF n <= 0 THEN DefaultLimit ELSE n IN
            IF wanted > MaxLimit THEN MaxLimit ELSE wanted

\* The client asks, and List reads the names in the directory.
RequestPage ==
  /\ stage = "idle"
  /\ stage' = "listing"
  /\ \E n \in Asked : limit' = Limit(n)
  /\ todo' = {th \in Ids : at[th] # 0}
  /\ read' = Nothing
  /\ UNCHANGED <<storeVars, cursor, failures, ghostVars>>

\* One file, in any order.
ReadEntry ==
  /\ stage = "listing"
  /\ \E th \in todo : /\ todo' = todo \ {th}
                      /\ read' = [read EXCEPT ![th] = at[th]]
  /\ UNCHANGED <<storeVars, stage, cursor, limit, failures, ghostVars>>

\* List fails or its context ends; the client may ask for the page again.
PageFails ==
  /\ stage = "listing"
  /\ failures < MaxFailures
  /\ stage' = "idle" /\ failures' = failures + 1
  /\ UNCHANGED <<storeVars, cursor, limit, todo, read, ghostVars>>

\* List's order: newest first, then by id.
Newer(t, a, u, b) == t > u \/ (t = u /\ a < b)
Before(a, b) == Newer(read[a], a, read[b], b)

Found == {th \in Ids : read[th] # 0}

\* Mutant of Rest: the page begins with its cursor.
RestWithCursor ==
  IF cursor = NoThread THEN Found ELSE {th \in Found : th = cursor \/ Before(cursor, th)}

\* threads[start:].
Rest == IF cursor = NoThread THEN Found ELSE {th \in Found : Before(cursor, th)}

\* threads[start:end].
Page == {th \in Rest : Cardinality({u \in Rest : Before(u, th)}) < limit}

\* Mutant of Last: the cursor names the first thread of the next page.
FirstOfNext(page) == CHOOSE th \in Rest \ page : \A u \in Rest \ page : u = th \/ Before(th, u)

Last(page) == CHOOSE th \in page : \A u \in page : u = th \/ Before(u, th)

Refuse ==
  /\ stage = "listing" /\ todo = {}
  /\ cursor \notin Found \cup {NoThread}
  /\ stage' = "refused"
  /\ UNCHANGED <<storeVars, cursor, limit, todo, read, failures, ghostVars>>

Answer ==
  /\ stage = "listing" /\ todo = {}
  /\ cursor \in Found \cup {NoThread}
  /\ listed' = listed \cup Page
  /\ again' = again \cup (listed \cap Page)
  /\ IF Page # Rest /\ Page # {}
       THEN /\ stage' = "idle" /\ cursor' = Last(Page) /\ cursorAt' = read[Last(Page)]
       ELSE stage' = "done" /\ UNCHANGED <<cursor, cursorAt>>
  /\ up'   = (up \/ (cursorAt # 0 /\ read[cursor] > cursorAt))
  /\ down' = (down \/ (cursorAt # 0 /\ read[cursor] < cursorAt))
  /\ UNCHANGED <<storeVars, limit, todo, read, failures, touched, whole>>

PagesNext ==
  \/ \E s \in Saves : TakeTime(s) \/ Commit(s)
  \/ RequestPage \/ ReadEntry \/ PageFails \/ Refuse \/ Answer

PagesSpec == PagesInit /\ [][PagesNext]_pagesVars

\* The client asks for the next page, the server's goroutine runs on.  Nobody
\* has to save.
PagesFairSpec ==
  PagesSpec /\ WF_pagesVars(RequestPage) /\ WF_pagesVars(ReadEntry) /\ WF_pagesVars(Refuse \/ Answer)

-----------------------------------------------------------------------------
PagesTypeOK ==
  /\ at \in [Ids -> Nat] /\ now \in Nat
  /\ save \in [Saves -> [pc : {"idle", "timed", "done"}, thread : Ids, time : Nat]]
  /\ stage \in {"idle", "listing", "refused", "done"}
  /\ cursor \in Ids \cup {NoThread} /\ limit \in Nat
  /\ todo \subseteq Ids /\ read \in [Ids -> Nat] /\ failures \in Nat
  /\ cursorAt \in Nat /\ listed \subseteq Ids /\ again \subseteq listed
  /\ touched \subseteq Ids
  /\ up \in BOOLEAN /\ down \in BOOLEAN /\ whole \in BOOLEAN

\* Threads that exist and that no turn saved since the first page was asked for.
Untouched == {th \in Ids : at[th] # 0} \ touched

\* A client that follows the cursors to the end is given every thread that was
\* not saved meanwhile, unless the thread of a cursor moved back in the list,
\* which only two overlapping saves of it can cause (server.go:256-285,
\* local.go:99-137).
UntouchedAreListed ==
  stage = "done" /\ whole /\ ~down => Untouched \subseteq listed

\* And none of them twice, unless the thread of a cursor was itself saved and
\* moved to the front (server.go:259-264).
UntouchedListedOnce ==
  ~up => Untouched \cap again = {}

\* Once nothing is saved any more, the cursors come to an end (server.go:280-284).
PagingEnds == <>(stage \in {"done", "refused"})
===============================================================================
