------------------------------- MODULE ToolIndex -------------------------------
(***************************************************************************)
(* Which provider a tool call reaches (internal/mcp/multi.go, reserved.go, *)
(* cmd/agn/main.go).  The providers are nested:                            *)
(*                                                                         *)
(*   MultiClient(shell, Reserved(MultiClient(MCP servers)))                *)
(*                                                                         *)
(* or, with the shell tool disabled, Reserved(MultiClient(MCP servers)).   *)
(* All turns of a process share them.  Every turn lists the tools when it  *)
(* loads its thread, and each MultiClient then replaces its toolIndex,     *)
(* while other turns call tools through it; no lock is taken.  The field   *)
(* is one pointer to a map that is not changed any more, so a reader finds *)
(* the index of one listing or of another, never a mixture.                *)
(*                                                                         *)
(* What the servers offer may change at any time.  changed, for the        *)
(* properties only, holds the names for which it ever did.                 *)
(***************************************************************************)
EXTENDS Integers, Sequences

CONSTANTS Turns,          \* the turns that may run at the same time, one after another in each
          Servers,        \* the configured MCP servers, in the order they were started
          Names,          \* tool names
          Shell,          \* the name "shell"
          PaddedShells,   \* names that strings.TrimSpace makes "shell"
          ShellProvider, McpProvider, Nobody,
          MaxChanges      \* caps the changes of what the servers offer

ServerSet == {Servers[i] : i \in DOMAIN Servers}

ASSUME IndexAssumption ==
  /\ Servers \in Seq(ServerSet)
  /\ Shell \in Names /\ PaddedShells \subseteq Names \ {Shell}
  /\ ShellProvider # McpProvider
  /\ {ShellProvider, McpProvider, Nobody} \cap ServerSet = {} /\ Nobody # ShellProvider
  /\ MaxChanges \in Nat

VARIABLES offers,      \* server to the names it has now
          withShell,   \* tools.shell.enabled
          inner,       \* toolIndex of the MCP servers' MultiClient
          outer,       \* toolIndex of the outer MultiClient, if there is one
          turn, changed, changes
indexVars == <<offers, withShell, inner, outer, turn, changed, changes>>

\* toolIndex is nil before the first listing: every name is unknown.
NoIndex == <<>>

\* The names of one more provider go to it.
With(index, names, provider) ==
  [n \in DOMAIN index \cup names |-> IF n \in DOMAIN index THEN index[n] ELSE provider]

Trim(name) == IF name \in PaddedShells THEN Shell ELSE name
Reserved(name) == Trim(name) = Shell

NewTurn == [pc |-> "listing", todo |-> Servers, index |-> NoIndex, offered |-> {},
            call |-> Shell, to |-> Nobody]

IndexInit ==
  /\ offers \in [ServerSet -> SUBSET Names]
  /\ withShell \in BOOLEAN
  /\ inner = NoIndex /\ outer = NoIndex
  /\ turn = [t \in Turns |-> NewTurn]
  /\ changed = {} /\ changes = 0

Set(t, changedTurn) == turn' = [turn EXCEPT ![t] = changedTurn]

\* An MCP server gets or loses a tool.
Change ==
  /\ changes < MaxChanges
  /\ \E s \in ServerSet, n \in Names :
       /\ offers' = [offers EXCEPT ![s] = IF n \in @ THEN @ \ {n} ELSE @ \cup {n}]
       /\ changed' = changed \cup {n}
  /\ changes' = changes + 1
  /\ UNCHANGED <<withShell, inner, outer, turn>>

-----------------------------------------------------------------------------
(* Listing, in Agent.load *)

\* Mutant of ListServer: the servers' tools go to toolIndex one by one.
ListServerInPlace(t) ==
  /\ turn[t].pc = "listing" /\ turn[t].todo # <<>>
  /\ LET s == Head(turn[t].todo)
         index == With(turn[t].index, offers[s], s) IN
     IF offers[s] \cap DOMAIN turn[t].index # {}
       THEN Set(t, [turn[t] EXCEPT !.pc = "failed"]) /\ UNCHANGED inner
       ELSE Set(t, [turn[t] EXCEPT !.todo = Tail(@), !.index = index]) /\ inner' = index
  /\ UNCHANGED <<offers, withShell, outer, changed, changes>>

\* One server answers tools/list; a name that an earlier one has is an error.
ListServer(t) ==
  /\ turn[t].pc = "listing" /\ turn[t].todo # <<>>
  /\ LET s == Head(turn[t].todo) IN
     IF offers[s] \cap DOMAIN turn[t].index # {}
       THEN Set(t, [turn[t] EXCEPT !.pc = "failed"])
       ELSE Set(t, [turn[t] EXCEPT !.todo = Tail(@),
                                   !.index = With(@, offers[s], s)])
  /\ UNCHANGED <<offers, withShell, inner, outer, changed, changes>>

\* A server does not answer, or the turn's context ends.
ListFails(t) ==
  /\ turn[t].pc = "listing" /\ turn[t].todo # <<>>
  /\ Set(t, [turn[t] EXCEPT !.pc = "failed"])
  /\ UNCHANGED <<offers, withShell, inner, outer, changed, changes>>

\* The inner index is replaced; only then are its names compared with the reserved ones.
SetInner(t) ==
  /\ turn[t].pc = "listing" /\ turn[t].todo = <<>>
  /\ inner' = turn[t].index
  /\ Set(t, [turn[t] EXCEPT !.pc = IF \E n \in DOMAIN turn[t].index : Reserved(n)
                                     THEN "failed" ELSE "listed"])
  /\ UNCHANGED <<offers, withShell, outer, changed, changes>>

\* The tools offered to the model are those of this listing.
SetOuter(t) ==
  LET own == IF withShell THEN With(NoIndex, {Shell}, ShellProvider) ELSE NoIndex
      all == With(own, DOMAIN turn[t].index, McpProvider) IN
  /\ turn[t].pc = "listed"
  /\ outer' = IF withShell THEN all ELSE outer
  /\ Set(t, [turn[t] EXCEPT !.pc = "ready", !.offered = DOMAIN all])
  /\ UNCHANGED <<offers, withShell, inner, changed, changes>>

-----------------------------------------------------------------------------
(* Calling, in Agent.executeTool *)

\* The model asks for any tool, offered or not.
Ask(t) ==
  /\ turn[t].pc = "ready"
  /\ \E n \in Names : Set(t, [turn[t] EXCEPT !.pc = "asked", !.call = n, !.to = Nobody])
  /\ UNCHANGED <<offers, withShell, inner, outer, changed, changes>>

\* The outer MultiClient, if there is one.
ThroughOuter(t) ==
  LET n == turn[t].call IN
  /\ turn[t].pc = "asked"
  /\ IF withShell /\ n \notin DOMAIN outer
       THEN Set(t, [turn[t] EXCEPT !.pc = "unknown"])
     ELSE IF withShell /\ outer[n] = ShellProvider
       THEN Set(t, [turn[t] EXCEPT !.pc = "called", !.to = ShellProvider])
     ELSE Set(t, [turn[t] EXCEPT !.pc = "mcp"])
  /\ UNCHANGED <<offers, withShell, inner, outer, changed, changes>>

\* Mutant of ThroughInner: only listings are compared with the reserved names.
ThroughInnerUnchecked(t) ==
  LET n == turn[t].call IN
  /\ turn[t].pc = "mcp"
  /\ IF n \notin DOMAIN inner
       THEN Set(t, [turn[t] EXCEPT !.pc = "unknown"])
     ELSE Set(t, [turn[t] EXCEPT !.pc = "called", !.to = inner[n]])
  /\ UNCHANGED <<offers, withShell, inner, outer, changed, changes>>

\* ReservedToolProvider, then the inner MultiClient.
ThroughInner(t) ==
  LET n == turn[t].call IN
  /\ turn[t].pc = "mcp"
  /\ IF Reserved(n)
       THEN Set(t, [turn[t] EXCEPT !.pc = "failed"])
     ELSE IF n \notin DOMAIN inner
       THEN Set(t, [turn[t] EXCEPT !.pc = "unknown"])
     ELSE Set(t, [turn[t] EXCEPT !.pc = "called", !.to = inner[n]])
  /\ UNCHANGED <<offers, withShell, inner, outer, changed, changes>>

\* The provider answers; the model asks again, or an error ends the turn.
Called(t) ==
  /\ turn[t].pc = "called"
  /\ \E pc \in {"ready", "failed"} : Set(t, [turn[t] EXCEPT !.pc = pc])
  /\ UNCHANGED <<offers, withShell, inner, outer, changed, changes>>

\* The model asks for nothing more, or the turn has failed; another one begins.
NextTurn(t) ==
  /\ turn[t].pc \in {"ready", "failed", "unknown"}
  /\ Set(t, NewTurn)
  /\ UNCHANGED <<offers, withShell, inner, outer, changed, changes>>

IndexNext ==
  \/ Change
  \/ \E t \in Turns :
       \/ ListServer(t) \/ ListFails(t) \/ SetInner(t) \/ SetOuter(t)
       \/ Ask(t) \/ ThroughOuter(t) \/ ThroughInner(t) \/ Called(t)
       \/ NextTurn(t)

IndexSpec == IndexInit /\ [][IndexNext]_indexVars

-----------------------------------------------------------------------------
Providers == ServerSet \cup {ShellProvider, Nobody}

\* The tools one provider has now.
Has(p, n) == IF p = ShellProvider THEN n = Shell ELSE n \in offers[p]

\* A tool that a turn was offered, and that no server got or lost, can be called
\* by it and is run by the provider that has it, whatever other turns list
\* meanwhile and whether their listings fail (multi.go:18-45).
OfferedToolsRouted ==
  \A t \in Turns : LET u == turn[t] IN
    u.call \in u.offered \ changed =>
      /\ u.pc # "unknown"
      /\ u.pc = "called" => Has(u.to, u.call)

\* No name that reads "shell" reaches an MCP server, and with the shell tool
\* enabled such a call reaches the shell or nobody, whatever names the servers
\* take (reserved.go:26-45, main.go:286-291).  A listing that was refused for
\* such a name has put it into the inner index all the same (multi.go:35).
ShellStaysOurs ==
  \A t \in Turns : turn[t].pc = "called" =>
    (Reserved(turn[t].call) <=> turn[t].to = ShellProvider)
===============================================================================
