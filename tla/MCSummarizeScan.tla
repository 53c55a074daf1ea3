--------------------------- MODULE MCSummarizeScan ---------------------------
(***************************************************************************)
(* Every history of at most MaxLength records, the record at place p       *)
(* tagged with the turn p, with small token counts: tails that end inside  *)
(* a group of outputs, outputs without text, histories without any text.   *)
(***************************************************************************)
EXTENDS SummarizeScan

CONSTANTS MaxLength, RecordTokens

MCTurns == 1..MaxLength
MCCallIds == {"c"}

Shapes == [kind : {"human", "tool_call", "tool_calls", "tool_output", "blank_output"},
           tokens : RecordTokens]

RecordOf(shape, p) ==
  CASE shape.kind = "human"        -> Human(p, shape.tokens)
    [] shape.kind = "tool_call"    -> ToolCall(p, <<"c">>, shape.tokens)
    [] shape.kind = "tool_calls"   -> ToolCall(p, <<"c", "c">>, shape.tokens)
    [] shape.kind = "tool_output"  -> ToolOutput(p, "c", shape.tokens)
    [] shape.kind = "blank_output" ->
         [ToolOutput(p, "c", shape.tokens) EXCEPT !.text = FALSE]

MCInputs ==
  UNION {{[p \in 1..len |-> RecordOf(f[p], p)] : f \in [1..len -> Shapes]} :
         len \in 0..MaxLength}
=============================================================================
