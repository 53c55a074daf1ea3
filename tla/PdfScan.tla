-------------------------------- MODULE PdfScan --------------------------------
(***************************************************************************)
(* contentScanner (internal/tokencounting/tokenizer/pdf.go): how the text  *)
(* of a PDF page is taken out of its content stream.  One action per round *)
(* of a loop; what the text is, is left out.                               *)
(*                                                                         *)
(* A stream is a sequence of characters by what the scanner tells apart:   *)
(* the delimiters ("{" for both braces), "space", "newline", "\\", "digit1" *)
(* for 0 and 1, "digit7" for 2 to 7, "hex" for the other hexadecimal       *)
(* digits, "quote" for the two operators of one character, ' and the       *)
(* double quote, "letter" for the rest, and the words "BI" and "EI".  mode *)
(* says which function runs; "top" is extractTextFromContent.  nest counts the  *)
(* calls of parseArray, depth the open parentheses or dictionaries.        *)
(***************************************************************************)
EXTENDS Integers, Sequences, FiniteSetsExt

Characters == {"(", ")", "<", ">", "[", "]", "{", "/", "%", "space", "newline", "\\",
               "digit1", "digit7", "hex", "quote", "letter", "BI", "EI"}

VARIABLES data, pos, mode, depth, nest
scanVars == <<data, pos, mode, depth, nest>>

Modes == {"top", "string", "array", "dictionary", "ended", "failed"}

Scanning(content) ==
  data = content /\ pos = 1 /\ mode = "top" /\ depth = 0 /\ nest = 0

ScanStarts(content) ==
  data' = content /\ pos' = 1 /\ mode' = "top" /\ depth' = 0 /\ nest' = 0

-----------------------------------------------------------------------------
Space     == {"space", "newline"}
Delimiter == {"(", ")", "<", ">", "[", "]", "{", "/", "%"}
Octal     == {"digit1", "digit7"}
Hex       == Octal \cup {"hex"}

AtEnd == pos > Len(data)
At(c) == ~AtEnd /\ data[pos] = c
At2(c) == At(c) /\ pos < Len(data) /\ data[pos + 1] = c

\* The first position from p on that holds one of cs, or the one behind the end.
NextOf(cs, p) == Min({i \in p .. Len(data) : data[i] \in cs} \cup {Len(data) + 1})

\* Where readToken stops; it takes nothing in front of a delimiter.
TokenEnd(p) == NextOf(Delimiter \cup Space, p)

GoTo(p, m) == pos' = p /\ mode' = m /\ UNCHANGED <<data, depth, nest>>

\* The function that called the one that ends.
Caller == IF nest > 0 THEN "array" ELSE "top"

Loops == mode \in {"top", "array"}

-----------------------------------------------------------------------------
SkipSpace   == Loops /\ ~AtEnd /\ data[pos] \in Space /\ GoTo(pos + 1, mode)
SkipComment == Loops /\ At("%") /\ GoTo(NextOf({"newline"}, pos), mode)

Ends == mode = "top" /\ AtEnd /\ GoTo(pos, "ended")

\* The stream ends in a string or in an array.
Unterminated == mode \in {"string", "array"} /\ AtEnd /\ GoTo(pos, "failed")

(* parseLiteralString *)

OpenString ==
  /\ Loops /\ At("(")
  /\ pos' = pos + 1 /\ mode' = "string" /\ depth' = 1 /\ UNCHANGED <<data, nest>>

StringCharacter ==
  /\ mode = "string" /\ ~AtEnd /\ data[pos] # "\\"
  /\ pos' = pos + 1
  /\ depth' = CASE At("(") -> depth + 1 [] At(")") -> depth - 1 [] OTHER -> depth
  /\ mode' = IF depth' = 0 THEN Caller ELSE mode
  /\ UNCHANGED <<data, nest>>

\* ParseInt with 8 bits refuses what is more than \177: three digits, of which
\* the first is not 0 or 1.
OctalEnd == Min({NextOf(Characters \ Octal, pos + 1), pos + 4})

Escape ==
  /\ mode = "string" /\ At("\\")
  /\ IF pos = Len(data) \/ (data[pos + 1] = "digit7" /\ OctalEnd = pos + 4)
       THEN GoTo(pos, "failed")
     ELSE IF data[pos + 1] \in Octal
       THEN GoTo(OctalEnd, mode)
     ELSE GoTo(pos + 2, mode)

(* parseHexString *)

HexString ==
  /\ Loops /\ At("<") /\ ~At2("<")
  /\ LET end == NextOf({">"}, pos) IN
     IF end > Len(data) \/ \E i \in pos + 1 .. end - 1 : data[i] \notin Hex \cup Space
       THEN GoTo(pos, "failed")
       ELSE GoTo(end + 1, mode)

(* skipDictionary *)

OpenDictionary ==
  /\ Loops /\ At2("<")
  /\ pos' = pos + 2 /\ mode' = "dictionary" /\ depth' = 1 /\ UNCHANGED <<data, nest>>

InDictionary ==
  /\ mode = "dictionary" /\ ~AtEnd
  /\ depth' = CASE At2("<") -> depth + 1 [] At2(">") -> depth - 1 [] OTHER -> depth
  /\ pos' = IF At2("<") \/ At2(">") THEN pos + 2 ELSE pos + 1
  /\ mode' = IF depth' = 0 THEN Caller ELSE mode
  /\ UNCHANGED <<data, nest>>

DictionaryUnended == mode = "dictionary" /\ AtEnd /\ GoTo(pos, Caller)

(* parseArray *)

OpenArray ==
  /\ Loops /\ At("[")
  /\ pos' = pos + 1 /\ mode' = "array" /\ nest' = nest + 1 /\ UNCHANGED <<data, depth>>

CloseArray ==
  /\ mode = "array" /\ At("]")
  /\ pos' = pos + 1 /\ nest' = nest - 1 /\ mode' = IF nest = 1 THEN "top" ELSE "array"
  /\ UNCHANGED <<data, depth>>

\* parseArray drops any other token, but readToken takes nothing at a delimiter:
\* a "/", ")", ">" or "{" in an array is looked at again and again.
ArrayToken ==
  /\ mode = "array" /\ ~AtEnd
  /\ data[pos] \notin Space \cup {"%", "]", "(", "<", "["}
  /\ GoTo(TokenEnd(pos), mode)

(* The other tokens of nextToken *)

Name == mode = "top" /\ At("/") /\ GoTo(TokenEnd(pos + 1), mode)

\* Mutant of Stray: a delimiter that begins nothing is not taken.
StrayKept == mode = "top" /\ ~AtEnd /\ data[pos] \in {")", ">", "]", "{"} /\ GoTo(pos, mode)

\* A delimiter that begins nothing.
Stray == mode = "top" /\ ~AtEnd /\ data[pos] \in {")", ">", "]", "{"} /\ GoTo(pos + 1, mode)

\* An operator of its own, whatever follows; inside a word, and in an array, it is
\* as any other character.
Quote == mode = "top" /\ At("quote") /\ GoTo(pos + 1, mode)

\* BI is the start of an inline image, which goes on to the next EI wherever it is.
Operator ==
  /\ mode = "top" /\ ~AtEnd
  /\ data[pos] \notin Space \cup Delimiter \cup {"quote"}
  /\ LET end == TokenEnd(pos) IN
     IF At("BI") /\ end = pos + 1
       THEN GoTo(Min({NextOf({"EI"}, end) + 1, Len(data) + 1}), mode)
       ELSE GoTo(end, mode)

ScanStep ==
  \/ SkipSpace \/ SkipComment \/ Ends \/ Unterminated
  \/ OpenString \/ StringCharacter \/ Escape \/ HexString
  \/ OpenDictionary \/ InDictionary \/ DictionaryUnended
  \/ OpenArray \/ CloseArray \/ ArrayToken
  \/ Name \/ Stray \/ Quote \/ Operator

-----------------------------------------------------------------------------
\* A delimiter inside an array that parseArray neither takes nor refuses.
Stuck == mode = "array" /\ ~AtEnd /\ data[pos] \in {")", ">", "{", "/"}
===============================================================================
