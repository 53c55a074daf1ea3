------------------------------- MODULE ToolOutput -------------------------------
(***************************************************************************)
(* The way of one tool's output through a turn: the provider checks its    *)
(* content (internal/mcp/content.go, http.go, shell.go), its tokens are    *)
(* counted (internal/tokencounting), it becomes a record, and from then on *)
(* it is shown to the model (internal/llm/messages.go) and summarized      *)
(* (internal/message) in this turn and in every later one.  Each of these  *)
(* looks at the same fields in code of its own; the last two panic at what *)
(* they do not expect.                                                     *)
(*                                                                         *)
(* A field is what the code tells of it: "" and " " are the empty and the  *)
(* blank text.  A content item has all fields; those its type has no use   *)
(* for are "".  The text of a PDF is found by PdfScan.                     *)
(***************************************************************************)
EXTENDS PdfScan

CONSTANTS Contents,      \* what MCP servers answer: sequences of items
          PageContents,  \* the content streams of a PDF's page
          NoResource

VARIABLES source,   \* "mcp", "structured" (content of an HTTP server) or "shell"
          content, pc, part
outputVars == <<source, content, pc, part>>
vars == <<outputVars, scanVars>>

Blank(field) == field \in {"", " "}

Types    == {"text", "image", "audio", "resource"}
AudioMimes == {"audio/mpeg"}   \* stands for those of mimeExtensions
Texts    == {"", " ", "word"}
Mimes    == {"", " ", "image/png"} \cup AudioMimes
\* base64 text or not, and of an image that can be decoded or not
Encoded  == {"", " ", "not base64", "bytes", "picture"}
\* by what path.Base and path.Ext make of it; "x:/" has no file name
Uris     == {"", " ", "x:/", "a.pdf", "a.txt", "a.mp3", "a.bin"}

Resources == [uri : Uris, text : Texts, blob : Encoded]
Items == [type : Types \cup {"", "other"}, text : Texts, mime : Mimes, data : Encoded,
          resource : Resources \cup {NoResource}]

ASSUME OutputAssumption ==
  /\ NoResource \notin Resources
  /\ Contents \subseteq Seq(Items)
  /\ PageContents \subseteq Seq(Characters)

TextItem(text) ==
  [type |-> "text", text |-> text, mime |-> "", data |-> "", resource |-> NoResource]

Only(type, c) == \A i \in DOMAIN c : c[i].type = type

-----------------------------------------------------------------------------
(* ValidateContentItems *)

ValidResource(r) == r # NoResource /\ ~Blank(r.uri) /\ (Blank(r.text) <=> ~Blank(r.blob))

ValidItem(item) ==
  CASE item.type = "text"               -> TRUE
    [] item.type \in {"image", "audio"} -> ~Blank(item.mime) /\ ~Blank(item.data)
    [] item.type = "resource"           -> ValidResource(item.resource)
    [] OTHER                            -> FALSE

Valid(c) ==
  /\ c # <<>>
  /\ \A i \in DOMAIN c : ValidItem(c[i])
  /\ Only("text", c) => \E i \in DOMAIN c : ~Blank(c[i].text)

-----------------------------------------------------------------------------
(* Token counting: payload.go, then parse.go on its JSON, then count.go *)

FileName(uri) == IF uri \in {"", " ", "x:/"} THEN "" ELSE uri
Decodes(field) == field \in {"bytes", "picture"}

\* The part that contentPartFromMCP makes of an item, if it makes one.
HasPart(item) ==
  CASE item.type = "text"     -> TRUE
    [] item.type = "image"    -> ~Blank(item.mime) /\ ~Blank(item.data)
    [] item.type = "audio"    -> item.mime \in AudioMimes /\ ~Blank(item.data)
    [] item.type = "resource" ->
         /\ item.resource # NoResource
         /\ Blank(item.resource.text) <=> ~Blank(item.resource.blob)
         /\ Blank(item.resource.text) => FileName(item.resource.uri) # ""
    [] OTHER -> FALSE

NoPart == [kind |-> "none", text |-> "", data |-> "", file |-> ""]

PartOf(item) ==
  CASE item.type = "text"  -> [NoPart EXCEPT !.kind = "text", !.text = item.text]
    [] item.type = "image" -> [NoPart EXCEPT !.kind = "image", !.data = item.data]
    [] item.type = "audio" -> [NoPart EXCEPT !.kind = "file", !.data = item.data, !.file = "a.mp3"]
    [] OTHER -> IF Blank(item.resource.text)
                  THEN [NoPart EXCEPT !.kind = "file", !.data = item.resource.blob,
                                      !.file = FileName(item.resource.uri)]
                  ELSE [NoPart EXCEPT !.kind = "text", !.text = item.resource.text]

\* Mutant of Parses: an empty text is written, too.
ParsesAll(p) == TRUE

\* An empty text is left out of the JSON, and then missed by its reader.
Parses(p) == p.kind = "text" => p.text # ""

\* Whether a part other than a PDF can be counted.
Counts(p) ==
  CASE p.kind = "text"  -> TRUE
    [] p.kind = "image" -> p.data = "picture"
    [] OTHER            -> Decodes(p.data) /\ p.file = "a.txt"

IsPdf(p) == p.kind = "file" /\ Decodes(p.data) /\ p.file = "a.pdf"

-----------------------------------------------------------------------------
(* A record in use: functionCallOutputPayload of llm, TextForSummary *)

PanicsAt(item) ==
  CASE item.type \in {"image", "audio"} -> Blank(item.mime) \/ Blank(item.data)
    [] item.type = "resource" -> \/ item.resource = NoResource
                                 \/ Blank(item.resource.text) <=> Blank(item.resource.blob)
    [] OTHER -> FALSE

\* Mutant of Refuses: a resource needs a file name even if it is a text.
RefusesUnnamed(item) ==
  CASE item.type \in {"text", "image"} -> FALSE
    [] item.type = "audio"    -> item.mime \notin AudioMimes
    [] item.type = "resource" -> FileName(item.resource.uri) = ""
    [] OTHER -> TRUE

Refuses(item) ==
  CASE item.type \in {"text", "image"} -> FALSE
    [] item.type = "audio"    -> item.mime \notin AudioMimes
    [] item.type = "resource" -> Blank(item.resource.text) /\ FileName(item.resource.uri) = ""
    [] OTHER -> TRUE

\* The first item that is wrong decides.
Hindered(i) == PanicsAt(content[i]) \/ Refuses(content[i])
FirstHindered == {i \in DOMAIN content : Hindered(i) /\ \A j \in 1 .. i - 1 : ~Hindered(j)}

Shown ==
  IF content = <<>> THEN "panicked"
  ELSE IF Only("text", content) \/ FirstHindered = {} THEN "shown"
  ELSE IF \E i \in FirstHindered : PanicsAt(content[i]) THEN "panicked"
  ELSE "unusable"

Rendered ==
  IF \E i \in DOMAIN content : content[i].type = "resource" /\ content[i].resource = NoResource
    THEN "panicked" ELSE "rendered"

-----------------------------------------------------------------------------
\* The content of an MCP server is any of Contents; an HTTP server's library
\* lets only some of them through, and turns structured content into one text.
Init ==
  /\ \/ source = "mcp" /\ content \in Contents
     \/ source = "structured" /\ content = <<TextItem("word")>>
     \/ source = "shell" /\ content \in {<<TextItem(text)>> : text \in Texts}
  /\ pc = "returned" /\ part = 1
  /\ Scanning(<<>>)

Become(stage) == pc' = stage /\ UNCHANGED <<source, content, part, scanVars>>

\* The provider's CallTool returns.  What the shell or a structured answer says is
\* not validated.
Accept ==
  /\ pc = "returned"
  /\ Become(IF source \in {"structured", "shell"} \/ Valid(content)
              THEN "accepted" ELSE "refused")

\* The payload is made and parsed as a whole before anything is counted; texts
\* alone become one string.
Build ==
  /\ pc = "accepted"
  /\ Become(IF content = <<>> THEN "failed"
            ELSE IF Only("text", content) THEN "recorded"
            ELSE IF \A i \in DOMAIN content : HasPart(content[i]) /\ Parses(PartOf(content[i]))
              THEN "counting" ELSE "failed")

CountPart ==
  /\ pc = "counting" /\ part <= Len(content)
  /\ ~IsPdf(PartOf(content[part]))
  /\ IF Counts(PartOf(content[part]))
       THEN part' = part + 1 /\ pc' = pc
       ELSE pc' = "failed" /\ part' = part
  /\ UNCHANGED <<source, content, scanVars>>

\* A PDF is opened by a library, which may refuse it; then a page is scanned.
CountPdf ==
  /\ pc = "counting" /\ part <= Len(content)
  /\ IsPdf(PartOf(content[part]))
  /\ \/ pc' = "failed" /\ UNCHANGED scanVars
     \/ pc' = "scanning" /\ \E page \in PageContents : ScanStarts(page)
  /\ UNCHANGED <<source, content, part>>

Scan == pc = "scanning" /\ ScanStep /\ UNCHANGED outputVars

\* The sizes of the pages are counted when all their texts are there, and one that
\* is not positive panics, which ends the process.
Scanned ==
  /\ pc = "scanning" /\ mode \in {"ended", "failed"}
  /\ \/ mode = "ended" /\ pc' = "counting" /\ part' = part + 1
     \/ mode = "ended" /\ pc' = "crashed" /\ part' = part
     \/ mode = "failed" /\ pc' = "failed" /\ part' = part
  /\ ScanStarts(<<>>)
  /\ UNCHANGED <<source, content>>

Record == pc = "counting" /\ part > Len(content) /\ Become("recorded")

\* From now on any stage of any turn may show the record or summarize it.
Show   == pc = "recorded" /\ Become(Shown)
Render == pc = "recorded" /\ Become(Rendered)

Next ==
  \/ Accept \/ Build \/ CountPart \/ CountPdf \/ Scan \/ Scanned \/ Record \/ Show \/ Render

Spec == Init /\ [][Next]_vars

\* The turn's goroutine runs on.
FairSpec == Spec /\ WF_vars(Next)

-----------------------------------------------------------------------------
InUse  == {"recorded", "shown", "rendered"}
Broken == {"panicked", "unusable"}

\* What was accepted and counted can be shown to the model and summarized, in this
\* turn and in every later one: the panics of llm/messages.go:68-172 and
\* message.go:243 cannot be reached, and no stored history is one that
\* MessagesToInput refuses for good.
RecordedIsUsable == pc \notin Broken

\* An item that counting knows how to count.
Countable(item) ==
  CASE item.type = "text"     -> item.text # ""
    [] item.type = "image"    -> item.data = "picture"
    [] item.type = "resource" -> \/ ~Blank(item.resource.text)
                                 \/ /\ item.resource.uri \in {"a.txt", "a.pdf"}
                                    /\ Decodes(item.resource.blob)
    [] OTHER -> FALSE

HasPdf == \E i \in DOMAIN content : IsPdf(PartOf(content[i]))

\* An output that a provider accepted ends its turn after the tool has acted
\* exactly if an item of it cannot be counted: any audio, and an empty text beside
\* something else, which content.go:74-125 lets pass (payload.go:97-122,
\* parse.go:157-224, file.go:62-89).  A PDF may fail in its library or its text,
\* and nothing else ends the process here, by the size of a page (pdf.go:79-82).
FailsOnUncountable ==
  LET countable == Only("text", content) \/ \A i \in DOMAIN content : Countable(content[i]) IN
  /\ pc \in InUse  => countable
  /\ pc = "failed" => ~countable \/ HasPdf
  /\ pc = "crashed" => HasPdf

\* Every output comes to its end, but for a page with a stray delimiter in an
\* array (pdf.go:438-462), at which counting stays; it looks at no context.
OutputEnds ==
  <>(pc \in InUse \cup Broken \cup {"refused", "failed", "crashed"} \/ (pc = "scanning" /\ Stuck))
===============================================================================
