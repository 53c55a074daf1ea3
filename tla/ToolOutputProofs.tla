---------------------------- MODULE ToolOutputProofs ---------------------------
(***************************************************************************)
(* Theorems about ToolOutput, for any content of any length and any pages: *)
(* what was accepted and counted can be shown to the model and summarized, *)
(* and which contents end their turn.                                      *)
(***************************************************************************)
EXTENDS ToolOutput, TLAPS

-----------------------------------------------------------------------------
(* Items *)

\* An item that was counted is one that the later stages expect.
Usable(item) ==
  /\ HasPart(item) /\ Parses(PartOf(item))
  /\ Counts(PartOf(item)) \/ IsPdf(PartOf(item))

\* The parts of the items.
LEMMA Parts ==
  ASSUME NEW item \in Items
  PROVE  /\ item.type = "text" => /\ PartOf(item).kind = "text" /\ PartOf(item).text = item.text
         /\ item.type = "image" => PartOf(item).kind = "image" /\ PartOf(item).data = item.data
         /\ item.type = "audio" => PartOf(item).kind = "file" /\ PartOf(item).file = "a.mp3"
         /\ item.type = "resource" /\ item.resource \in Resources /\ Blank(item.resource.text) =>
              /\ PartOf(item).kind = "file" /\ PartOf(item).data = item.resource.blob
              /\ PartOf(item).file = FileName(item.resource.uri)
         /\ item.type = "resource" /\ item.resource \in Resources /\ ~Blank(item.resource.text) =>
              /\ PartOf(item).kind = "text" /\ PartOf(item).text = item.resource.text
BY DEF PartOf, NoPart

\* What has a part neither panics nor is refused later on.
LEMMA PartsAreExpected ==
  ASSUME NEW item \in Items, HasPart(item)
  PROVE  /\ ~PanicsAt(item) /\ ~Refuses(item)
         /\ item.type = "resource" => item.resource # NoResource
<1>1. CASE item.type = "text"
  BY <1>1 DEF PanicsAt, Refuses
<1>2. CASE item.type = "image"
  BY <1>2 DEF HasPart, PanicsAt, Refuses
<1>3. CASE item.type = "audio"
  <2>1. ~Blank(item.mime)
    BY <1>3 DEF HasPart, AudioMimes, Blank
  <2> QED BY <1>3, <2>1 DEF HasPart, PanicsAt, Refuses
<1>4. CASE item.type = "resource"
  <2>1. /\ item.resource # NoResource
        /\ Blank(item.resource.text) <=> ~Blank(item.resource.blob)
        /\ Blank(item.resource.text) => FileName(item.resource.uri) # ""
    BY <1>4 DEF HasPart
  <2>2. ~PanicsAt(item)
    BY <1>4, <2>1 DEF PanicsAt
  <2>3. ~Refuses(item)
    BY <1>4, <2>1 DEF Refuses
  <2> QED BY <2>1, <2>2, <2>3
<1>5. CASE item.type \notin Types
  BY <1>5 DEF HasPart, Types
<1> QED BY <1>1, <1>2, <1>3, <1>4, <1>5 DEF Types

\* What is usable is what the counting knows.
LEMMA UsableIsCountable ==
  ASSUME NEW item \in Items, Usable(item)
  PROVE  Countable(item)
<1>1. item.resource # NoResource => item.resource \in Resources
  BY DEF Items
<1>2. CASE item.type = "text"
  BY <1>2, Parts DEF Usable, Parses, Countable
<1>3. CASE item.type = "image"
  BY <1>3, Parts DEF Usable, Counts, IsPdf, Countable
<1>4. CASE item.type = "audio"
  BY <1>4, Parts DEF Usable, Counts, IsPdf
<1>5. CASE item.type = "resource"
  <2>1. item.resource \in Resources /\ item.resource.uri \in Uris
    BY <1>1, <1>5 DEF Usable, HasPart, Resources
  <2>2. CASE Blank(item.resource.text)
    BY <1>5, <2>1, <2>2, Parts DEF Usable, Counts, IsPdf, Countable, FileName, Decodes
  <2>3. CASE ~Blank(item.resource.text)
    BY <1>5, <2>3 DEF Countable
  <2> QED BY <2>2, <2>3
<1>6. CASE item.type \notin Types
  BY <1>6 DEF Usable, HasPart, Types
<1> QED BY <1>2, <1>3, <1>4, <1>5, <1>6 DEF Types

\* What a server's check let through and the counting knows is usable.
LEMMA CountableIsUsable ==
  ASSUME NEW item \in Items, ValidItem(item), Countable(item)
  PROVE  Usable(item)
<1>1. item.resource # NoResource => item.resource \in Resources
  BY DEF Items
<1>2. CASE item.type = "text"
  BY <1>2, Parts DEF Usable, HasPart, Parses, Counts, Countable
<1>3. CASE item.type = "image"
  BY <1>3, Parts DEF Usable, HasPart, Parses, Counts, Countable, ValidItem
<1>4. CASE item.type = "resource"
  <2>1. /\ item.resource \in Resources
        /\ Blank(item.resource.text) <=> ~Blank(item.resource.blob)
    BY <1>1, <1>4 DEF ValidItem, ValidResource
  <2>2. CASE Blank(item.resource.text)
    <3>1. item.resource.uri \in {"a.txt", "a.pdf"} /\ Decodes(item.resource.blob)
      BY <1>4, <2>2 DEF Countable
    <3>2. FileName(item.resource.uri) = item.resource.uri
      BY <3>1 DEF FileName
    <3>3. item.resource # NoResource
      BY <1>4 DEF ValidItem, ValidResource
    <3>4. FileName(item.resource.uri) # ""
      BY <3>1, <3>2
    <3>5. HasPart(item)
      BY <1>4, <2>1, <3>3, <3>4 DEF HasPart
    <3>6. /\ PartOf(item).kind = "file" /\ PartOf(item).data = item.resource.blob
          /\ PartOf(item).file = item.resource.uri
      BY <1>4, <2>1, <2>2, <3>2, Parts
    <3>7. Parses(PartOf(item))
      BY <3>6 DEF Parses
    <3>8. Counts(PartOf(item)) \/ IsPdf(PartOf(item))
      BY <3>1, <3>6 DEF Counts, IsPdf
    <3> QED BY <3>5, <3>7, <3>8 DEF Usable
  <2>3. CASE ~Blank(item.resource.text)
    <3>1. item.resource # NoResource
      BY <1>4 DEF ValidItem, ValidResource
    <3>2. HasPart(item)
      BY <1>4, <2>1, <2>3, <3>1 DEF HasPart
    <3>3. PartOf(item).kind = "text" /\ PartOf(item).text = item.resource.text
      BY <1>4, <2>1, <2>3, Parts
    <3>4. Parses(PartOf(item)) /\ Counts(PartOf(item))
      BY <2>3, <3>3 DEF Parses, Counts, Blank
    <3> QED BY <3>2, <3>4 DEF Usable
  <2> QED BY <2>2, <2>3
<1>5. CASE item.type \notin {"text", "image", "resource"}
  BY <1>5 DEF Countable
<1> QED BY <1>2, <1>3, <1>4, <1>5

-----------------------------------------------------------------------------
(* The inductive invariant *)

TextsOnly == Only("text", content)
AllUsable == \A i \in DOMAIN content : Usable(content[i])

OutputInv ==
  /\ content \in Seq(Items)
  /\ pc \notin Broken
  /\ pc \in {"returned", "accepted"} => part = 1
  /\ source \in {"structured", "shell"} => content # <<>> /\ TextsOnly
  /\ pc = "accepted" => content # <<>> /\ (TextsOnly \/ \A i \in DOMAIN content : ValidItem(content[i]))
  /\ pc \in {"counting", "scanning"} =>
       /\ part \in Nat \ {0} /\ content # <<>>
       /\ \A i \in DOMAIN content : /\ ValidItem(content[i])
                                    /\ HasPart(content[i]) /\ Parses(PartOf(content[i]))
       /\ \A i \in DOMAIN content : i < part => Usable(content[i])
  /\ pc = "scanning" => part \in DOMAIN content /\ IsPdf(PartOf(content[part]))
  /\ pc \in InUse => content # <<>> /\ (TextsOnly \/ AllUsable)
  /\ pc = "crashed" => HasPdf
  /\ pc = "failed" => \/ HasPdf
                      \/ ~TextsOnly /\ \E i \in DOMAIN content : ~Countable(content[i])

\* The invariant holds at first.
LEMMA InitOutputInv == Init => OutputInv
<1> SUFFICES ASSUME Init PROVE OutputInv
  OBVIOUS
<1>1. ASSUME NEW text \in Texts, content = <<TextItem(text)>>
      PROVE  content \in Seq(Items) /\ content # <<>> /\ TextsOnly
  <2>1. TextItem(text) \in Items /\ TextItem(text).type = "text"
    BY DEF TextItem, Items, Types, Mimes, Encoded
  <2> HIDE DEF TextItem
  <2>2. content \in Seq(Items) /\ content # <<>> /\ \A i \in DOMAIN content : content[i] = TextItem(text)
    BY <1>1, <2>1
  <2> QED BY <2>1, <2>2 DEF TextsOnly, Only
<1>2. content \in Seq(Items) /\ (source # "mcp" => content # <<>> /\ TextsOnly)
  <2>1. CASE source = "mcp" /\ content \in Contents
    BY <2>1, OutputAssumption
  <2>2. CASE source # "mcp"
    <3>1. "word" \in Texts
      BY DEF Texts
    <3> QED BY <1>1, <2>2, <3>1 DEF Init
  <2> QED BY <2>1, <2>2 DEF Init
<1>3. pc = "returned" /\ part = 1 /\ source \in {"mcp", "structured", "shell"}
  BY DEF Init
<1> QED BY <1>2, <1>3 DEF OutputInv, Broken, InUse

\* What is usable is shown and summarized (messages.go:68-172, message.go:243).
LEMMA UsableIsShown ==
  ASSUME OutputInv, pc = "recorded"
  PROVE  Shown = "shown" /\ Rendered = "rendered"
<1>1. content # <<>> /\ (TextsOnly \/ AllUsable) /\ content \in Seq(Items)
  BY DEF OutputInv, InUse
<1>2. CASE TextsOnly
  BY <1>1, <1>2 DEF TextsOnly, Only, Shown, Rendered
<1>3. CASE AllUsable
  <2>1. ASSUME NEW i \in DOMAIN content
        PROVE  ~Hindered(i) /\ (content[i].type = "resource" => content[i].resource # NoResource)
    <3>1. content[i] \in Items /\ HasPart(content[i])
      BY <1>1, <1>3 DEF AllUsable, Usable
    <3> QED BY <3>1, PartsAreExpected DEF Hindered
  <2>2. FirstHindered = {}
    BY <2>1 DEF FirstHindered
  <2> QED BY <1>1, <2>1, <2>2 DEF Shown, Rendered
<1> QED BY <1>1, <1>2, <1>3

\* The steps up to the payload: what the check lets through, and which payloads
\* are refused as a whole (content.go:74-125, payload.go:73-122, parse.go:157-224).
LEMMA PayloadKeeps ==
  ASSUME OutputInv, Accept \/ Build
  PROVE  OutputInv'
<1>1. UNCHANGED <<source, content, part>>
  BY DEF Accept, Build, Become
<1>2. /\ TextsOnly' = TextsOnly /\ AllUsable' = AllUsable /\ HasPdf' = HasPdf
  BY <1>1 DEF TextsOnly, AllUsable, HasPdf, Only
<1>3. CASE Accept
  <2>1. CASE pc' = "accepted" /\ (source \in {"structured", "shell"} \/ Valid(content))
    <3>1. content # <<>> /\ (TextsOnly \/ \A i \in DOMAIN content : ValidItem(content[i]))
      BY <2>1 DEF OutputInv, Valid
    <3>2. part = 1
      BY <1>3 DEF Accept, OutputInv
    <3> QED BY <1>1, <1>2, <2>1, <3>1, <3>2 DEF OutputInv, Broken, InUse
  <2>2. CASE pc' = "refused"
    BY <1>1, <1>2, <2>2 DEF OutputInv, Broken, InUse
  <2> QED BY <1>3, <2>1, <2>2 DEF Accept, Become
<1>4. CASE Build
  <2>1. pc = "accepted" /\ content # <<>> /\ content \in Seq(Items)
        /\ (TextsOnly \/ \A i \in DOMAIN content : ValidItem(content[i]))
    BY <1>4 DEF Build, OutputInv
  <2>2. CASE TextsOnly
    <3>1. pc' = "recorded"
      BY <1>4, <2>1, <2>2 DEF Build, Become, TextsOnly
    <3> QED BY <1>1, <1>2, <2>1, <2>2, <3>1 DEF OutputInv, Broken, InUse
  <2>3. CASE /\ ~TextsOnly
             /\ \A i \in DOMAIN content : HasPart(content[i]) /\ Parses(PartOf(content[i]))
    <3>1. pc' = "counting" /\ part = 1
      BY <1>4, <2>1, <2>3 DEF Build, Become, TextsOnly, OutputInv
    <3>2. \A i \in DOMAIN content : ~(i < 1)
      BY <2>1
    <3> QED BY <1>1, <1>2, <2>1, <2>3, <3>1, <3>2 DEF OutputInv, Broken, InUse
  <2>4. CASE /\ ~TextsOnly
             /\ \E i \in DOMAIN content : ~(HasPart(content[i]) /\ Parses(PartOf(content[i])))
    <3>1. pc' = "failed"
      BY <1>4, <2>1, <2>4 DEF Build, Become, TextsOnly
    <3>2. PICK i \in DOMAIN content : ~(HasPart(content[i]) /\ Parses(PartOf(content[i])))
      BY <2>4
    <3>3. content[i] \in Items /\ ValidItem(content[i]) /\ ~Usable(content[i])
      BY <2>1, <2>4, <3>2 DEF Usable
    <3>4. ~Countable(content[i])
      BY <3>3, CountableIsUsable
    <3> QED BY <1>1, <1>2, <2>1, <2>4, <3>1, <3>4 DEF OutputInv, Broken, InUse
  <2> QED BY <2>2, <2>3, <2>4
<1> QED BY <1>3, <1>4

\* The steps of the count (count.go, file.go:62-89).
LEMMA CountKeeps ==
  ASSUME OutputInv, CountPart \/ CountPdf \/ Scan \/ Scanned \/ Record
  PROVE  OutputInv'
<1>1. /\ UNCHANGED <<source, content>> /\ pc \in {"counting", "scanning"}
      /\ content \in Seq(Items) /\ content # <<>> /\ part \in Nat \ {0}
      /\ \A i \in DOMAIN content : /\ ValidItem(content[i])
                                   /\ HasPart(content[i]) /\ Parses(PartOf(content[i]))
      /\ \A i \in DOMAIN content : i < part => Usable(content[i])
  BY DEF CountPart, CountPdf, Scan, Scanned, Record, Become, outputVars, OutputInv
<1>2. /\ TextsOnly' = TextsOnly /\ AllUsable' = AllUsable /\ HasPdf' = HasPdf
  BY <1>1 DEF TextsOnly, AllUsable, HasPdf, Only
<1>4. ASSUME part' = part + 1, pc' = "counting", part \in DOMAIN content, Usable(content[part])
      PROVE  OutputInv'
  <2>1. \A i \in DOMAIN content : i < part + 1 => i < part \/ i = part
    BY <1>1
  <2>2. \A i \in DOMAIN content : i < part + 1 => Usable(content[i])
    BY <1>1, <1>4, <2>1
  <2>3. part + 1 \in Nat \ {0}
    BY <1>1
  <2> QED BY <1>1, <1>2, <1>4, <2>2, <2>3 DEF OutputInv, Broken, InUse
<1>5. ASSUME pc' \in {"failed", "crashed"}, part \in DOMAIN content, IsPdf(PartOf(content[part]))
      PROVE  OutputInv'
  <2>1. HasPdf
    BY <1>5 DEF HasPdf
  <2> QED BY <1>1, <1>2, <1>5, <2>1 DEF OutputInv, Broken, InUse
<1>6. part <= Len(content) => part \in DOMAIN content
  BY <1>1
<1>7. CASE CountPart
  <2>1. part \in DOMAIN content /\ ~IsPdf(PartOf(content[part]))
    BY <1>6, <1>7 DEF CountPart
  <2>2. CASE Counts(PartOf(content[part]))
    <3>1. part' = part + 1 /\ pc' = "counting" /\ Usable(content[part])
      BY <1>1, <1>7, <2>1, <2>2 DEF CountPart, Usable
    <3> QED BY <1>4, <2>1, <3>1
  <2>3. CASE ~Counts(PartOf(content[part]))
    <3>1. pc' = "failed" /\ ~Usable(content[part]) /\ content[part] \in Items
      BY <1>1, <1>7, <2>1, <2>3 DEF CountPart, Usable
    <3>2. ~Countable(content[part])
      BY <1>1, <2>1, <3>1, CountableIsUsable
    <3>3. content[part].type # "text"
      BY <1>1, <2>1, <2>3, <3>1, Parts DEF Counts
    <3>4. ~TextsOnly
      BY <2>1, <3>3 DEF TextsOnly, Only
    <3> QED BY <1>1, <1>2, <2>1, <3>1, <3>2, <3>4 DEF OutputInv, Broken, InUse
  <2> QED BY <2>2, <2>3
<1>8. CASE CountPdf
  <2>1. part \in DOMAIN content /\ IsPdf(PartOf(content[part])) /\ part' = part
    BY <1>6, <1>8 DEF CountPdf
  <2>2. CASE pc' = "failed"
    BY <1>5, <2>1, <2>2
  <2>3. CASE pc' = "scanning"
    BY <1>1, <1>2, <2>1, <2>3 DEF OutputInv, Broken, InUse
  <2> QED BY <1>8, <2>2, <2>3 DEF CountPdf
<1>9. CASE Scan
  BY <1>1, <1>2, <1>9 DEF Scan, outputVars, OutputInv
<1>10. CASE Scanned
  <2>1. part \in DOMAIN content /\ IsPdf(PartOf(content[part]))
    BY <1>10 DEF Scanned, OutputInv
  <2>2. Usable(content[part])
    BY <1>1, <2>1 DEF Usable
  <2> QED BY <1>4, <1>5, <1>10, <2>1, <2>2 DEF Scanned
<1>11. CASE Record
  <2>1. pc' = "recorded" /\ part > Len(content)
    BY <1>11 DEF Record, Become
  <2>2. \A i \in DOMAIN content : i < part
    BY <1>1, <2>1
  <2>3. AllUsable
    BY <1>1, <2>2 DEF AllUsable
  <2> QED BY <1>1, <1>2, <2>1, <2>3 DEF OutputInv, Broken, InUse
<1> QED BY <1>7, <1>8, <1>9, <1>10, <1>11

\* Every step keeps the invariant.
LEMMA NextOutputInv == OutputInv /\ [Next]_vars => OutputInv'
<1> SUFFICES ASSUME OutputInv, [Next]_vars PROVE OutputInv'
  OBVIOUS
<1>1. CASE UNCHANGED vars
  BY <1>1 DEF vars, outputVars, OutputInv, TextsOnly, AllUsable, HasPdf, Only
<1>2. CASE Accept \/ Build
  BY <1>2, PayloadKeeps
<1>3. CASE CountPart \/ CountPdf \/ Scan \/ Scanned \/ Record
  BY <1>3, CountKeeps
<1>4. CASE Show \/ Render
  <2>1. pc = "recorded" /\ UNCHANGED <<source, content, part>> /\ pc' \in {"shown", "rendered"}
    BY <1>4, UsableIsShown DEF Show, Render, Become
  <2>2. TextsOnly' = TextsOnly /\ AllUsable' = AllUsable /\ HasPdf' = HasPdf
    BY <2>1 DEF TextsOnly, AllUsable, HasPdf, Only
  <2> QED BY <2>1, <2>2 DEF OutputInv, Broken, InUse
<1> QED BY <1>1, <1>2, <1>3, <1>4 DEF Next

\* OutputInv holds in every reachable state.
THEOREM OutputInvariance == Spec => []OutputInv
BY InitOutputInv, NextOutputInv, PTL DEF Spec

-----------------------------------------------------------------------------
(* The theorems *)

\* What was accepted and counted can be shown to the model and summarized: the
\* panics of messages.go:68-172 and message.go:243 cannot be reached, whatever
\* servers, structured answers and the shell return.
THEOREM RecordedStaysUsable == Spec => []RecordedIsUsable
<1>1. OutputInv => RecordedIsUsable
  BY DEF OutputInv, RecordedIsUsable
<1> QED BY <1>1, OutputInvariance, PTL

\* An accepted output ends its turn exactly if an item cannot be counted: any
\* audio, an empty text beside something else, a file that is neither a text nor a
\* PDF (payload.go:97-122, parse.go:157-224, file.go:62-89).  A PDF may fail all the
\* same, and is all that may end the process (pdf.go:79-82).
THEOREM OnlyUncountableFails == Spec => []FailsOnUncountable
<1>1. OutputInv => FailsOnUncountable
  <2> SUFFICES ASSUME OutputInv
               PROVE  /\ pc \in InUse => TextsOnly \/ \A i \in DOMAIN content : Countable(content[i])
                      /\ pc = "failed" =>
                           \/ ~(TextsOnly \/ \A i \in DOMAIN content : Countable(content[i]))
                           \/ HasPdf
                      /\ pc = "crashed" => HasPdf
    BY DEF FailsOnUncountable, TextsOnly
  <2>1. AllUsable => \A i \in DOMAIN content : Countable(content[i])
    <3> SUFFICES ASSUME AllUsable, NEW i \in DOMAIN content PROVE Countable(content[i])
      OBVIOUS
    <3>1. content[i] \in Items /\ Usable(content[i])
      BY DEF OutputInv, AllUsable
    <3> QED BY <3>1, UsableIsCountable
  <2> QED BY <2>1 DEF OutputInv
<1> QED BY <1>1, OutputInvariance, PTL
================================================================================
