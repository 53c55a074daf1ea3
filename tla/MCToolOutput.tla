----------------------------- MODULE MCToolOutput -----------------------------
EXTENDS ToolOutput, SequencesExt

Plain == [type |-> "", text |-> "", mime |-> "", data |-> "", resource |-> NoResource]

\* One item for every way in which the code tells two apart; fields that a type
\* does not use are empty.
SmallItems ==
  {[Plain EXCEPT !.type = type] : type \in {"", "other", "resource"}}
  \cup {[Plain EXCEPT !.type = "text", !.text = text] : text \in Texts}
  \cup {[Plain EXCEPT !.type = "image", !.mime = mime, !.data = bytes] :
          mime \in {" ", "image/png"}, bytes \in Encoded}
  \cup {[Plain EXCEPT !.type = "audio", !.mime = mime, !.data = bytes] :
          mime \in Mimes, bytes \in {"", "bytes"}}
  \cup {[Plain EXCEPT !.type = "resource", !.resource = [uri |-> uri, text |-> text, blob |-> blob]] :
          uri \in Uris, text \in {"", " ", "word"}, blob \in {"", " ", "not base64", "bytes"}}

\* Two of those that get further than the first check.
PairItems ==
  {TextItem(text) : text \in Texts}
  \cup {[Plain EXCEPT !.type = "image", !.mime = "image/png", !.data = bytes] :
          bytes \in {"", "bytes", "picture"}}
  \cup {[Plain EXCEPT !.type = "audio", !.mime = "audio/mpeg", !.data = "bytes"]}
  \cup {[Plain EXCEPT !.type = "resource", !.resource = [uri |-> uri, text |-> "", blob |-> "bytes"]] :
          uri \in {"x:/", "a.pdf", "a.txt"}}

UpToTwoItems == {<<>>} \cup {<<item>> : item \in SmallItems} \cup (PairItems \X PairItems)

\* Short pages of any characters, longer ones of those that belong together.
SmallPages ==
  BoundedSeq({"(", ")", "<", ">", "[", "]", "/", "space", "newline", "\\", "digit7",
              "letter", "%", "BI", "EI"}, 3)
  \cup {<<"(">> \o s : s \in BoundedSeq({"(", ")", "\\"}, 3)}
  \cup {<<"(", "\\">> \o s : s \in BoundedSeq({")", "digit1", "digit7"}, 3)}
  \cup {<<"[">> \o s : s \in BoundedSeq({"(", ")", "[", "]", "/", "letter"}, 3)}
  \cup {<<"<">> \o s : s \in BoundedSeq({"<", ">", "[", "hex"}, 3)}
  \cup {<<"[", "<", "<">> \o s : s \in BoundedSeq({"<", ">", "]"}, 3)}
  \cup {<<"BI">> \o s : s \in BoundedSeq({"EI", "space", "letter"}, 2)}
  \cup BoundedSeq({"quote", "BI", "(", "["}, 3)
===============================================================================
