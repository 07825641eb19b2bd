---------------------------- MODULE MCSiggyFetch ----------------------------
(***************************************************************************)
(* Answers for TLC: one small object, framed in the ways a server frames   *)
(* one, and a few that are not what the reader expects.                    *)
(***************************************************************************)
EXTENDS SiggyFetch, TLC

MCHexOf == "0" :> 0 @@ "3" :> 3 @@ "7" :> 7 @@ "false" :> 250
MCLengthOf == "Content-Length: 2" :> 2 @@ "Content-Length: 4" :> 4
MCOpening == {"{", "'{'"}
MCClosing == {"}", "'}'"}

Object == << "{", "'a':", "7", "}" >>

(* Braces in strings: the counts agree only by luck. *)
BracesInStrings == << "{", "'}'", "'{'", "}" >>
OneBraceInString == << "{", "'a':", "'}'", "}" >>

Head200(headers) == << "200", "CRLF" >> \o headers \o << "CRLF" >>

(* The chunks in order, each behind its length, and the one of length 0. *)
InChunks(chunks) ==
  [framing |-> "chunked",
   body |-> FlattenSeq(chunks),
   sent |-> Head200(<< "Transfer-Encoding: chunked", "CRLF" >>)
              \o FlattenSeq([i \in DOMAIN chunks |-> << "3", "CRLF" >> \o chunks[i] \o << "CRLF" >>])
              \o << "0", "CRLF", "CRLF" >>]

WithLength(header, body) ==
  [framing |-> "length", body |-> body, sent |-> Head200(<< header, "CRLF" >>) \o body]

(* No chunks and no Content-Length the reader knows, as it is case-sensitive. *)
Unframed(body) ==
  [framing |-> "none", body |-> body,
   sent |-> Head200(<< "content-length: 4", "CRLF" >>) \o body]

NotFound ==
  [framing |-> "error", body |-> << >>,
   sent |-> << "404", "CRLF", "Server: x", "CRLF", "CRLF", "text" >>]

SingleLineAnswers ==
  {InChunks(<< Object >>),
   InChunks(<< SubSeq(Object, 1, 2), SubSeq(Object, 3, 4) >>),
   InChunks(<< Object \o << "LF" >> >>)}

MCAnswers ==
  SingleLineAnswers \cup
  {WithLength("Content-Length: 4", Object),
   WithLength("Content-Length: 4", BracesInStrings),
   WithLength("Content-Length: 4", OneBraceInString),
   WithLength("Content-Length: 2", << "[", "]" >>),
   Unframed(Object),
   NotFound}

(* The same object over several lines. *)
Pretty(s) == FlattenSeq([i \in DOMAIN s |-> << s[i], "LF" >>])
MultiLineAnswers == {InChunks(<< Pretty(Object) >>)}
=============================================================================
