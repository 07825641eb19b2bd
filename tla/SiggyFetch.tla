----------------------------- MODULE SiggyFetch -----------------------------
(***************************************************************************)
(* One exchange with Siggy: Siggy::getData, and SiggyLoader::loadData,     *)
(* which is the same code around another member.  The answer is a stream   *)
(* of symbols that arrives in pieces; the reader keeps what it has not     *)
(* looked at in a buffer and waits for more only when the buffer lacks     *)
(* what it is looking for.  RoutePlanner takes the whole exchange as one   *)
(* step, Fetch; the properties say when it may.                            *)
(*                                                                         *)
(* A symbol is a line end, a status, a header, the length of a chunk or a  *)
(* token of the JSON text.  Lines of the head end in CRLF; a lone LF may   *)
(* occur between the tokens of the text.                                   *)
(***************************************************************************)
EXTENDS Integers, Sequences, SequencesExt

CONSTANTS
  Answers,    \* what Siggy may send: [sent, body, framing], body the JSON text
  HexOf,      \* the value, read as hex, of the symbols that start like a number
  LengthOf,   \* the value of each Content-Length header
  Opening,    \* the symbols with an opening brace in them
  Closing     \* the symbols with a closing brace in them

Newline == {"CRLF", "LF"}
Framing == {"chunked", "length", "none", "error"}

(* A blank line ends a head that is a status and at least one header. *)
EndsHead(s, n) ==
  /\ s[2] = "CRLF" /\ s[3] \notin Newline
  /\ s[n - 1] = "CRLF" /\ s[n] = "CRLF"
  /\ \A k \in 3 .. n - 2 : ~(s[k] \in Newline /\ s[k + 1] \in Newline)

HeadOf(s) == CHOOSE n \in 5 .. Len(s) : EndsHead(s, n)
Content(s) == SubSeq(s, HeadOf(s) + 1, Len(s))
StatedLengths(s) == {LengthOf[s[k]] : k \in {l \in 3 .. HeadOf(s) : s[l] \in DOMAIN LengthOf}}

(***************************************************************************)
(* What a server sends that frames its text one way or another.  The text  *)
(* of a chunk may be any part of the body, and stands between two lines of *)
(* the framing.                                                            *)
(***************************************************************************)
ASSUME AnswersAssumption ==
  /\ \A a \in Answers :
       /\ a.sent \in Seq(STRING) /\ a.sent # << >>
       /\ a.body \in Seq(STRING) /\ "CRLF" \notin ToSet(a.body)
       /\ a.framing \in Framing
       /\ Head(a.sent) = (IF a.framing = "error" THEN "404" ELSE "200")
  /\ \A header \in DOMAIN LengthOf : LengthOf[header] \in Nat

ASSUME FramingAssumption ==
  \A a \in {x \in Answers : x.framing # "error"} :
    /\ \E n \in 5 .. Len(a.sent) : EndsHead(a.sent, n)
    /\ a.framing = "length" => StatedLengths(a.sent) = {Len(a.body)} /\ a.body # << >>
    /\ a.framing # "length" => StatedLengths(a.sent) = {}
    /\ a.framing = "chunked" =>
         ToSet(Content(a.sent)) \subseteq ToSet(a.body) \cup DOMAIN HexOf \cup Newline
    /\ a.framing # "chunked" => Content(a.sent) = a.body

VARIABLES
  answer,          \* the answer Siggy is sending
  wire,            \* what of it has not arrived
  open,            \* FALSE once Siggy has hung up, wire then being lost
  buffer,          \* response: arrived, not looked at
  contentLength,
  transferred,     \* what the present read of the body has transferred
  message,         \* message_ss or data_read
  unseen,          \* history: wire when the last fresh start was made
  pc               \* where getData stands; "text", "nothing" and "dead" are ends

fetchVars ==
  <<answer, wire, open, buffer, contentLength, transferred, message, unseen, pc>>

Ended == pc \in {"text", "nothing", "dead"}

(***************************************************************************)
(* A text in chunks: the length of a chunk on a line of its own, its text, *)
(* a line end, and so on up to the length 0.  At each length left is what  *)
(* of the text is still to be said.                                        *)
(***************************************************************************)
IsLine(s, i, j) == s[j] = "CRLF" /\ \A k \in i .. j - 1 : s[k] \notin Newline

AreChunks(left) ==
  \A s \in DOMAIN left :
    \E i \in 2 .. Len(s) :
      /\ IsLine(s, 1, i) /\ s[1] \in DOMAIN HexOf
      /\ HexOf[s[1]] = 0 => left[s] = << >>
      /\ HexOf[s[1]] # 0 =>
           \E j \in i + 1 .. Len(s) :
             /\ s[j] = "CRLF" /\ SubSeq(s, j + 1, Len(s)) \in DOMAIN left
             /\ left[s] = SubSeq(s, i + 1, j - 1) \o left[SubSeq(s, j + 1, Len(s))]

SentInChunks(a, left) ==
  AreChunks(left) /\ Content(a.sent) \in DOMAIN left /\ left[Content(a.sent)] = a.body

(* No line end but one behind the text; and none at all. *)
SingleLine(s) == \A i \in 1 .. Len(s) - 1 : s[i] \notin Newline
OneLine(s) == \A i \in 1 .. Len(s) : s[i] \notin Newline

(* Without the line ends. *)
Bare(s) ==
  LET kept[i \in 0 .. Len(s)] ==
        IF i = 0 THEN << >>
        ELSE IF s[i] \in Newline THEN kept[i - 1] ELSE Append(kept[i - 1], s[i])
  IN  kept[Len(s)]

ASSUME ChunksAssumption ==
  \A a \in {x \in Answers : x.framing = "chunked" /\ SingleLine(x.body)} :
    \E starts \in SUBSET {s \in Suffixes(Content(a.sent)) : s # << >> /\ Head(s) \in DOMAIN HexOf} :
      \E left \in [starts -> Suffixes(a.body)] : SentInChunks(a, left)

-----------------------------------------------------------------------------
(* std::getline takes what is before the first line end, of either kind. *)
LineEnd(s) == CHOOSE i \in DOMAIN s : s[i] \in Newline /\ \A j \in 1 .. i - 1 : s[j] \notin Newline
Line(s) == SubSeq(s, 1, LineEnd(s) - 1)

(* Fault: the line is copied and stays in the buffer. *)
AfterLineKeeping(s) == s

(* Fault: the line is looked at and the rest thrown away. *)
AfterLineLosing(s) == Line(s)

AfterLine(s) == SubSeq(s, LineEnd(s) + 1, Len(s))

(* What read_until looks for: "\r\n", and "\r\n\r\n". *)
HasLine(s) == Contains(s, "CRLF")
HasBlank(s) == \E i \in 1 .. Len(s) - 1 : s[i] = "CRLF" /\ s[i + 1] = "CRLF"

(* The headers end with the first line that is "\r". *)
BlankLine(s) ==
  CHOOSE i \in DOMAIN s :
    /\ s[i] = "CRLF" /\ (i = 1 \/ s[i - 1] \in Newline)
    /\ \A j \in 2 .. i - 1 : ~(s[j] = "CRLF" /\ s[j - 1] \in Newline)

(* The last Content-Length counts, and none counts as 0. *)
LengthIn(headers) ==
  LET last == {i \in DOMAIN headers :
                 /\ headers[i] \in DOMAIN LengthOf
                 /\ \A j \in i + 1 .. Len(headers) : headers[j] \notin DOMAIN LengthOf}
  IN  IF last = {} THEN 0 ELSE LengthOf[headers[CHOOSE i \in last : TRUE]]

(* hex_ss >> length: 0 for a line that does not start like a number, and   *)
(* no assignment at all for an empty line, which leaves length undefined.  *)
ChunkLengths(line) ==
  CASE line = << >> -> {0, 1}
    [] line # << >> /\ Head(line) \in DOMAIN HexOf -> {HexOf[Head(line)]}
    [] OTHER -> {0}

Balanced(s) ==
  LET count(set) == Len(SelectSeq(s, LAMBDA x : x \in set))
  IN  count(Opening) > 0 /\ count(Opening) = count(Closing)

(* The blocking call in progress has what it waits for. *)
Satisfied ==
  CASE pc \in {"status", "size", "data"} -> HasLine(buffer)
    [] pc \in {"headers", "error"} -> HasBlank(buffer)
    [] pc = "body" -> transferred >= contentLength
    [] OTHER -> FALSE

Reading == pc \in {"status", "headers", "error", "size", "data", "body"}
-----------------------------------------------------------------------------
FetchInit ==
  /\ answer \in Answers
  /\ wire = answer.sent /\ unseen = answer.sent
  /\ open = TRUE
  /\ buffer = << >> /\ message = << >>
  /\ contentLength = 0 /\ transferred = 0
  /\ pc = "connect"

(* Resolving and connecting throw where nothing catches; the handshake and *)
(* the sending of the question throw inside the try.                       *)
Connect ==
  /\ pc = "connect"
  /\ pc' \in {"status", "nothing", "dead"}
  /\ UNCHANGED <<answer, wire, open, buffer, contentLength, transferred, message, unseen>>

Receive ==
  /\ Reading /\ ~Satisfied /\ open
  /\ \E n \in 1 .. Len(wire) :
       /\ buffer' = buffer \o SubSeq(wire, 1, n)
       /\ wire' = SubSeq(wire, n + 1, Len(wire))
       /\ transferred' = IF pc = "body" THEN transferred + n ELSE transferred
  /\ UNCHANGED <<answer, open, contentLength, message, unseen, pc>>

HangUp ==
  /\ open /\ ~Ended
  /\ open' = FALSE
  /\ UNCHANGED <<answer, wire, buffer, contentLength, transferred, message, unseen, pc>>

(* Fault: the handler reads what has come so far. *)
FailKeeping ==
  /\ Reading /\ ~Satisfied /\ ~open
  /\ pc' = IF message = << >> THEN "nothing" ELSE "text"
  /\ UNCHANGED <<answer, wire, open, buffer, contentLength, transferred, message, unseen>>

(* Fault: the read is tried again on the closed socket. *)
FailRetrying == Reading /\ ~Satisfied /\ ~open /\ UNCHANGED fetchVars

(* The end of the stream is an exception, and what has come is dropped. *)
Fail ==
  /\ Reading /\ ~Satisfied /\ ~open
  /\ pc' = "nothing"
  /\ UNCHANGED <<answer, wire, open, buffer, contentLength, transferred, message, unseen>>

(* An error answer: a second, empty buffer is read for the end of headers. *)
ReadStatus ==
  /\ pc = "status" /\ Satisfied
  /\ pc' = IF Head(buffer) = "200" THEN "headers" ELSE "error"
  /\ buffer' = IF Head(buffer) = "200" THEN AfterLine(buffer) ELSE << >>
  /\ unseen' = wire
  /\ UNCHANGED <<answer, wire, open, contentLength, transferred, message>>

(* A number, or the null that loadData leaves, is no object either way. *)
ReadError ==
  /\ pc = "error" /\ Satisfied
  /\ pc' = "nothing"
  /\ UNCHANGED <<answer, wire, open, buffer, contentLength, transferred, message, unseen>>

ReadHeaders ==
  /\ pc = "headers" /\ Satisfied
  /\ contentLength' = LengthIn(SubSeq(buffer, 1, BlankLine(buffer)))
  /\ buffer' = SubSeq(buffer, BlankLine(buffer) + 1, Len(buffer))
  /\ pc' = IF contentLength' = 0 THEN "size" ELSE "body"
  /\ unseen' = wire
  /\ UNCHANGED <<answer, wire, open, transferred, message>>

ReadSize ==
  /\ pc = "size" /\ Satisfied
  /\ \E length \in ChunkLengths(Line(buffer)) : pc' = IF length = 0 THEN "text" ELSE "data"
  /\ buffer' = AfterLine(buffer)
  /\ UNCHANGED <<answer, wire, open, contentLength, transferred, message, unseen>>

(* Fault: each chunk is read with a buffer of its own. *)
ReadDataAfresh ==
  /\ pc = "data" /\ Satisfied
  /\ message' = message \o Line(buffer)
  /\ buffer' = << >>
  /\ pc' = "size"
  /\ UNCHANGED <<answer, wire, open, contentLength, transferred, unseen>>

(* The length is not used: a chunk is what stands before a line end. *)
ReadData ==
  /\ pc = "data" /\ Satisfied
  /\ message' = message \o Line(buffer)
  /\ buffer' = AfterLine(buffer)
  /\ pc' = "size"
  /\ UNCHANGED <<answer, wire, open, contentLength, transferred, unseen>>

(* Fault: every piece is looked at, as with transfer_at_least(1). *)
ReadBodyPiecewise ==
  /\ pc = "body" /\ transferred > 0
  /\ message' = message \o buffer
  /\ pc' = IF Balanced(message') THEN "text" ELSE "body"
  /\ buffer' = << >> /\ transferred' = 0
  /\ UNCHANGED <<answer, wire, open, contentLength, unseen>>

(* transfer_at_least counts what this call transfers, not what the buffer  *)
(* holds; a body that does not balance is dropped and read once more.      *)
ReadBody ==
  /\ pc = "body" /\ Satisfied
  /\ message' = buffer
  /\ pc' = IF Balanced(message') THEN "text" ELSE "body"
  /\ buffer' = << >> /\ transferred' = 0
  /\ UNCHANGED <<answer, wire, open, contentLength, unseen>>

Compute == Fail \/ ReadStatus \/ ReadError \/ ReadHeaders \/ ReadSize \/ ReadData \/ ReadBody
FetchNext == Connect \/ Receive \/ HangUp \/ Compute

FetchSpec == FetchInit /\ [][FetchNext]_fetchVars

(* What was sent arrives, unless Siggy hangs up, which it need not. *)
FairFetchSpec == FetchSpec /\ WF_fetchVars(Connect \/ Compute) /\ WF_fetchVars(Receive)
-----------------------------------------------------------------------------
(* Types, and that what is read is the answer in its order. *)
FetchTypeOK ==
  /\ answer \in Answers
  /\ IsSuffix(buffer \o wire, answer.sent)
  /\ IsSuffix(unseen, answer.sent)
  /\ ToSet(message) \subseteq ToSet(answer.body) \cup DOMAIN HexOf
  /\ open \in BOOLEAN
  /\ contentLength \in Nat /\ transferred \in 0 .. Len(answer.sent)
  /\ pc \in {"connect", "status", "headers", "error", "size", "data", "body", "text", "nothing",
             "dead"}

(***************************************************************************)
(* However the answer is cut into pieces and whenever Siggy hangs up, the  *)
(* exchange is the one step RoutePlanner takes it for: what is handed to   *)
(* the JSON reader starts with the whole text, so that the reader, which   *)
(* stops where a value ends, sees all of it, and never a part.  For a text *)
(* in chunks this takes that it has no line ends, but for one behind it.   *)
(***************************************************************************)
SeenByReader ==
  IF IsPrefix(Bare(answer.body), Bare(message)) THEN Bare(answer.body) ELSE Bare(message)

Promise ==
  INSTANCE Question
    WITH meant <- Bare(answer.body),
         told <- IF pc = "text" THEN SeenByReader ELSE << >>,
         state <- CASE pc = "text" -> "told" [] pc = "nothing" -> "untold"
                    [] pc = "dead" -> "thrown" [] OTHER -> "asked"

WholeOrNothing == Promise!QuestionSpec

(***************************************************************************)
(* A text in chunks, without line ends, is never lost once it has arrived, *)
(* wherever the pieces were cut.                                           *)
(***************************************************************************)
ChunksNotLost ==
  answer.framing = "chunked" /\ OneLine(answer.body) /\ wire = << >> => pc # "nothing"

(***************************************************************************)
(* What arrives early is forgotten: a body of which a part came with the   *)
(* headers, or an error whose headers came with the status, ends the       *)
(* exchange only when Siggy hangs up.                                      *)
(***************************************************************************)
EarlyBytesForgotten ==
  /\ pc \in {"text", "nothing"}
  /\ \/ contentLength > Len(unseen)
     \/ answer.framing = "error" /\ unseen # answer.sent /\ ~HasBlank(unseen)
  => ~open

(***************************************************************************)
(* Once Siggy hangs up the exchange ends; and a text in chunks, without    *)
(* line ends, ends it by itself.                                           *)
(***************************************************************************)
ExchangeEnds ==
  (~open \/ (answer.framing = "chunked" /\ OneLine(answer.body))) ~> Ended

(***************************************************************************)
(* The loops of getData, over chunks and over bodies that do not balance,  *)
(* cannot go round on the same bytes: every step of an exchange moves a    *)
(* part of the answer nearer to being looked at, takes it, or closes.      *)
(***************************************************************************)
FetchLeft ==
  2 * Len(wire) + Len(buffer) + (IF open THEN 1 ELSE 0)
    + (CASE pc = "connect" -> 2 [] Ended -> 0 [] OTHER -> 1)

ExchangeRunsDown == [][FetchLeft' \in Nat /\ FetchLeft' < FetchLeft]_fetchVars

(***************************************************************************)
(* "If the length is 0 it means we're done": when the reading of chunks    *)
(* stops, the text is complete.                                            *)
(***************************************************************************)
DoneAtLengthZero ==
  pc = "text" /\ answer.framing = "chunked" => IsPrefix(Bare(answer.body), Bare(message))
=============================================================================
