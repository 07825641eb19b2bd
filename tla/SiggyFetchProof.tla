-------------------------- MODULE SiggyFetchProof --------------------------
(***************************************************************************)
(* An exchange with Siggy, for any answer of any framing, cut into any     *)
(* pieces.  What it forgets: a read counts and keeps only what arrives     *)
(* while it waits, so what came before it is owed for ever.  What it does  *)
(* not forget: a text in chunks.  And what its caller gets: the whole text *)
(* in one step, or nothing.                                                *)
(***************************************************************************)
EXTENDS SiggyFetch, SequenceTheorems, NaturalsInduction, WellFoundedInduction, TLAPS

(* How much of the answer has come since the last fresh start, by where    *)
(* getData stands.                                                         *)
FetchInv ==
  /\ answer \in Answers
  /\ wire \in Seq(STRING) /\ unseen \in Seq(STRING)
  /\ contentLength \in Nat /\ transferred \in Nat
  /\ pc \in {"connect", "status"} =>
       buffer \in Seq(STRING) /\ buffer \o wire = answer.sent /\ unseen = answer.sent
  /\ pc = "error" =>
       buffer \in Seq(STRING) /\ buffer \o wire = unseen
  /\ pc \in {"connect", "status", "error", "headers", "size", "data"} => contentLength = 0
  /\ pc \in {"headers", "size", "data", "body"} => answer.framing # "error"
  /\ pc # "body" /\ ~Ended => transferred = 0
  /\ pc = "body" => transferred + Len(wire) <= Len(unseen)
  /\ EarlyBytesForgotten

-----------------------------------------------------------------------------
LEMMA LengthIsNat ==
  ASSUME NEW headers
  PROVE  LengthIn(headers) \in Nat
<1> DEFINE last == {i \in DOMAIN headers :
                      /\ headers[i] \in DOMAIN LengthOf
                      /\ \A j \in i + 1 .. Len(headers) : headers[j] \notin DOMAIN LengthOf}
<1>1. CASE last = {}
  BY <1>1 DEF LengthIn
<1>2. CASE last # {}
  <2>1. (CHOOSE i \in last : TRUE) \in last
    BY <1>2
  <2>2. LengthIn(headers) = LengthOf[headers[CHOOSE i \in last : TRUE]]
    BY <1>2 DEF LengthIn
  <2> QED
    BY <2>1, <2>2, AnswersAssumption
<1> QED
  BY <1>1, <1>2

(* What is found in the buffer was still to come at the fresh start. *)
LEMMA BlankInPrefix ==
  ASSUME NEW s \in Seq(STRING), NEW t \in Seq(STRING), HasBlank(s)
  PROVE  HasBlank(s \o t)
BY DEF HasBlank

LEMMA FetchInitInv == FetchInit => FetchInv
<1> SUFFICES ASSUME FetchInit PROVE FetchInv
  OBVIOUS
<1>1. answer \in Answers /\ answer.sent \in Seq(STRING)
  BY AnswersAssumption DEF FetchInit
<1>2. buffer \o wire = answer.sent
  BY <1>1, ConcatEmptySeq DEF FetchInit
<1> QED
  BY <1>1, <1>2 DEF FetchInit, FetchInv, EarlyBytesForgotten, Ended

LEMMA ReceiveInv ==
  ASSUME FetchInv, Receive
  PROVE  FetchInv'
<1>1. PICK n \in 1 .. Len(wire) :
        /\ buffer' = buffer \o SubSeq(wire, 1, n)
        /\ wire' = SubSeq(wire, n + 1, Len(wire))
        /\ transferred' = IF pc = "body" THEN transferred + n ELSE transferred
  BY DEF Receive
<1>2. /\ UNCHANGED <<answer, open, contentLength, message, unseen, pc>>
      /\ pc \notin {"text", "nothing", "dead", "connect"}
  BY DEF Receive, Reading
<1>3. wire \in Seq(STRING)
  BY DEF FetchInv
<1>4. wire' \in Seq(STRING) /\ Len(wire') = Len(wire) - n /\ SubSeq(wire, 1, n) \in Seq(STRING)
  BY <1>1, <1>3
<1>5. buffer \in Seq(STRING) => buffer' \in Seq(STRING) /\ buffer' \o wire' = buffer \o wire
  <2> SUFFICES ASSUME buffer \in Seq(STRING)
               PROVE  buffer' \in Seq(STRING) /\ buffer' \o wire' = buffer \o wire
    OBVIOUS
  <2>1. SubSeq(wire, 1, n) \o wire' = wire
    BY <1>1, <1>3, <1>4
  <2>2. ASSUME NEW piece \in Seq(STRING)
        PROVE  (buffer \o piece) \o wire' = buffer \o (piece \o wire')
    BY <1>4, ConcatAssociative
  <2>3. (buffer \o SubSeq(wire, 1, n)) \o wire' = buffer \o (SubSeq(wire, 1, n) \o wire')
    BY <1>4, <2>2
  <2> QED
    BY <1>1, <1>4, <2>1, <2>3, ConcatProperties
<1>6. transferred' \in Nat /\ (pc # "body" => transferred' = transferred)
  BY <1>1 DEF FetchInv
<1>7. pc = "body" => transferred' + Len(wire') <= Len(unseen')
  <2> SUFFICES ASSUME pc = "body" PROVE transferred' + Len(wire') <= Len(unseen')
    OBVIOUS
  <2>1. transferred + Len(wire) <= Len(unseen) /\ transferred \in Nat
    BY DEF FetchInv
  <2>2. Len(wire) \in Nat /\ Len(unseen) \in Nat /\ n \in Nat
    BY <1>3 DEF FetchInv
  <2>3. transferred' = transferred + n /\ Len(wire') = Len(wire) - n /\ unseen' = unseen
    BY <1>1, <1>2, <1>4
  <2> QED
    BY <2>1, <2>2, <2>3
<1>8. EarlyBytesForgotten'
  BY <1>2 DEF EarlyBytesForgotten
<1> QED
  BY <1>2, <1>4, <1>5, <1>6, <1>7, <1>8 DEF FetchInv, Ended

LEMMA ReadStatusInv ==
  ASSUME FetchInv, ReadStatus
  PROVE  FetchInv'
<1>1. /\ pc = "status" /\ HasLine(buffer)
      /\ pc' = IF Head(buffer) = "200" THEN "headers" ELSE "error"
      /\ buffer' = IF Head(buffer) = "200" THEN AfterLine(buffer) ELSE << >>
      /\ unseen' = wire
      /\ UNCHANGED <<answer, wire, open, contentLength, transferred, message>>
  BY DEF ReadStatus, Satisfied
<1>2. buffer \in Seq(STRING) /\ wire \in Seq(STRING) /\ buffer \o wire = answer.sent
  BY <1>1 DEF FetchInv
<1>3. buffer # << >>
  BY <1>1, <1>2 DEF HasLine, Contains
<1>4. Head(buffer) = Head(answer.sent)
  BY <1>2, <1>3
<1>5. pc' = "headers" => answer.framing # "error"
  BY <1>1, <1>4, AnswersAssumption DEF FetchInv
<1>6. pc' = "error" => buffer' \in Seq(STRING) /\ buffer' \o wire' = unseen'
  <2>1. << >> \in Seq(STRING) /\ << >> \o wire = wire
    BY <1>2, ConcatEmptySeq
  <2>2. pc' = "error" => buffer' = << >>
    BY <1>1
  <2> QED
    BY <1>1, <2>1, <2>2
<1> QED
  BY <1>1, <1>2, <1>5, <1>6 DEF FetchInv, EarlyBytesForgotten, Ended

LEMMA ReadErrorInv ==
  ASSUME FetchInv, ReadError
  PROVE  FetchInv'
<1>1. pc = "error" /\ HasBlank(buffer) /\ pc' = "nothing"
  BY DEF ReadError, Satisfied
<1>2. UNCHANGED <<answer, wire, open, buffer, contentLength, transferred, message, unseen>>
  BY DEF ReadError
<1>3. HasBlank(unseen) /\ contentLength = 0
  BY <1>1, BlankInPrefix DEF FetchInv
<1>4. HasBlank(unseen)'
  BY <1>2, <1>3 DEF HasBlank
<1>5. EarlyBytesForgotten'
  BY <1>2, <1>3, <1>4 DEF FetchInv, EarlyBytesForgotten
<1> QED
  BY <1>1, <1>2, <1>5 DEF FetchInv, Ended

LEMMA ReadHeadersInv ==
  ASSUME FetchInv, ReadHeaders
  PROVE  FetchInv'
<1>1. /\ pc = "headers"
      /\ contentLength' = LengthIn(SubSeq(buffer, 1, BlankLine(buffer)))
      /\ pc' = IF contentLength' = 0 THEN "size" ELSE "body"
      /\ unseen' = wire
      /\ UNCHANGED <<answer, wire, open, transferred, message>>
  BY DEF ReadHeaders
<1>2. contentLength' \in Nat
  BY <1>1, LengthIsNat
<1> QED
  BY <1>1, <1>2 DEF FetchInv, EarlyBytesForgotten, Ended

LEMMA ReadChunkInv ==
  ASSUME FetchInv, ReadSize \/ ReadData
  PROVE  FetchInv'
<1>1. /\ pc \in {"size", "data"} /\ pc' \in {"size", "data", "text"}
      /\ UNCHANGED <<answer, wire, open, contentLength, transferred, unseen>>
  BY DEF ReadSize, ReadData
<1>2. contentLength = 0 /\ answer.framing # "error" /\ Len(unseen) \in Nat
  BY <1>1 DEF FetchInv
<1> QED
  BY <1>1, <1>2 DEF FetchInv, EarlyBytesForgotten, Ended

LEMMA ReadBodyInv ==
  ASSUME FetchInv, ReadBody
  PROVE  FetchInv'
<1>1. /\ pc = "body" /\ pc' \in {"text", "body"} /\ transferred >= contentLength
      /\ transferred' = 0
      /\ UNCHANGED <<answer, wire, open, contentLength, unseen>>
  BY DEF ReadBody, Satisfied
<1>2. /\ Len(unseen) \in Nat /\ Len(wire) \in Nat
      /\ contentLength \in Nat /\ transferred \in Nat
      /\ transferred + Len(wire) <= Len(unseen)
      /\ answer.framing # "error"
  BY <1>1 DEF FetchInv
<1>3. ~(contentLength > Len(unseen)) /\ Len(wire) <= Len(unseen)
  BY <1>1, <1>2
<1> QED
  BY <1>1, <1>2, <1>3 DEF FetchInv, EarlyBytesForgotten, Ended

(* Connecting, hanging up and failing lose nothing that was to come. *)
LEMMA OtherStepInv ==
  ASSUME FetchInv, Connect \/ HangUp \/ Fail
  PROVE  FetchInv'
<1>1. CASE Connect
  <2>1. /\ pc = "connect" /\ pc' \in {"status", "nothing", "dead"}
        /\ UNCHANGED <<answer, wire, open, buffer, contentLength, transferred, message, unseen>>
    BY <1>1 DEF Connect
  <2>2. contentLength = 0 /\ unseen = answer.sent /\ Len(unseen) \in Nat
    BY <2>1 DEF FetchInv
  <2> QED
    BY <2>1, <2>2 DEF FetchInv, EarlyBytesForgotten, Ended
<1>2. CASE HangUp
  <2>1. /\ ~Ended
        /\ UNCHANGED <<answer, wire, buffer, contentLength, transferred, message, unseen, pc>>
    BY <1>2 DEF HangUp
  <2> QED
    BY <2>1 DEF FetchInv, EarlyBytesForgotten, Ended
<1>3. CASE Fail
  <2>1. /\ Reading /\ ~open /\ pc' = "nothing"
        /\ UNCHANGED <<answer, wire, open, buffer, contentLength, transferred, message, unseen>>
    BY <1>3 DEF Fail
  <2> QED
    BY <2>1 DEF FetchInv, EarlyBytesForgotten, Ended
<1> QED
  BY <1>1, <1>2, <1>3

(* FetchInv holds in every exchange. *)
THEOREM OwedForEver == FetchSpec => []FetchInv
<1>1. FetchInv /\ [FetchNext]_fetchVars => FetchInv'
  <2> SUFFICES ASSUME FetchInv, [FetchNext]_fetchVars PROVE FetchInv'
    OBVIOUS
  <2>1. CASE Connect \/ HangUp \/ Fail
    BY <2>1, OtherStepInv
  <2>2. CASE Receive
    BY <2>2, ReceiveInv
  <2>3. CASE ReadStatus
    BY <2>3, ReadStatusInv
  <2>4. CASE ReadError
    BY <2>4, ReadErrorInv
  <2>5. CASE ReadHeaders
    BY <2>5, ReadHeadersInv
  <2>6. CASE ReadSize \/ ReadData
    BY <2>6, ReadChunkInv
  <2>7. CASE ReadBody
    BY <2>7, ReadBodyInv
  <2>8. CASE UNCHANGED fetchVars
    BY <2>8 DEF fetchVars, FetchInv, EarlyBytesForgotten, Ended
  <2> QED
    BY <2>1, <2>2, <2>3, <2>4, <2>5, <2>6, <2>7, <2>8 DEF FetchNext, Compute
<1> QED
  BY FetchInitInv, <1>1, PTL DEF FetchSpec

(* Whatever Siggy sends and however it arrives, an exchange some of whose  *)
(* bytes came early, with the headers or the status line, ends only when   *)
(* Siggy hangs up (the reads of getData).                                  *)
THEOREM EarlyForgotten == FetchSpec => []EarlyBytesForgotten
<1>1. FetchInv => EarlyBytesForgotten
  BY DEF FetchInv
<1> QED
  BY OwedForEver, <1>1, PTL

-----------------------------------------------------------------------------
(***************************************************************************)
(* Chunks.  A line that has arrived ends where it does in what is still to *)
(* be read, arrived or not, so that the reader takes the lines as they     *)
(* were sent; and there is always another until the length 0.              *)
(***************************************************************************)

(* Taking from what has arrived is taking from what is to be read. *)
LEMMA RestAsSent ==
  ASSUME NEW b \in Seq(STRING), NEW w \in Seq(STRING), NEW i \in 1 .. Len(b)
  PROVE  /\ SubSeq(b, i + 1, Len(b)) \in Seq(STRING)
         /\ SubSeq(b, i + 1, Len(b)) \o w = SubSeq(b \o w, i + 1, Len(b \o w))
<1> DEFINE c == SubSeq(b, i + 1, Len(b))
           s == b \o w
           t == SubSeq(s, i + 1, Len(s))
<1>1. /\ s \in Seq(STRING) /\ Len(s) = Len(b) + Len(w) /\ Len(b) \in Nat /\ Len(w) \in Nat
      /\ \A k \in 1 .. Len(s) : s[k] = IF k <= Len(b) THEN b[k] ELSE w[k - Len(b)]
  BY ConcatProperties, LenProperties
<1>2. /\ c \in Seq(STRING) /\ Len(c) = Len(b) - i
      /\ \A k \in 1 .. Len(b) - i : c[k] = b[k + i]
  OBVIOUS
<1> HIDE DEF s
<1>3. /\ t \in Seq(STRING) /\ Len(t) = Len(s) - i
      /\ \A k \in 1 .. Len(s) - i : t[k] = s[k + i]
  BY <1>1
<1> HIDE DEF c, t
<1>4. /\ c \o w \in Seq(STRING) /\ Len(c \o w) = Len(t)
      /\ \A k \in 1 .. Len(t) : (c \o w)[k] = IF k <= Len(c) THEN c[k] ELSE w[k - Len(c)]
  <2>1. /\ c \o w \in Seq(STRING) /\ Len(c \o w) = Len(c) + Len(w)
        /\ \A k \in 1 .. Len(c) + Len(w) : (c \o w)[k] = IF k <= Len(c) THEN c[k] ELSE w[k - Len(c)]
    BY <1>2, ConcatProperties
  <2>2. Len(c) + Len(w) = Len(t)
    BY <1>1, <1>2, <1>3
  <2> QED
    BY <2>1, <2>2
<1>5. ASSUME NEW k \in 1 .. Len(t) PROVE (c \o w)[k] = t[k]
  <2>1. t[k] = s[k + i] /\ k + i \in 1 .. Len(s)
    BY <1>1, <1>3
  <2>2. CASE k <= Len(c)
    BY <1>1, <1>2, <1>4, <2>1, <2>2
  <2>3. CASE ~(k <= Len(c))
    <3>1. k - Len(c) = (k + i) - Len(b) /\ ~(k + i <= Len(b))
      BY <1>1, <1>2, <2>3
    <3> QED
      BY <1>1, <1>4, <2>1, <2>3, <3>1
  <2> QED
    BY <2>2, <2>3
<1>6. c \o w = t
  BY <1>3, <1>4, <1>5, SeqEqual
<1> QED
  BY <1>2, <1>6 DEF c, s, t

(* The first line that has arrived is the first line that was sent. *)
LEMMA LineAsSent ==
  ASSUME NEW b \in Seq(STRING), NEW w \in Seq(STRING), HasLine(b),
         NEW i \in 1 .. Len(b \o w), IsLine(b \o w, 1, i)
  PROVE  /\ LineEnd(b) = i /\ i <= Len(b) /\ i \in Nat
         /\ AfterLine(b) \in Seq(STRING)
         /\ AfterLine(b) \o w = SubSeq(b \o w, i + 1, Len(b \o w))
<1> DEFINE s == b \o w
<1>1. /\ s \in Seq(STRING) /\ Len(s) = Len(b) + Len(w) /\ Len(b) \in Nat /\ Len(w) \in Nat
      /\ \A k \in 1 .. Len(b) : s[k] = b[k]
  OBVIOUS
<1>2. PICK k \in 1 .. Len(b) : b[k] = "CRLF"
  BY DEF HasLine, Contains
<1>3. i <= Len(b) /\ i \in 1 .. Len(b)
  <2>1. s[k] \in Newline
    BY <1>1, <1>2 DEF Newline
  <2>2. \A l \in 1 .. i - 1 : s[l] \notin Newline
    BY DEF IsLine
  <2> HIDE DEF s
  <2>3. ~(k < i)
    BY <1>1, <1>2, <2>1, <2>2
  <2> QED
    BY <1>1, <1>2, <2>3
<1>4. b[i] \in Newline /\ \A j \in 1 .. i - 1 : b[j] \notin Newline
  BY <1>1, <1>3 DEF IsLine, Newline
<1>5. LineEnd(b) = i
  <2>1. \A l \in DOMAIN b : (b[l] \in Newline /\ \A j \in 1 .. l - 1 : b[j] \notin Newline) => l = i
    BY <1>3, <1>4
  <2> QED
    BY <1>3, <1>4, <2>1 DEF LineEnd
<1>6. AfterLine(b) = SubSeq(b, i + 1, Len(b))
  BY <1>5 DEF AfterLine
<1>7. /\ AfterLine(b) \in Seq(STRING)
      /\ AfterLine(b) \o w = SubSeq(b \o w, i + 1, Len(b \o w))
  BY <1>3, <1>6, RestAsSent
<1> QED
  BY <1>3, <1>5, <1>7

(* The same of the blank line behind the headers. *)
LEMMA BlankAsSent ==
  ASSUME NEW b \in Seq(STRING), NEW w \in Seq(STRING), HasBlank(b),
         NEW n \in 1 .. Len(b \o w), n >= 2,
         (b \o w)[1] \notin Newline,
         (b \o w)[n - 1] = "CRLF", (b \o w)[n] = "CRLF",
         \A k \in 1 .. n - 2 : ~((b \o w)[k] \in Newline /\ (b \o w)[k + 1] \in Newline)
  PROVE  /\ BlankLine(b) = n /\ n <= Len(b)
         /\ SubSeq(b, n + 1, Len(b)) \in Seq(STRING)
         /\ SubSeq(b, n + 1, Len(b)) \o w = SubSeq(b \o w, n + 1, Len(b \o w))
<1> DEFINE s == b \o w
<1>1. /\ s \in Seq(STRING) /\ Len(s) = Len(b) + Len(w) /\ Len(b) \in Nat /\ Len(w) \in Nat
      /\ \A k \in 1 .. Len(b) : s[k] = b[k]
  OBVIOUS
<1>2. PICK k \in 1 .. Len(b) - 1 : b[k] = "CRLF" /\ b[k + 1] = "CRLF"
  BY DEF HasBlank
<1>3. s[1] \notin Newline /\ s[n - 1] = "CRLF" /\ s[n] = "CRLF"
  OBVIOUS
<1>4. \A l \in 1 .. n - 2 : ~(s[l] \in Newline /\ s[l + 1] \in Newline)
  OBVIOUS
<1>5. n \in 2 .. Len(b)
  <2> HIDE DEF s
  <2>1. s[k] \in Newline /\ s[k + 1] \in Newline
    BY <1>1, <1>2 DEF Newline
  <2>2. ~(k <= n - 2)
    BY <1>1, <1>2, <1>4, <2>1
  <2> QED
    BY <1>1, <1>2, <2>2
<1> DEFINE Blank(i) == /\ b[i] = "CRLF" /\ (i = 1 \/ b[i - 1] \in Newline)
                       /\ \A j \in 2 .. i - 1 : ~(b[j] = "CRLF" /\ b[j - 1] \in Newline)
<1>6. Blank(n)
  <2> HIDE DEF s
  <2>1. b[n] = "CRLF" /\ b[n - 1] \in Newline
    BY <1>1, <1>3, <1>5 DEF Newline
  <2>2. ASSUME NEW j \in 2 .. n - 1 PROVE ~(b[j] = "CRLF" /\ b[j - 1] \in Newline)
    <3>1. j - 1 \in 1 .. n - 2 /\ (j - 1) + 1 = j /\ j \in 1 .. Len(b) /\ j - 1 \in 1 .. Len(b)
      BY <1>1, <1>5
    <3>2. ~(s[j - 1] \in Newline /\ s[j] \in Newline)
      BY <1>4, <3>1
    <3> QED
      BY <1>1, <3>1, <3>2 DEF Newline
  <2> QED
    BY <2>1, <2>2
<1>7. ASSUME NEW i \in DOMAIN b, Blank(i) PROVE i = n
  <2> HIDE DEF s
  <2>1. i \in 1 .. Len(b) /\ i # 1
    BY <1>1, <1>3, <1>7 DEF Newline
  <2>2. b[i] \in Newline /\ b[i - 1] \in Newline
    BY <1>7, <2>1 DEF Newline
  <2>3. ~(i < n)
    <3> SUFFICES ASSUME i < n PROVE FALSE
      OBVIOUS
    <3>1. i - 1 \in 1 .. n - 2 /\ (i - 1) + 1 = i /\ i - 1 \in 1 .. Len(b)
      BY <1>1, <1>5, <2>1
    <3> QED
      BY <1>1, <1>4, <2>1, <2>2, <3>1
  <2>4. ~(n < i)
    <3> SUFFICES ASSUME n < i PROVE FALSE
      OBVIOUS
    <3>1. n \in 2 .. i - 1
      BY <1>5, <2>1
    <3> QED
      BY <1>6, <1>7, <3>1, <1>5
  <2> QED
    BY <1>5, <2>1, <2>3, <2>4
<1>8. BlankLine(b) = n
  <2>1. n \in DOMAIN b
    BY <1>5
  <2>2. BlankLine(b) = CHOOSE i \in DOMAIN b : Blank(i)
    BY DEF BlankLine
  <2> HIDE DEF Blank
  <2> QED
    BY <1>6, <1>7, <2>1, <2>2
<1>9. /\ SubSeq(b, n + 1, Len(b)) \in Seq(STRING)
      /\ SubSeq(b, n + 1, Len(b)) \o w = SubSeq(b \o w, n + 1, Len(b \o w))
  <2>1. n \in 1 .. Len(b)
    BY <1>1, <1>5
  <2> QED
    BY <2>1, RestAsSent
<1>10. n <= Len(b)
  BY <1>5
<1> QED
  BY <1>8, <1>9, <1>10

LEMMA LeastNumber ==
  ASSUME NEW T \in SUBSET Nat, T # {}
  PROVE  \E x \in T : \A y \in T : x <= y
<1>1. PICK x \in T : \A y \in T : ~(<<y, x>> \in OpToRel(<, Nat))
  BY WFMin, NatLessThanWellFounded
<1>2. \A y \in T : ~(y < x)
  BY <1>1 DEF OpToRel
<1> QED
  BY <1>2

(* getline finds the line end that read_until waited for, or one before.   *)
LEMMA FirstLine ==
  ASSUME NEW b \in Seq(STRING), HasLine(b)
  PROVE  /\ LineEnd(b) \in 1 .. Len(b) /\ b[LineEnd(b)] \in Newline
         /\ \A k \in 1 .. LineEnd(b) - 1 : b[k] \notin Newline
<1> DEFINE ends == {k \in 1 .. Len(b) : b[k] \in Newline}
<1>1. ends # {} /\ ends \in SUBSET Nat
  BY DEF HasLine, Contains, Newline
<1>2. PICK i \in ends : \A k \in ends : i <= k
  <2> HIDE DEF ends
  <2> QED
    BY <1>1, LeastNumber
<1>3. i \in DOMAIN b /\ b[i] \in Newline /\ \A k \in 1 .. i - 1 : b[k] \notin Newline
  BY <1>2
<1> QED
  BY <1>3 DEF LineEnd

(* What is taken up to a line end is the line, the end and what is left. *)
LEMMA LineTaken ==
  ASSUME NEW b \in Seq(STRING), NEW w \in Seq(STRING), HasLine(b)
  PROVE  /\ Line(b) \in Seq(STRING) /\ OneLine(Line(b))
         /\ Line(b) = SubSeq(b \o w, 1, LineEnd(b) - 1)
         /\ LineEnd(b) \in 1 .. Len(b \o w) /\ (b \o w)[LineEnd(b)] = b[LineEnd(b)]
         /\ AfterLine(b) \in Seq(STRING)
         /\ AfterLine(b) \o w = SubSeq(b \o w, LineEnd(b) + 1, Len(b \o w))
<1> DEFINE e == LineEnd(b)
           s == b \o w
<1>1. e \in 1 .. Len(b) /\ \A k \in 1 .. e - 1 : b[k] \notin Newline
  BY FirstLine
<1> HIDE DEF e
<1>2. /\ s \in Seq(STRING) /\ Len(s) = Len(b) + Len(w) /\ Len(b) \in Nat /\ Len(w) \in Nat
      /\ \A k \in 1 .. Len(b) : s[k] = b[k] /\ b[k] \in STRING
  BY ConcatProperties, LenProperties, ElementOfSeq
<1> HIDE DEF s
<1>3. /\ SubSeq(b, 1, e - 1) \in Seq(STRING) /\ Len(SubSeq(b, 1, e - 1)) = e - 1
      /\ \A k \in 1 .. e - 1 : SubSeq(b, 1, e - 1)[k] = b[k]
  BY <1>1
<1>4. /\ SubSeq(s, 1, e - 1) \in Seq(STRING) /\ Len(SubSeq(s, 1, e - 1)) = e - 1
      /\ \A k \in 1 .. e - 1 : SubSeq(s, 1, e - 1)[k] = s[k]
  BY <1>1, <1>2
<1>5. SubSeq(b, 1, e - 1) = SubSeq(s, 1, e - 1)
  <2>1. \A k \in 1 .. e - 1 : SubSeq(b, 1, e - 1)[k] = SubSeq(s, 1, e - 1)[k]
    BY <1>1, <1>2, <1>3, <1>4
  <2> DEFINE x == SubSeq(b, 1, e - 1)
             y == SubSeq(s, 1, e - 1)
  <2> HIDE DEF x, y
  <2>2. x = y
    BY <1>3, <1>4, <2>1, SeqEqual DEF x, y
  <2> QED
    BY <2>2 DEF x, y
<1>6. OneLine(SubSeq(b, 1, e - 1))
  BY <1>1, <1>3 DEF OneLine
<1>7. /\ SubSeq(b, e + 1, Len(b)) \in Seq(STRING)
      /\ SubSeq(b, e + 1, Len(b)) \o w = SubSeq(s, e + 1, Len(s))
  BY <1>1, RestAsSent DEF s
<1>8. Line(b) = SubSeq(b, 1, e - 1) /\ AfterLine(b) = SubSeq(b, e + 1, Len(b))
  BY DEF Line, AfterLine, e
<1>9. e \in 1 .. Len(s) /\ s[e] = b[e]
  BY <1>1, <1>2
<1>10. /\ Line(b) \in Seq(STRING) /\ OneLine(Line(b))
       /\ Line(b) = SubSeq(s, 1, e - 1)
       /\ AfterLine(b) \in Seq(STRING)
       /\ AfterLine(b) \o w = SubSeq(s, e + 1, Len(s))
  BY <1>3, <1>5, <1>6, <1>7, <1>8
<1> QED
  BY <1>9, <1>10 DEF e, s

(* The last Content-Length is one of those there are. *)
LEMMA LengthStated ==
  ASSUME NEW headers \in Seq(STRING),
         NEW k \in 1 .. Len(headers), headers[k] \in DOMAIN LengthOf
  PROVE  \E i \in 1 .. Len(headers) :
           headers[i] \in DOMAIN LengthOf /\ LengthIn(headers) = LengthOf[headers[i]]
<1> DEFINE from == {n \in 0 .. Len(headers) - 1 : headers[Len(headers) - n] \in DOMAIN LengthOf}
           last == {i \in DOMAIN headers :
                      /\ headers[i] \in DOMAIN LengthOf
                      /\ \A j \in i + 1 .. Len(headers) : headers[j] \notin DOMAIN LengthOf}
<1>1. Len(headers) \in Nat /\ DOMAIN headers = 1 .. Len(headers)
  OBVIOUS
<1>2. Len(headers) - k \in from /\ from \in SUBSET Nat
  <2>1. Len(headers) - (Len(headers) - k) = k /\ Len(headers) - k \in 0 .. Len(headers) - 1
    BY <1>1
  <2> QED
    BY <1>1, <2>1
<1>3. PICK n \in from : \A m \in from : n <= m
  <2> HIDE DEF from
  <2> QED
    BY <1>2, LeastNumber
<1>4. Len(headers) - n \in last
  <2>1. ASSUME NEW j \in (Len(headers) - n) + 1 .. Len(headers), headers[j] \in DOMAIN LengthOf
        PROVE  FALSE
    <3> HIDE DEF from
    <3>0. n \in 0 .. Len(headers) - 1
      BY <1>3 DEF from
    <3>1. /\ Len(headers) - (Len(headers) - j) = j /\ Len(headers) - j \in 0 .. Len(headers) - 1
          /\ Len(headers) - j < n
      BY <1>1, <3>0
    <3>2. Len(headers) - j \in from
      BY <2>1, <3>1 DEF from
    <3> QED
      BY <1>1, <1>3, <3>0, <3>1, <3>2
  <2> QED
    BY <1>1, <1>3, <2>1
<1> DEFINE i == CHOOSE l \in last : TRUE
<1>5. i \in last
  BY <1>4
<1>6. LengthIn(headers) = LengthOf[headers[i]]
  BY <1>4 DEF LengthIn
<1> HIDE DEF i
<1> QED
  BY <1>1, <1>5, <1>6

-----------------------------------------------------------------------------
LEMMA SuffixFacts ==
  ASSUME NEW s \in Seq(STRING), NEW t \in Suffixes(s)
  PROVE  /\ t \in Seq(STRING) /\ Len(t) \in Nat /\ Len(s) \in Nat /\ Len(t) <= Len(s)
         /\ \A k \in 1 .. Len(t) : t[k] = s[k + (Len(s) - Len(t))]
<1>1. CASE t = << >>
  BY <1>1
<1>2. ASSUME NEW l \in 1 .. Len(s), t = SubSeq(s, l, Len(s))
      PROVE  /\ t \in Seq(STRING) /\ Len(t) = Len(s) - l + 1
             /\ \A k \in 1 .. Len(t) : t[k] = s[k + l - 1]
  BY <1>2
<1>3. ASSUME NEW l \in 1 .. Len(s), t = SubSeq(s, l, Len(s))
      PROVE  /\ t \in Seq(STRING) /\ Len(t) \in Nat /\ Len(s) \in Nat /\ Len(t) <= Len(s)
             /\ \A k \in 1 .. Len(t) : t[k] = s[k + (Len(s) - Len(t))]
  <2>1. t \in Seq(STRING) /\ Len(t) = Len(s) - l + 1 /\ Len(s) \in Nat
    BY <1>2, <1>3
  <2>2. \A k \in 1 .. Len(t) : t[k] = s[k + l - 1]
    BY <1>2, <1>3
  <2>3. \A k \in 1 .. Len(t) : k + (Len(s) - Len(t)) = k + l - 1
    BY <2>1
  <2> QED
    BY <2>1, <2>2, <2>3
<1> QED
  BY <1>1, <1>3 DEF Suffixes

(* What is left of what is left is left of the whole. *)
LEMMA SuffixOfSuffix ==
  ASSUME NEW s \in Seq(STRING), NEW t \in Suffixes(s), NEW i \in 0 .. Len(t)
  PROVE  SubSeq(t, i + 1, Len(t)) \in Suffixes(s)
<1> DEFINE d == Len(s) - Len(t)
           u == SubSeq(t, i + 1, Len(t))
           v == SubSeq(s, i + d + 1, Len(s))
<1>1. /\ t \in Seq(STRING) /\ Len(t) \in Nat /\ Len(s) \in Nat /\ d \in Nat /\ Len(s) = Len(t) + d
      /\ \A k \in 1 .. Len(t) : t[k] = s[k + d]
  BY SuffixFacts
<1> HIDE DEF d
<1>2. /\ u \in Seq(STRING) /\ Len(u) = Len(t) - i
      /\ \A k \in 1 .. Len(t) - i : u[k] = t[k + i]
  BY <1>1
<1>3. /\ v \in Seq(STRING) /\ Len(v) = Len(t) - i
      /\ \A k \in 1 .. Len(t) - i : v[k] = s[k + i + d]
  BY <1>1
<1>4. u = v
  <2> HIDE DEF u, v
  <2>1. \A k \in 1 .. Len(u) : u[k] = v[k]
    <3> SUFFICES ASSUME NEW k \in 1 .. Len(u) PROVE u[k] = v[k]
      OBVIOUS
    <3>1. k \in 1 .. Len(t) - i /\ k + i \in 1 .. Len(t) /\ (k + i) + d = k + i + d
      BY <1>1, <1>2
    <3> QED
      BY <1>1, <1>2, <1>3, <3>1
  <2> QED
    BY <1>2, <1>3, <2>1, SeqEqual
<1>5. CASE i = Len(t)
  <2>1. u = << >>
    BY <1>2, <1>5
  <2> QED
    BY <2>1 DEF Suffixes
<1>6. CASE i # Len(t)
  <2>1. i + d + 1 \in 1 .. Len(s)
    BY <1>1, <1>6
  <2>2. v \in Suffixes(s)
    BY <2>1 DEF Suffixes
  <2> QED
    BY <1>4, <2>2
<1> QED
  BY <1>5, <1>6

LEMMA WholeIsSuffix ==
  ASSUME NEW s \in Seq(STRING)
  PROVE  s \in Suffixes(s) /\ \A n \in 0 .. Len(s) : SubSeq(s, n + 1, Len(s)) \in Suffixes(s)
<1>1. s \in Suffixes(s)
  <2>1. CASE s = << >>
    BY <2>1 DEF Suffixes
  <2>2. CASE s # << >>
    <3>1. 1 \in 1 .. Len(s) /\ SubSeq(s, 1, Len(s)) = s
      BY <2>2
    <3> QED
      BY <3>1 DEF Suffixes
  <2> QED
    BY <2>1, <2>2
<1> QED
  BY <1>1, SuffixOfSuffix

LEMMA SuffixIsSuffix ==
  ASSUME NEW s \in Seq(STRING), NEW t \in Suffixes(s)
  PROVE  IsSuffix(t, s)
<1> DEFINE r == Reverse(t)
           q == Reverse(s)
<1>1. /\ t \in Seq(STRING) /\ Len(t) \in Nat /\ Len(s) \in Nat /\ Len(t) <= Len(s)
      /\ \A k \in 1 .. Len(t) : t[k] = s[k + (Len(s) - Len(t))]
  BY SuffixFacts
<1>2. /\ r \in Seq(STRING) /\ Len(r) = Len(t)
      /\ \A k \in 1 .. Len(t) : r[k] = t[(Len(t) - k) + 1]
  BY <1>1 DEF Reverse
<1>3. /\ q \in Seq(STRING) /\ Len(q) = Len(s)
      /\ \A k \in 1 .. Len(s) : q[k] = s[(Len(s) - k) + 1]
  BY <1>1 DEF Reverse
<1> HIDE DEF r, q
<1>4. /\ SubSeq(r, 1, Len(r)) \in Seq(STRING) /\ Len(SubSeq(r, 1, Len(r))) = Len(t)
      /\ \A k \in 1 .. Len(t) : SubSeq(r, 1, Len(r))[k] = r[k]
  BY <1>1, <1>2
<1>5. /\ SubSeq(q, 1, Len(r)) \in Seq(STRING) /\ Len(SubSeq(q, 1, Len(r))) = Len(t)
      /\ \A k \in 1 .. Len(t) : SubSeq(q, 1, Len(r))[k] = q[k]
  BY <1>1, <1>2, <1>3
<1>6. \A k \in 1 .. Len(t) : r[k] = q[k]
  <2> SUFFICES ASSUME NEW k \in 1 .. Len(t) PROVE r[k] = q[k]
    OBVIOUS
  <2>1. (Len(t) - k) + 1 \in 1 .. Len(t) /\ k \in 1 .. Len(s)
    BY <1>1
  <2>2. ((Len(t) - k) + 1) + (Len(s) - Len(t)) = (Len(s) - k) + 1
    BY <1>1
  <2> QED
    BY <1>1, <1>2, <1>3, <2>1, <2>2
<1>7. SubSeq(r, 1, Len(r)) = SubSeq(q, 1, Len(r))
  <2> DEFINE x == SubSeq(r, 1, Len(r))
             y == SubSeq(q, 1, Len(r))
  <2>1. x \in Seq(STRING) /\ y \in Seq(STRING) /\ Len(x) = Len(y)
        /\ \A k \in 1 .. Len(x) : x[k] = y[k]
    BY <1>4, <1>5, <1>6
  <2> HIDE DEF x, y
  <2>2. x = y
    BY <2>1, SeqEqual
  <2> QED
    BY <2>2 DEF x, y
<1> QED
  BY <1>1, <1>2, <1>3, <1>7 DEF IsSuffix, IsPrefix, r, q

LEMMA PrefixOfItself ==
  ASSUME NEW s \in Seq(STRING)
  PROVE  IsPrefix(s, s)
BY DEF IsPrefix

-----------------------------------------------------------------------------
(* Counting up to n, by the least counterexample. *)
LEMMA ByCounting ==
  ASSUME NEW n \in Nat, NEW good,
         0 \in good,
         \A i \in 1 .. n : i - 1 \in good => i \in good
  PROVE  n \in good
<1> DEFINE bad == {i \in 0 .. n : i \notin good}
<1> SUFFICES ASSUME bad # {} PROVE FALSE
  OBVIOUS
<1>1. PICK i \in bad : \A j \in bad : i <= j
  <2>1. bad \in SUBSET Nat
    OBVIOUS
  <2> HIDE DEF bad
  <2> QED
    BY <2>1, LeastNumber
<1>2. i \in 1 .. n /\ i - 1 \notin bad
  BY <1>1
<1> QED
  BY <1>1, <1>2

(* What is kept of the first symbols of a text, one by one. *)
Keeps(g, s, n) ==
  g = [i \in 0 .. n |->
         IF i = 0 THEN << >>
         ELSE IF s[i] \in Newline THEN g[i - 1] ELSE Append(g[i - 1], s[i])]

LEMMA KeepsExists ==
  ASSUME NEW s \in Seq(STRING), NEW k \in Nat
  PROVE  \E g : Keeps(g, s, k)
<1> DEFINE good == {n \in 0 .. k : \E g : Keeps(g, s, n)}
<1>1. 0 \in good
  <2>1. Keeps([i \in 0 .. 0 |-> << >>], s, 0)
    BY DEF Keeps
  <2> QED
    BY <2>1
<1>2. ASSUME NEW n \in 1 .. k, n - 1 \in good
      PROVE  n \in good
  <2>1. PICK g : Keeps(g, s, n - 1)
    BY <1>2
  <2> DEFINE next == IF s[n] \in Newline THEN g[n - 1] ELSE Append(g[n - 1], s[n])
             h == [i \in 0 .. n |-> IF i = n THEN next ELSE g[i]]
  <2>2. \A i \in 0 .. n - 1 : g[i] = IF i = 0 THEN << >>
                                     ELSE IF s[i] \in Newline THEN g[i - 1] ELSE Append(g[i - 1], s[i])
    BY <2>1 DEF Keeps
  <2>3. ASSUME NEW i \in 0 .. n
        PROVE  h[i] = IF i = 0 THEN << >>
                      ELSE IF s[i] \in Newline THEN h[i - 1] ELSE Append(h[i - 1], s[i])
    <3>1. CASE i = n
      <4>1. h[i] = next /\ h[i - 1] = g[n - 1] /\ i # 0
        BY <1>2, <3>1
      <4> QED
        BY <3>1, <4>1
    <3>2. CASE i # n /\ i # 0
      <4>1. i \in 0 .. n - 1 /\ h[i] = g[i] /\ h[i - 1] = g[i - 1]
        BY <3>2
      <4> QED
        BY <2>2, <3>2, <4>1
    <3>3. CASE i # n /\ i = 0
      <4>1. i \in 0 .. n - 1 /\ h[i] = g[i]
        BY <1>2, <3>3
      <4> QED
        BY <2>2, <3>3, <4>1
    <3> QED
      BY <3>1, <3>2, <3>3
  <2>4. Keeps(h, s, n)
    <3> HIDE DEF h, next
    <3>1. h = [i \in 0 .. n |-> h[i]]
      BY DEF h
    <3> QED
      BY <2>3, <3>1 DEF Keeps
  <2> QED
    BY <2>4
<1> HIDE DEF good
<1>3. k \in good
  BY <1>1, <1>2, ByCounting
<1> QED
  BY <1>3 DEF good

LEMMA BareIsKept ==
  ASSUME NEW s \in Seq(STRING)
  PROVE  \E g : Keeps(g, s, Len(s)) /\ Bare(s) = g[Len(s)]
<1> DEFINE f == CHOOSE g : Keeps(g, s, Len(s))
<1>1. Keeps(f, s, Len(s))
  BY KeepsExists
<1>2. Bare(s) = f[Len(s)]
  BY DEF Bare, Keeps
<1> QED
  BY <1>1, <1>2

LEMMA KeptNone ==
  ASSUME NEW s \in Seq(STRING), NEW g, Keeps(g, s, Len(s))
  PROVE  g[0] = << >>
<1>1. Len(s) \in Nat
  OBVIOUS
<1>2. \A i \in 0 .. Len(s) : i = 0 => g[i] = << >>
  BY DEF Keeps
<1> QED
  BY <1>1, <1>2

LEMMA KeptStep ==
  ASSUME NEW s \in Seq(STRING), NEW g, Keeps(g, s, Len(s)), NEW i \in 0 .. Len(s)
  PROVE  g[i] = IF i = 0 THEN << >>
                ELSE IF s[i] \in Newline THEN g[i - 1] ELSE Append(g[i - 1], s[i])
BY DEF Keeps

(* A text without line ends keeps its first symbols as they are. *)
LEMMA KeptOfOneLine ==
  ASSUME NEW s \in Seq(STRING), NEW g, Keeps(g, s, Len(s)), NEW n \in 0 .. Len(s),
         \A i \in 1 .. n : s[i] \notin Newline
  PROVE  g[n] = SubSeq(s, 1, n)
<1> DEFINE good == {i \in 0 .. n : g[i] = SubSeq(s, 1, i)}
<1>0. Len(s) \in Nat /\ n \in Nat
  OBVIOUS
<1>1. 0 \in good
  <2>1. 0 \in 0 .. Len(s) /\ SubSeq(s, 1, 0) = << >>
    BY <1>0
  <2>2. g[0] = << >>
    BY KeptNone
  <2>3. g[0] = SubSeq(s, 1, 0)
    BY <2>1, <2>2, Zenon
  <2>4. 0 \in 0 .. n
    BY <1>0
  <2> QED
    BY <2>3, <2>4, Zenon
<1>2. ASSUME NEW i \in 1 .. n, i - 1 \in good
      PROVE  i \in good
  <2>1. g[i] = Append(SubSeq(s, 1, i - 1), s[i])
    <3>1. g[i - 1] = SubSeq(s, 1, i - 1)
      BY <1>2
    <3>2. i \in 0 .. Len(s) /\ i # 0
      BY <1>0
    <3> QED
      BY <3>1, <3>2, KeptStep
  <2>2. Append(SubSeq(s, 1, i - 1), s[i]) = SubSeq(s, 1, i)
    <3>1. i \in 1 .. Len(s) /\ 1 \in 1 .. Len(s) /\ i \in 1 .. Len(s)
      BY <1>0
    <3>2. SubSeq(s, 1, i) = SubSeq(s, 1, i - 1) \o << s[i] >>
      BY <3>1, SubSeqRecursiveSecond
    <3>3. SubSeq(s, 1, i - 1) \in Seq(STRING) /\ s[i] \in STRING
      BY <3>1
    <3> QED
      BY <3>2, <3>3, AppendIsConcat
  <2> QED
    BY <2>1, <2>2
<1> HIDE DEF good
<1>3. n \in good
  BY <1>0, <1>1, <1>2, ByCounting
<1> QED
  BY <1>3 DEF good

LEMMA BareOfOneLine ==
  ASSUME NEW s \in Seq(STRING), OneLine(s)
  PROVE  Bare(s) = s
<1>1. PICK g : Keeps(g, s, Len(s)) /\ Bare(s) = g[Len(s)]
  BY BareIsKept
<1>2. g[Len(s)] = SubSeq(s, 1, Len(s))
  BY <1>1, KeptOfOneLine DEF OneLine
<1> QED
  BY <1>1, <1>2

(* A line end behind the text goes. *)
LEMMA BareOfSingleLine ==
  ASSUME NEW s \in Seq(STRING), NEW line \in Seq(STRING), OneLine(line),
         Len(s) = Len(line) + 1, s[Len(s)] \in Newline, \A i \in 1 .. Len(line) : s[i] = line[i]
  PROVE  Bare(s) = line
<1>1. PICK g : Keeps(g, s, Len(s)) /\ Bare(s) = g[Len(s)]
  BY BareIsKept
<1>2. Len(s) \in 0 .. Len(s) /\ Len(s) # 0 /\ Len(s) - 1 = Len(line) /\ Len(line) \in 0 .. Len(s)
  OBVIOUS
<1>3. g[Len(s)] = g[Len(line)]
  BY <1>1, <1>2, KeptStep
<1>4. g[Len(line)] = SubSeq(s, 1, Len(line))
  <2>1. \A i \in 1 .. Len(line) : s[i] \notin Newline
    BY DEF OneLine
  <2> QED
    BY <1>1, <1>2, <2>1, KeptOfOneLine
<1>5. SubSeq(s, 1, Len(line)) = line
  <2> DEFINE x == SubSeq(s, 1, Len(line))
  <2>1. x \in Seq(STRING) /\ Len(x) = Len(line) /\ \A i \in 1 .. Len(line) : x[i] = line[i]
    BY <1>2
  <2> HIDE DEF x
  <2>2. x = line
    BY <2>1, SeqEqual
  <2> QED
    BY <2>2 DEF x
<1> QED
  BY <1>1, <1>3, <1>4, <1>5

LEMMA BareIsText ==
  ASSUME NEW s \in Seq(STRING)
  PROVE  Bare(s) \in Seq(STRING)
<1>1. PICK g : Keeps(g, s, Len(s)) /\ Bare(s) = g[Len(s)]
  BY BareIsKept
<1> DEFINE good == {i \in 0 .. Len(s) : g[i] \in Seq(STRING)}
<1>0. Len(s) \in Nat
  OBVIOUS
<1>2. 0 \in good
  <2>1. 0 \in 0 .. Len(s)
    BY <1>0
  <2>2. g[0] = << >>
    BY <1>1, KeptNone
  <2>3. << >> \in Seq(STRING)
    OBVIOUS
  <2>4. g[0] \in Seq(STRING)
    BY <2>2, <2>3, Zenon
  <2> QED
    BY <2>1, <2>4, Zenon
<1>3. ASSUME NEW i \in 1 .. Len(s), i - 1 \in good
      PROVE  i \in good
  <2>1. i \in 0 .. Len(s) /\ i # 0 /\ g[i - 1] \in Seq(STRING) /\ s[i] \in STRING
    BY <1>3
  <2>2. g[i] \in {g[i - 1], Append(g[i - 1], s[i])}
    BY <1>1, <2>1, KeptStep
  <2>3. Append(g[i - 1], s[i]) \in Seq(STRING)
    BY <2>1, AppendProperties
  <2>4. g[i] \in Seq(STRING)
    BY <2>1, <2>2, <2>3
  <2> QED
    BY <2>1, <2>4
<1> HIDE DEF good
<1>4. Len(s) \in good
  BY <1>0, <1>2, <1>3, ByCounting
<1> QED
  BY <1>1, <1>4 DEF good

-----------------------------------------------------------------------------
(***************************************************************************)
(* Where the reader is in what was sent, of any framing.                   *)
(***************************************************************************)
(* What is to be read, arrived or not. *)
ToRead == buffer \o wire

PlaceInv ==
  /\ buffer \in Seq(STRING) /\ message \in Seq(STRING)
  /\ wire \in Suffixes(answer.sent) /\ unseen \in Suffixes(answer.sent)
  /\ ToRead \in Suffixes(answer.sent)
  /\ transferred <= Len(answer.sent)
  /\ pc = "connect" => wire = answer.sent
  /\ pc \in {"connect", "status", "headers"} => message = << >>
  /\ pc = "error" => answer.framing = "error"
  /\ pc = "text" => answer.framing # "error"
  /\ pc = "headers" => ToRead = SubSeq(answer.sent, 3, Len(answer.sent))
  /\ pc \in {"size", "data"} => ToRead \in Suffixes(Content(answer.sent))
  /\ pc = "body" =>
       /\ answer.framing = "length" /\ contentLength = Len(answer.body)
       /\ \/ ToRead = answer.body /\ Len(unseen) <= Len(answer.body)
          \/ wire = << >> /\ transferred = 0
  /\ answer.framing = "none" => pc \notin {"data", "text"} /\ (pc = "size" => ToRead = answer.body)
  /\ answer.framing = "length" => pc \notin {"size", "data"} /\ (pc = "text" => message = answer.body)
  /\ ToSet(message) \subseteq ToSet(answer.body) \cup DOMAIN HexOf
  /\ open \in BOOLEAN
  /\ pc \in {"connect", "status", "headers", "error", "size", "data", "body", "text", "nothing",
             "dead"}

LEMMA HeadThere ==
  ASSUME NEW a \in Answers, a.framing # "error"
  PROVE  /\ a.sent \in Seq(STRING) /\ a.sent[1] = "200" /\ Head(a.sent) = "200"
         /\ HeadOf(a.sent) \in 5 .. Len(a.sent) /\ EndsHead(a.sent, HeadOf(a.sent))
         /\ Content(a.sent) \in Seq(STRING) /\ Content(a.sent) \in Suffixes(a.sent)
<1>1. a.sent \in Seq(STRING) /\ a.sent # << >> /\ Head(a.sent) = "200"
  BY AnswersAssumption
<1>2. HeadOf(a.sent) \in 5 .. Len(a.sent) /\ EndsHead(a.sent, HeadOf(a.sent))
  <2>1. \E n \in 5 .. Len(a.sent) : EndsHead(a.sent, n)
    BY FramingAssumption
  <2> QED
    BY <2>1 DEF HeadOf
<1>3. Content(a.sent) \in Suffixes(a.sent)
  BY <1>1, <1>2, WholeIsSuffix DEF Content
<1>4. Content(a.sent) \in Seq(STRING)
  BY <1>1, <1>3, SuffixFacts
<1> QED
  BY <1>1, <1>2, <1>3, <1>4

LEMMA PlaceInit == FetchInit => PlaceInv
<1> SUFFICES ASSUME FetchInit PROVE PlaceInv
  OBVIOUS
<1>1. answer \in Answers /\ answer.sent \in Seq(STRING)
  BY AnswersAssumption DEF FetchInit
<1>2. ToRead = answer.sent /\ answer.sent \in Suffixes(answer.sent)
  BY <1>1, ConcatEmptySeq, WholeIsSuffix DEF FetchInit, ToRead
<1>3. ToSet(message) = {}
  BY DEF FetchInit, ToSet
<1>4. 0 <= Len(answer.sent)
  BY <1>1
<1> QED
  BY <1>1, <1>2, <1>3, <1>4 DEF FetchInit, PlaceInv

LEMMA Regroup ==
  \A b, p, r \in Seq(STRING) : (b \o p) \o r = b \o (p \o r)
BY ConcatAssociative

LEMMA PlaceReceive ==
  ASSUME FetchInv, PlaceInv, Receive
  PROVE  PlaceInv' /\ ToRead' = ToRead
<1>1. PICK n \in 1 .. Len(wire) :
        /\ buffer' = buffer \o SubSeq(wire, 1, n)
        /\ wire' = SubSeq(wire, n + 1, Len(wire))
        /\ transferred' = IF pc = "body" THEN transferred + n ELSE transferred
  BY DEF Receive
<1>2. UNCHANGED <<answer, open, contentLength, message, unseen, pc>> /\ Reading
  BY DEF Receive
<1>3. /\ wire \in Seq(STRING) /\ buffer \in Seq(STRING) /\ answer.sent \in Seq(STRING)
      /\ unseen \in Seq(STRING)
  BY AnswersAssumption DEF FetchInv, PlaceInv
<1>4. /\ wire' \in Seq(STRING) /\ SubSeq(wire, 1, n) \in Seq(STRING)
      /\ SubSeq(wire, 1, n) \o wire' = wire /\ wire # << >> /\ Len(wire') = Len(wire) - n
  BY <1>1, <1>3
<1>5. buffer' \in Seq(STRING) /\ ToRead' = ToRead
  <2>1. \A piece, rest \in Seq(STRING) :
          (buffer \o piece) \o rest = buffer \o (piece \o rest)
    BY <1>3, Regroup
  <2>2. (buffer \o SubSeq(wire, 1, n)) \o wire' = buffer \o (SubSeq(wire, 1, n) \o wire')
    BY <1>4, <2>1
  <2>3. buffer' \o wire' = buffer \o wire
    BY <1>1, <1>4, <2>2, Zenon
  <2>4. buffer' \in Seq(STRING)
    BY <1>1, <1>3, <1>4, ConcatProperties
  <2> QED
    BY <2>3, <2>4 DEF ToRead
<1>6. wire' \in Suffixes(answer.sent)
  <2>1. n \in 0 .. Len(wire)
    BY <1>3
  <2> QED
    BY <1>1, <1>3, <2>1, SuffixOfSuffix DEF PlaceInv
<1>7. transferred' <= Len(answer.sent)
  <2>1. CASE pc = "body"
    <3>1. /\ transferred + Len(wire) <= Len(unseen) /\ transferred \in Nat
          /\ Len(wire) \in Nat /\ Len(unseen) \in Nat /\ Len(answer.sent) \in Nat /\ n <= Len(wire)
      BY <1>3, <2>1 DEF FetchInv
    <3>2. Len(unseen) <= Len(answer.sent)
      BY <1>3, SuffixFacts DEF PlaceInv
    <3> QED
      BY <1>1, <2>1, <3>1, <3>2
  <2>2. CASE pc # "body"
    BY <1>1, <2>2 DEF PlaceInv
  <2> QED
    BY <2>1, <2>2
<1>8. pc # "connect"
  BY <1>2 DEF Reading
<1> HIDE DEF ToRead
<1> QED
  BY <1>2, <1>4, <1>5, <1>6, <1>7, <1>8 DEF PlaceInv

(* Connecting, hanging up, failing and giving up read nothing. *)
LEMMA PlaceOther ==
  ASSUME FetchInv, PlaceInv, Connect \/ HangUp \/ Fail \/ ReadError
  PROVE  PlaceInv' /\ ToRead' = ToRead
<1>1. UNCHANGED <<answer, wire, buffer, contentLength, transferred, message, unseen>>
  BY DEF Connect, HangUp, Fail, ReadError
<1>2. ToRead' = ToRead
  BY <1>1 DEF ToRead
<1>3. /\ pc' = pc \/ pc' \in {"status", "nothing", "dead"}
      /\ pc' = "status" => pc \in {"connect", "status"}
      /\ open' \in BOOLEAN
  BY DEF Connect, HangUp, Fail, ReadError, PlaceInv
<1> QED
  BY <1>1, <1>2, <1>3 DEF PlaceInv

LEMMA PlaceStatus ==
  ASSUME FetchInv, PlaceInv, ReadStatus
  PROVE  PlaceInv'
<1> DEFINE s == answer.sent
<1>1. /\ pc = "status" /\ HasLine(buffer)
      /\ pc' = IF Head(buffer) = "200" THEN "headers" ELSE "error"
      /\ buffer' = IF Head(buffer) = "200" THEN AfterLine(buffer) ELSE << >>
      /\ unseen' = wire
      /\ UNCHANGED <<answer, wire, open, contentLength, transferred, message>>
  BY DEF ReadStatus, Satisfied
<1>2. /\ buffer \in Seq(STRING) /\ wire \in Seq(STRING) /\ buffer \o wire = s /\ s \in Seq(STRING)
      /\ answer \in Answers
  BY <1>1, AnswersAssumption DEF FetchInv
<1>3. buffer # << >>
  BY <1>1, <1>2 DEF HasLine, Contains
<1>4. Head(buffer) = Head(s)
  BY <1>2, <1>3
<1>5. CASE Head(buffer) = "200"
  <2>1. answer.framing # "error"
    BY <1>2, <1>4, <1>5, AnswersAssumption
  <2>2. 2 \in 1 .. Len(s) /\ IsLine(s, 1, 2)
    <3>1. s[1] = "200" /\ s[2] = "CRLF" /\ Len(s) >= 5
      BY <1>2, <2>1, HeadThere DEF EndsHead
    <3> QED
      BY <1>2, <3>1 DEF IsLine, Newline
  <2>3. AfterLine(buffer) \in Seq(STRING) /\ AfterLine(buffer) \o wire = SubSeq(s, 3, Len(s))
    <3>1. 2 \in 1 .. Len(buffer \o wire) /\ IsLine(buffer \o wire, 1, 2)
      BY <1>2, <2>2
    <3>2. /\ AfterLine(buffer) \in Seq(STRING)
          /\ AfterLine(buffer) \o wire = SubSeq(buffer \o wire, 2 + 1, Len(buffer \o wire))
      BY <1>1, <1>2, <3>1, LineAsSent
    <3>3. 2 + 1 = 3
      OBVIOUS
    <3> HIDE DEF s
    <3> QED
      BY <1>2, <3>2, <3>3
  <2>4. SubSeq(s, 3, Len(s)) \in Suffixes(s)
    <3>1. 2 \in 0 .. Len(s) /\ 2 + 1 = 3
      BY <1>2, <2>2
    <3> HIDE DEF s
    <3> QED
      BY <1>2, <3>1, WholeIsSuffix
  <2> QED
    BY <1>1, <1>5, <2>3, <2>4 DEF PlaceInv, ToRead
<1>6. CASE Head(buffer) # "200"
  <2>1. << >> \in Seq(STRING) /\ << >> \o wire = wire
    BY <1>2, ConcatEmptySeq
  <2>2. pc' = "error" /\ ToRead' = wire /\ buffer' \in Seq(STRING)
    <3>1. buffer' = << >> /\ wire' = wire /\ pc' = "error"
      BY <1>1, <1>6
    <3> QED
      BY <2>1, <3>1 DEF ToRead
  <2>3. answer.framing = "error"
    BY <1>2, <1>4, <1>6, AnswersAssumption
  <2> QED
    BY <1>1, <2>2, <2>3 DEF PlaceInv
<1> QED
  BY <1>5, <1>6

LEMMA PlaceHeaders ==
  ASSUME FetchInv, PlaceInv, ReadHeaders
  PROVE  PlaceInv' /\ ToRead' = Content(answer.sent)
<1> DEFINE s == answer.sent
           t == SubSeq(s, 3, Len(s))
           n == HeadOf(s)
           m == n - 2
<1>1. /\ pc = "headers" /\ HasBlank(buffer)
      /\ contentLength' = LengthIn(SubSeq(buffer, 1, BlankLine(buffer)))
      /\ buffer' = SubSeq(buffer, BlankLine(buffer) + 1, Len(buffer))
      /\ pc' = IF contentLength' = 0 THEN "size" ELSE "body"
      /\ unseen' = wire
      /\ UNCHANGED <<answer, wire, open, transferred, message>>
  BY DEF ReadHeaders, Satisfied
<1>2. /\ buffer \in Seq(STRING) /\ wire \in Seq(STRING) /\ buffer \o wire = t
      /\ answer \in Answers /\ answer.framing # "error" /\ message = << >> /\ transferred = 0
  BY <1>1 DEF FetchInv, PlaceInv, ToRead, Ended
<1>3. /\ s \in Seq(STRING) /\ Len(s) \in Nat /\ n \in 5 .. Len(s)
      /\ s[2] = "CRLF" /\ s[3] \notin Newline
      /\ s[n - 1] = "CRLF" /\ s[n] = "CRLF"
      /\ \A k \in 3 .. n - 2 : ~(s[k] \in Newline /\ s[k + 1] \in Newline)
  <2>1. s \in Seq(STRING) /\ n \in 5 .. Len(s) /\ EndsHead(s, n)
    BY <1>2, HeadThere
  <2> HIDE DEF s, n
  <2>2. Len(s) \in Nat
    BY <2>1
  <2> QED
    BY <2>1, <2>2 DEF EndsHead
<1> HIDE DEF s, n
<1>4. /\ Len(t) = Len(s) - 2 /\ t \in Seq(STRING)
      /\ \A k \in 1 .. Len(t) : t[k] = s[k + 2]
  BY <1>3
<1>5. /\ m \in 1 .. Len(t) /\ m >= 2
      /\ t[1] \notin Newline /\ t[m - 1] = "CRLF" /\ t[m] = "CRLF"
  <2> HIDE DEF t
  <2>1. 1 \in 1 .. Len(t) /\ n - 2 \in 1 .. Len(t) /\ n - 3 \in 1 .. Len(t)
    BY <1>3, <1>4
  <2>2. t[1] = s[1 + 2] /\ t[n - 2] = s[(n - 2) + 2] /\ t[n - 3] = s[(n - 3) + 2]
    BY <1>4, <2>1
  <2>3. t[1] = s[3] /\ t[n - 2] = s[n] /\ t[n - 3] = s[n - 1] /\ (n - 2) - 1 = n - 3
    BY <1>3, <2>2
  <2> QED
    BY <1>3, <2>1, <2>3
<1>6. \A k \in 1 .. m - 2 : ~(t[k] \in Newline /\ t[k + 1] \in Newline)
  <2> SUFFICES ASSUME NEW k \in 1 .. m - 2
               PROVE  ~(t[k] \in Newline /\ t[k + 1] \in Newline)
    OBVIOUS
  <2> HIDE DEF t
  <2>1. k \in 1 .. Len(t) /\ k + 1 \in 1 .. Len(t) /\ k + 2 \in 3 .. n - 2
    BY <1>3, <1>4
  <2>2. t[k] = s[k + 2] /\ t[k + 1] = s[(k + 2) + 1]
    <3>1. (k + 1) + 2 = (k + 2) + 1
      BY <2>1
    <3> QED
      BY <1>4, <2>1, <3>1
  <2> QED
    BY <1>3, <2>1, <2>2
<1>7. /\ BlankLine(buffer) = m
      /\ SubSeq(buffer, m + 1, Len(buffer)) \in Seq(STRING)
      /\ SubSeq(buffer, m + 1, Len(buffer)) \o wire = SubSeq(t, m + 1, Len(t))
      /\ m <= Len(buffer)
  <2> HIDE DEF t, m
  <2> QED
    BY <1>1, <1>2, <1>5, <1>6, BlankAsSent
<1>8. SubSeq(t, m + 1, Len(t)) = SubSeq(s, n + 1, Len(s))
  BY <1>3
<1>9. ToRead' = Content(s) /\ buffer' \in Seq(STRING)
  BY <1>1, <1>7, <1>8 DEF ToRead, Content, s, n
<1> DEFINE h == SubSeq(buffer, 1, m)
<1>10. /\ h \in Seq(STRING) /\ Len(h) = m
       /\ \A k \in 1 .. m : h[k] = s[k + 2] /\ k + 2 \in 3 .. n
  <2>1. m \in Nat /\ m <= Len(buffer) /\ m = n - 2 /\ m <= Len(t) /\ Len(buffer) \in Nat
    BY <1>2, <1>3, <1>5, <1>7
  <2> HIDE DEF m, t
  <2>2. h \in Seq(STRING) /\ Len(h) = m /\ \A k \in 1 .. m : h[k] = buffer[k]
    BY <1>2, <2>1
  <2>3. \A k \in 1 .. m : (buffer \o wire)[k] = buffer[k]
    BY <1>2, <2>1
  <2>4. \A k \in 1 .. m : k \in 1 .. Len(t) /\ k + 2 \in 3 .. n
    BY <1>3, <1>4, <2>1
  <2> QED
    BY <1>2, <1>4, <2>2, <2>3, <2>4
<1>11. answer.framing # "length" => contentLength' = 0
  <2> SUFFICES ASSUME answer.framing # "length" PROVE LengthIn(h) = 0
    BY <1>1, <1>7
  <2>1. StatedLengths(s) = {}
    BY <1>2, FramingAssumption DEF s
  <2>2. ASSUME NEW k \in 1 .. m PROVE h[k] \notin DOMAIN LengthOf
    <3>1. s[k + 2] \notin DOMAIN LengthOf
      BY <1>10, <2>1 DEF StatedLengths, n
    <3> QED
      BY <1>10, <3>1
  <2>3. DOMAIN h = 1 .. m
    BY <1>10
  <2> HIDE DEF h, m
  <2> QED
    BY <2>2, <2>3 DEF LengthIn
<1>12. answer.framing = "length" => contentLength' = Len(answer.body) /\ contentLength' # 0
  <2> SUFFICES ASSUME answer.framing = "length"
               PROVE  LengthIn(h) = Len(answer.body) /\ LengthIn(h) # 0
    BY <1>1, <1>7
  <2>1. /\ StatedLengths(s) = {Len(answer.body)} /\ answer.body # << >>
        /\ answer.body \in Seq(STRING)
    BY <1>2, FramingAssumption, AnswersAssumption DEF s
  <2>2. PICK l \in 3 .. n : s[l] \in DOMAIN LengthOf
    BY <2>1 DEF StatedLengths, n
  <2>3. l - 2 \in 1 .. m /\ h[l - 2] = s[l]
    <3>1. l - 2 \in 1 .. m /\ (l - 2) + 2 = l
      BY <1>3
    <3> QED
      BY <1>10, <3>1
  <2>4. PICK i \in 1 .. m : h[i] \in DOMAIN LengthOf /\ LengthIn(h) = LengthOf[h[i]]
    <3> HIDE DEF h, m
    <3> QED
      BY <1>10, <2>2, <2>3, LengthStated
  <2>5. LengthOf[s[i + 2]] \in StatedLengths(s) /\ h[i] = s[i + 2]
    <3>1. h[i] = s[i + 2] /\ i + 2 \in 3 .. n
      BY <1>10
    <3> QED
      BY <2>4, <3>1 DEF StatedLengths, n
  <2>6. LengthIn(h) = Len(answer.body)
    BY <2>1, <2>4, <2>5
  <2> QED
    BY <2>1, <2>6
<1>13. /\ Content(s) \in Suffixes(s) /\ Content(s) \in Seq(STRING)
       /\ Content(s) \in Suffixes(Content(s))
  BY <1>2, HeadThere, WholeIsSuffix DEF s
<1>14. answer.framing # "chunked" => Content(s) = answer.body
  BY <1>2, FramingAssumption DEF s
<1>15. answer.framing = "length" => Len(wire) <= Len(answer.body)
  <2> SUFFICES ASSUME answer.framing = "length" PROVE Len(wire) <= Len(answer.body)
    OBVIOUS
  <2>1. buffer' \o wire = answer.body
    BY <1>1, <1>9, <1>14 DEF ToRead
  <2>2. Len(buffer' \o wire) = Len(buffer') + Len(wire) /\ Len(buffer') \in Nat /\ Len(wire) \in Nat
    BY <1>2, <1>9, ConcatProperties, LenProperties
  <2> QED
    BY <2>1, <2>2
<1>16. answer.framing \in {"chunked", "length", "none"}
  BY <1>2, AnswersAssumption DEF Framing
<1> HIDE DEF ToRead, h, m, t
<1>17. /\ message' = << >> /\ ToSet(message') = {} /\ transferred' = 0
       /\ 0 <= Len(s) /\ << >> \in Seq(STRING)
  BY <1>1, <1>2, <1>3 DEF ToSet
<1>18. /\ answer.framing = "length" => pc' = "body" /\ contentLength' = Len(answer.body)
       /\ answer.framing # "length" => pc' = "size"
  BY <1>1, <1>11, <1>12
<1>19. wire' \in Suffixes(s) /\ unseen' \in Suffixes(s) /\ open' \in BOOLEAN /\ answer' = answer
  BY <1>1 DEF PlaceInv, s
<1> QED
  BY <1>1, <1>9, <1>13, <1>14, <1>15, <1>16, <1>17, <1>18, <1>19 DEF PlaceInv, s

(* A text without Content-Length and without chunks has no line to read.   *)
LEMMA NoneHasNoLine ==
  ASSUME FetchInv, PlaceInv, pc = "size", HasLine(buffer)
  PROVE  answer.framing = "chunked"
<1>1. answer \in Answers /\ answer.framing \in {"chunked", "none"}
  BY AnswersAssumption DEF FetchInv, PlaceInv, Framing
<1>2. CASE answer.framing = "none"
  <2>1. buffer \o wire = answer.body /\ buffer \in Seq(STRING) /\ wire \in Seq(STRING)
    BY <1>2 DEF PlaceInv, ToRead, FetchInv
  <2>2. PICK k \in 1 .. Len(buffer) : buffer[k] = "CRLF"
    BY DEF HasLine, Contains
  <2>3. (buffer \o wire)[k] = "CRLF" /\ k \in DOMAIN (buffer \o wire)
    BY <2>1, <2>2
  <2>4. "CRLF" \in ToSet(answer.body)
    BY <2>1, <2>3 DEF ToSet
  <2> QED
    BY <1>1, <2>4, AnswersAssumption
<1> QED
  BY <1>1, <1>2

(* A line that is taken from the chunks. *)
LEMMA PlaceLine ==
  ASSUME FetchInv, PlaceInv, pc \in {"size", "data"}, HasLine(buffer),
         buffer' = AfterLine(buffer), UNCHANGED <<answer, wire>>
  PROVE  /\ answer.framing = "chunked"
         /\ buffer' \in Seq(STRING)
         /\ ToRead' = SubSeq(ToRead, LineEnd(buffer) + 1, Len(ToRead))
         /\ ToRead' \in Suffixes(answer.sent) /\ ToRead' \in Suffixes(Content(answer.sent))
         /\ Line(buffer) \in Seq(STRING)
         /\ ToSet(Line(buffer)) \subseteq ToSet(answer.body) \cup DOMAIN HexOf
<1> DEFINE e == LineEnd(buffer)
<1>1. /\ buffer \in Seq(STRING) /\ wire \in Seq(STRING) /\ answer \in Answers
      /\ ToRead \in Suffixes(answer.sent) /\ ToRead \in Suffixes(Content(answer.sent))
  BY DEF FetchInv, PlaceInv
<1>2. answer.framing = "chunked"
  <2>1. pc = "data" => answer.framing = "chunked"
    BY <1>1, AnswersAssumption DEF FetchInv, PlaceInv, Framing
  <2> QED
    BY <2>1, NoneHasNoLine
<1>3. /\ answer.sent \in Seq(STRING) /\ Content(answer.sent) \in Seq(STRING)
      /\ ToSet(Content(answer.sent)) \subseteq ToSet(answer.body) \cup DOMAIN HexOf \cup Newline
  BY <1>1, <1>2, HeadThere, FramingAssumption
<1>4. /\ Line(buffer) \in Seq(STRING) /\ OneLine(Line(buffer))
      /\ Line(buffer) = SubSeq(ToRead, 1, e - 1)
      /\ e \in 1 .. Len(ToRead)
      /\ AfterLine(buffer) \in Seq(STRING)
      /\ AfterLine(buffer) \o wire = SubSeq(ToRead, e + 1, Len(ToRead))
  BY <1>1, LineTaken DEF ToRead
<1> HIDE DEF ToRead, e
<1>5. buffer' \in Seq(STRING) /\ ToRead' = SubSeq(ToRead, e + 1, Len(ToRead))
  BY <1>4 DEF ToRead
<1>6. e \in 0 .. Len(ToRead)
  BY <1>1, <1>3, <1>4, SuffixFacts
<1>7. ToRead' \in Suffixes(answer.sent) /\ ToRead' \in Suffixes(Content(answer.sent))
  BY <1>1, <1>3, <1>5, <1>6, SuffixOfSuffix
<1>8. ASSUME NEW k \in DOMAIN Line(buffer)
      PROVE  Line(buffer)[k] \in ToSet(answer.body) \cup DOMAIN HexOf
  <2> DEFINE c == Content(answer.sent)
             d == Len(c) - Len(ToRead)
  <2>1. /\ ToRead \in Seq(STRING) /\ Len(ToRead) \in Nat /\ Len(c) \in Nat /\ Len(ToRead) <= Len(c)
        /\ \A l \in 1 .. Len(ToRead) : ToRead[l] = c[l + d]
    BY <1>1, <1>3, SuffixFacts
  <2> HIDE DEF c
  <2>2. Len(Line(buffer)) = e - 1 /\ \A l \in 1 .. e - 1 : Line(buffer)[l] = ToRead[l]
    BY <1>4, <2>1
  <2>3. k \in 1 .. e - 1 /\ k \in 1 .. Len(ToRead) /\ k \in 1 .. Len(Line(buffer))
    <3>1. k \in 1 .. Len(Line(buffer))
      BY <1>4
    <3> QED
      BY <1>4, <2>1, <2>2, <3>1
  <2>4. Line(buffer)[k] = c[k + d] /\ k + d \in 1 .. Len(c)
    BY <2>1, <2>2, <2>3
  <2>5. c[k + d] \in ToSet(c)
    <3>1. DOMAIN c = 1 .. Len(c)
      BY <1>3 DEF c
    <3> QED
      BY <2>4, <3>1 DEF ToSet
  <2>6. Line(buffer)[k] \notin Newline
    BY <1>4, <2>3 DEF OneLine
  <2> QED
    BY <1>3, <2>4, <2>5, <2>6 DEF c
<1>9. ToSet(Line(buffer)) \subseteq ToSet(answer.body) \cup DOMAIN HexOf
  BY <1>8 DEF ToSet
<1> QED
  BY <1>2, <1>4, <1>5, <1>7, <1>9 DEF e

LEMMA ToSetOfConcat ==
  ASSUME NEW s \in Seq(STRING), NEW t \in Seq(STRING)
  PROVE  ToSet(s \o t) = ToSet(s) \cup ToSet(t)
<1> DEFINE u == s \o t
<1>1. /\ DOMAIN u = 1 .. Len(s) + Len(t) /\ DOMAIN s = 1 .. Len(s) /\ DOMAIN t = 1 .. Len(t)
      /\ Len(s) \in Nat /\ Len(t) \in Nat
      /\ \A i \in 1 .. Len(s) + Len(t) : u[i] = IF i <= Len(s) THEN s[i] ELSE t[i - Len(s)]
  BY ConcatProperties, LenProperties
<1> HIDE DEF u
<1>2. ASSUME NEW i \in DOMAIN u PROVE u[i] \in ToSet(s) \cup ToSet(t)
  <2>1. CASE i <= Len(s)
    <3>1. u[i] = s[i] /\ i \in DOMAIN s
      BY <1>1, <2>1
    <3> QED
      BY <3>1 DEF ToSet
  <2>2. CASE ~(i <= Len(s))
    <3>1. u[i] = t[i - Len(s)] /\ i - Len(s) \in DOMAIN t
      BY <1>1, <2>2
    <3> QED
      BY <3>1 DEF ToSet
  <2> QED
    BY <2>1, <2>2
<1>3. ASSUME NEW i \in DOMAIN s PROVE s[i] \in ToSet(u)
  <2>1. i \in DOMAIN u /\ u[i] = s[i]
    BY <1>1
  <2> QED
    BY <2>1 DEF ToSet
<1>4. ASSUME NEW i \in DOMAIN t PROVE t[i] \in ToSet(u)
  <2>1. i + Len(s) \in DOMAIN u /\ u[i + Len(s)] = t[i]
    <3>1. i + Len(s) \in 1 .. Len(s) + Len(t) /\ ~(i + Len(s) <= Len(s)) /\ (i + Len(s)) - Len(s) = i
      BY <1>1
    <3> QED
      BY <1>1, <3>1
  <2> QED
    BY <2>1 DEF ToSet
<1>5. ToSet(u) = ToSet(s) \cup ToSet(t)
  BY <1>2, <1>3, <1>4 DEF ToSet
<1> QED
  BY <1>5 DEF u

LEMMA PlaceChunk ==
  ASSUME FetchInv, PlaceInv, ReadSize \/ ReadData
  PROVE  PlaceInv'
<1>1. /\ pc \in {"size", "data"} /\ HasLine(buffer)
      /\ buffer' = AfterLine(buffer) /\ pc' \in {"size", "data", "text"}
      /\ message' = message \/ message' = message \o Line(buffer)
      /\ UNCHANGED <<answer, wire, open, contentLength, transferred, unseen>>
  BY DEF ReadSize, ReadData, Satisfied
<1>2. /\ answer.framing = "chunked"
      /\ buffer' \in Seq(STRING)
      /\ ToRead' \in Suffixes(answer.sent) /\ ToRead' \in Suffixes(Content(answer.sent))
      /\ Line(buffer) \in Seq(STRING)
      /\ ToSet(Line(buffer)) \subseteq ToSet(answer.body) \cup DOMAIN HexOf
  BY <1>1, PlaceLine
<1>3. /\ message' \in Seq(STRING)
      /\ ToSet(message') \subseteq ToSet(answer.body) \cup DOMAIN HexOf
  <2>1. message \in Seq(STRING) /\ ToSet(message) \subseteq ToSet(answer.body) \cup DOMAIN HexOf
    BY DEF PlaceInv
  <2>2. message \o Line(buffer) \in Seq(STRING)
    BY <1>2, <2>1, ConcatProperties
  <2>3. ToSet(message \o Line(buffer)) \subseteq ToSet(answer.body) \cup DOMAIN HexOf
    BY <1>2, <2>1, ToSetOfConcat
  <2> QED
    BY <1>1, <2>1, <2>2, <2>3
<1> HIDE DEF ToRead
<1> QED
  BY <1>1, <1>2, <1>3 DEF PlaceInv

(* A body is read whole, or never. *)
LEMMA PlaceBody ==
  ASSUME FetchInv, PlaceInv, ReadBody
  PROVE  PlaceInv' /\ message' = answer.body
<1>1. /\ pc = "body" /\ pc' \in {"text", "body"} /\ transferred >= contentLength
      /\ message' = buffer /\ buffer' = << >> /\ transferred' = 0
      /\ UNCHANGED <<answer, wire, open, contentLength, unseen>>
  BY DEF ReadBody, Satisfied
<1>2. /\ Len(unseen) \in Nat /\ Len(wire) \in Nat /\ wire \in Seq(STRING) /\ answer \in Answers
      /\ contentLength \in Nat /\ transferred \in Nat /\ buffer \in Seq(STRING)
      /\ transferred + Len(wire) <= Len(unseen)
      /\ answer.framing = "length" /\ contentLength = Len(answer.body)
  BY <1>1 DEF FetchInv, PlaceInv
<1>3. /\ answer.body \in Seq(STRING) /\ answer.body # << >> /\ answer.sent \in Seq(STRING)
      /\ Len(answer.body) \in Nat \ {0}
  BY <1>2, AnswersAssumption, FramingAssumption
<1>4. ToRead = answer.body /\ Len(unseen) <= Len(answer.body)
  BY <1>1, <1>2, <1>3 DEF PlaceInv
<1>5. wire = << >>
  BY <1>1, <1>2, <1>3, <1>4
<1>6. buffer = answer.body
  BY <1>2, <1>4, <1>5, ConcatEmptySeq DEF ToRead
<1>7. buffer' \in Seq(STRING) /\ ToRead' = << >> /\ << >> \in Suffixes(answer.sent)
  <2>1. << >> \in Seq(STRING) /\ << >> \o << >> = << >>
    OBVIOUS
  <2>2. buffer' = << >> /\ wire' = << >>
    BY <1>1, <1>5
  <2> QED
    BY <2>1, <2>2 DEF ToRead, Suffixes
<1>8. transferred' = 0 /\ 0 <= Len(answer.sent)
  BY <1>1, <1>3
<1> HIDE DEF ToRead
<1>9. /\ message' \in Seq(STRING) /\ message' = answer.body
      /\ ToSet(message') \subseteq ToSet(answer.body) \cup DOMAIN HexOf
  BY <1>1, <1>3, <1>6
<1> QED
  BY <1>1, <1>2, <1>5, <1>7, <1>8, <1>9 DEF PlaceInv

LEMMA PlaceStep == FetchInv /\ PlaceInv /\ [FetchNext]_fetchVars => PlaceInv'
<1> SUFFICES ASSUME FetchInv, PlaceInv, [FetchNext]_fetchVars PROVE PlaceInv'
  OBVIOUS
<1>1. CASE UNCHANGED fetchVars
  BY <1>1 DEF fetchVars, PlaceInv, ToRead
<1> QED
  BY <1>1, PlaceReceive, PlaceOther, PlaceStatus, PlaceHeaders, PlaceChunk, PlaceBody
     DEF FetchNext, Compute

(* Whatever Siggy sends, in any framing and any pieces, what is still to   *)
(* be read is the end of it, and nothing gets into the message but symbols *)
(* of the text and lengths of chunks (the buffers of getData).             *)
THEOREM FetchTypes == FetchSpec => []FetchTypeOK
<1>1. FetchInv /\ PlaceInv => FetchTypeOK
  <2> SUFFICES ASSUME FetchInv, PlaceInv PROVE FetchTypeOK
    OBVIOUS
  <2>1. answer.sent \in Seq(STRING) /\ answer \in Answers
    BY AnswersAssumption DEF FetchInv
  <2>2. IsSuffix(ToRead, answer.sent) /\ IsSuffix(unseen, answer.sent)
    BY <2>1, SuffixIsSuffix DEF PlaceInv
  <2>3. transferred \in 0 .. Len(answer.sent)
    BY <2>1 DEF PlaceInv, FetchInv
  <2>4. IsSuffix(buffer \o wire, answer.sent)
    BY <2>2 DEF ToRead
  <2> QED
    BY <2>1, <2>2, <2>3, <2>4 DEF FetchTypeOK, PlaceInv, FetchInv
<1> QED
  BY PlaceInit, PlaceStep, OwedForEver, <1>1, PTL DEF FetchSpec

-----------------------------------------------------------------------------
(***************************************************************************)
(* Chunks.  What has been read and what is still to be said are the text,  *)
(* but for a line end behind it, which makes the reader stray: all of the  *)
(* text has been read by then.                                             *)
(***************************************************************************)
InChunksAtHand == answer.framing = "chunked" /\ SingleLine(answer.body)

Left(a) ==
  CHOOSE left : SentInChunks(a, left) /\ \A s \in DOMAIN left : left[s] \in Suffixes(a.body)

(* The message and what the chunks from here on say are the text. *)
AtLength ==
  /\ ToRead \in DOMAIN Left(answer)
  /\ message \o Left(answer)[ToRead] = answer.body

AtText ==
  \E j \in 1 .. Len(ToRead) :
    /\ ToRead[j] = "CRLF" /\ SubSeq(ToRead, j + 1, Len(ToRead)) \in DOMAIN Left(answer)
    /\ message \o (SubSeq(ToRead, 1, j - 1) \o Left(answer)[SubSeq(ToRead, j + 1, Len(ToRead))])
         = answer.body

Said == IsPrefix(Bare(answer.body), message)
Astray == Said /\ ~OneLine(answer.body)

ChunkInv ==
  InChunksAtHand =>
    /\ OneLine(message)
    /\ pc = "size" => AtLength \/ Astray
    /\ pc = "data" => AtText \/ Astray
    /\ pc = "text" => Said
    /\ pc = "nothing" /\ OneLine(answer.body) => wire # << >>

LEMMA LeftIsThere ==
  ASSUME FetchInv, InChunksAtHand
  PROVE  /\ answer \in Answers /\ answer.framing = "chunked"
         /\ SentInChunks(answer, Left(answer))
         /\ \A s \in DOMAIN Left(answer) : Left(answer)[s] \in Seq(STRING)
         /\ answer.body \in Seq(STRING) /\ answer.sent \in Seq(STRING)
<1>1. answer \in Answers /\ answer.framing = "chunked" /\ SingleLine(answer.body)
  BY DEF FetchInv, InChunksAtHand
<1>2. answer.body \in Seq(STRING) /\ answer.sent \in Seq(STRING)
  BY <1>1, AnswersAssumption
<1>3. \E left : SentInChunks(answer, left) /\ \A s \in DOMAIN left : left[s] \in Suffixes(answer.body)
  <2>1. PICK starts : \E left \in [starts -> Suffixes(answer.body)] : SentInChunks(answer, left)
    BY <1>1, ChunksAssumption
  <2>2. PICK left \in [starts -> Suffixes(answer.body)] : SentInChunks(answer, left)
    BY <2>1
  <2> QED
    BY <2>2
<1>4. /\ SentInChunks(answer, Left(answer))
      /\ \A s \in DOMAIN Left(answer) : Left(answer)[s] \in Suffixes(answer.body)
  BY <1>3 DEF Left
<1>5. \A s \in DOMAIN Left(answer) : Left(answer)[s] \in Seq(STRING)
  BY <1>2, <1>4, SuffixFacts
<1> QED
  BY <1>1, <1>2, <1>4, <1>5

LEMMA OneLineOfConcat ==
  ASSUME NEW s \in Seq(STRING), NEW t \in Seq(STRING)
  PROVE  OneLine(s \o t) <=> OneLine(s) /\ OneLine(t)
<1> DEFINE u == s \o t
<1>1. /\ Len(u) = Len(s) + Len(t) /\ Len(s) \in Nat /\ Len(t) \in Nat
      /\ \A i \in 1 .. Len(s) + Len(t) : u[i] = IF i <= Len(s) THEN s[i] ELSE t[i - Len(s)]
  BY ConcatProperties, LenProperties
<1> HIDE DEF u
<1>2. ASSUME OneLine(s), OneLine(t) PROVE OneLine(u)
  BY <1>1, <1>2 DEF OneLine
<1>3. ASSUME OneLine(u), NEW i \in 1 .. Len(s) PROVE s[i] \notin Newline
  <2>1. i \in 1 .. Len(u) /\ u[i] = s[i]
    BY <1>1
  <2> QED
    BY <1>3, <2>1 DEF OneLine
<1>4. ASSUME OneLine(u), NEW i \in 1 .. Len(t) PROVE t[i] \notin Newline
  <2>1. i + Len(s) \in 1 .. Len(u) /\ u[i + Len(s)] = t[i]
    <3>1. i + Len(s) \in 1 .. Len(u) /\ ~(i + Len(s) <= Len(s)) /\ (i + Len(s)) - Len(s) = i
      BY <1>1
    <3> QED
      BY <1>1, <3>1
  <2> QED
    BY <1>4, <2>1 DEF OneLine
<1>5. OneLine(u) <=> OneLine(s) /\ OneLine(t)
  BY <1>2, <1>3, <1>4 DEF OneLine
<1> QED
  BY <1>5 DEF u

(* What has been said stays said. *)
LEMMA PrefixGrows ==
  ASSUME NEW p \in Seq(STRING), NEW s \in Seq(STRING), NEW t \in Seq(STRING), IsPrefix(p, s)
  PROVE  IsPrefix(p, s \o t)
<1> DEFINE u == s \o t
<1>1. /\ u \in Seq(STRING) /\ Len(u) = Len(s) + Len(t) /\ Len(s) \in Nat /\ Len(t) \in Nat
      /\ Len(p) \in Nat
      /\ \A i \in 1 .. Len(s) : u[i] = s[i]
  BY ConcatProperties, LenProperties
<1> HIDE DEF u
<1>2. Len(p) <= Len(s) /\ SubSeq(p, 1, Len(p)) = SubSeq(s, 1, Len(p))
  BY DEF IsPrefix
<1> DEFINE x == SubSeq(s, 1, Len(p))
           y == SubSeq(u, 1, Len(p))
<1>3. /\ x \in Seq(STRING) /\ Len(x) = Len(p) /\ \A i \in 1 .. Len(p) : x[i] = s[i]
      /\ y \in Seq(STRING) /\ Len(y) = Len(p) /\ \A i \in 1 .. Len(p) : y[i] = u[i]
  BY <1>1, <1>2
<1>4. \A i \in 1 .. Len(p) : x[i] = y[i]
  BY <1>1, <1>2, <1>3
<1> HIDE DEF x, y
<1>5. x = y
  BY <1>3, <1>4, SeqEqual
<1>6. Len(p) <= Len(u) /\ SubSeq(p, 1, Len(p)) = SubSeq(u, 1, Len(p))
  BY <1>1, <1>2, <1>5 DEF x, y
<1> QED
  BY <1>6 DEF IsPrefix, u

LEMMA ChunkInit == FetchInit => ChunkInv
BY DEF FetchInit, ChunkInv, OneLine

(* Receiving reads nothing. *)
LEMMA ChunkReceive ==
  ASSUME FetchInv, PlaceInv, ChunkInv, Receive
  PROVE  ChunkInv'
<1>1. UNCHANGED <<answer, message, pc>> /\ Reading
  BY DEF Receive
<1>2. ToRead' = ToRead
  BY PlaceReceive
<1>3. AtLength' = AtLength /\ AtText' = AtText /\ Astray' = Astray /\ Said' = Said
  BY <1>1, <1>2 DEF AtLength, AtText, Astray, Said
<1>4. pc # "nothing"
  BY <1>1 DEF Reading
<1> QED
  BY <1>1, <1>3, <1>4 DEF ChunkInv, InChunksAtHand

LEMMA ChunkHead ==
  ASSUME FetchInv, PlaceInv, ChunkInv, ReadStatus \/ ReadHeaders \/ ReadBody
  PROVE  ChunkInv'
<1> SUFFICES ASSUME InChunksAtHand' PROVE ChunkInv'
  BY DEF ChunkInv
<1>1. UNCHANGED answer
  BY DEF ReadStatus, ReadHeaders, ReadBody
<1>2. InChunksAtHand
  BY <1>1 DEF InChunksAtHand
<1>3. CASE ReadStatus
  <2>1. pc' \in {"headers", "error"} /\ message' = message
    BY <1>3 DEF ReadStatus
  <2> QED
    BY <1>1, <1>2, <2>1 DEF ChunkInv
<1>4. CASE ReadHeaders
  <2>1. /\ pc = "headers" /\ pc' \in {"size", "body"} /\ message' = message /\ message = << >>
    BY <1>4 DEF ReadHeaders, PlaceInv
  <2>2. ToRead' = Content(answer.sent)
    BY <1>4, PlaceHeaders
  <2>3. /\ Content(answer.sent) \in DOMAIN Left(answer)
        /\ Left(answer)[Content(answer.sent)] = answer.body
        /\ answer.body \in Seq(STRING)
    BY <1>2, LeftIsThere DEF SentInChunks
  <2>4. message' \o answer.body = answer.body
    BY <2>1, <2>3, ConcatEmptySeq
  <2>5. AtLength'
    BY <1>1, <2>2, <2>3, <2>4 DEF AtLength
  <2> QED
    BY <1>1, <1>2, <2>1, <2>5 DEF ChunkInv
<1>5. CASE ReadBody
  <2>1. answer.framing = "length"
    BY <1>5 DEF ReadBody, PlaceInv
  <2> QED
    BY <1>2, <2>1 DEF InChunksAtHand
<1> QED
  BY <1>3, <1>4, <1>5

(* At a length: that of the last chunk has nothing behind it to say, and   *)
(* any other has a text.                                                   *)
LEMMA ChunkSize ==
  ASSUME FetchInv, PlaceInv, ChunkInv, ReadSize
  PROVE  ChunkInv'
<1> SUFFICES ASSUME InChunksAtHand' PROVE ChunkInv'
  BY DEF ChunkInv
<1> DEFINE left == Left(answer)
           s == ToRead
<1>1. /\ pc = "size" /\ HasLine(buffer)
      /\ buffer' = AfterLine(buffer)
      /\ UNCHANGED <<answer, wire, message>>
  BY DEF ReadSize, Satisfied
<1>2. PICK length \in ChunkLengths(Line(buffer)) : pc' = IF length = 0 THEN "text" ELSE "data"
  BY DEF ReadSize
<1>3. InChunksAtHand /\ OneLine(message)
  BY <1>1 DEF InChunksAtHand, ChunkInv
<1>4. CASE Astray
  BY <1>1, <1>2, <1>3, <1>4 DEF ChunkInv, Astray, Said
<1>5. CASE AtLength
  <2>1. /\ buffer \in Seq(STRING) /\ wire \in Seq(STRING) /\ s \in Seq(STRING) /\ s \in DOMAIN left
        /\ s = buffer \o wire /\ message \in Seq(STRING)
        /\ message \o left[s] = answer.body
    <3>1. buffer \in Seq(STRING) /\ wire \in Seq(STRING) /\ message \in Seq(STRING)
      BY DEF FetchInv, PlaceInv
    <3>2. buffer \o wire \in Seq(STRING)
      BY <3>1, ConcatProperties
    <3> QED
      BY <1>5, <3>1, <3>2 DEF AtLength, ToRead
  <2>2. /\ SentInChunks(answer, left) /\ left[s] \in Seq(STRING) /\ answer.body \in Seq(STRING)
    BY <1>3, <2>1, LeftIsThere
  <2> HIDE DEF left, s
  <2>3. PICK i \in 2 .. Len(s) :
          /\ IsLine(s, 1, i) /\ s[1] \in DOMAIN HexOf
          /\ HexOf[s[1]] = 0 => left[s] = << >>
          /\ HexOf[s[1]] # 0 =>
               \E j \in i + 1 .. Len(s) :
                 /\ s[j] = "CRLF" /\ SubSeq(s, j + 1, Len(s)) \in DOMAIN left
                 /\ left[s] = SubSeq(s, i + 1, j - 1) \o left[SubSeq(s, j + 1, Len(s))]
    BY <2>1, <2>2 DEF SentInChunks, AreChunks
  <2>4. /\ LineEnd(buffer) = i /\ i <= Len(buffer) /\ i \in Nat /\ i >= 2
        /\ AfterLine(buffer) \in Seq(STRING)
        /\ AfterLine(buffer) \o wire = SubSeq(s, i + 1, Len(s))
    <3>1. i \in 1 .. Len(buffer \o wire) /\ i >= 2 /\ IsLine(buffer \o wire, 1, i)
      BY <2>1, <2>3
    <3> QED
      BY <1>1, <2>1, <3>1, LineAsSent
  <2>5. ChunkLengths(Line(buffer)) = {HexOf[s[1]]}
    <3>1. Line(buffer) = SubSeq(buffer, 1, i - 1)
      BY <2>4 DEF Line
    <3>2. Line(buffer) # << >> /\ Head(Line(buffer)) = buffer[1]
      <4>1. Len(Line(buffer)) = i - 1 /\ Line(buffer)[1] = buffer[1] /\ Line(buffer) \in Seq(STRING)
        BY <2>1, <2>4, <3>1
      <4> QED
        BY <2>4, <4>1
    <3>3. buffer[1] = s[1]
      BY <2>1, <2>4
    <3> QED
      BY <2>3, <3>2, <3>3 DEF ChunkLengths
  <2>6. CASE HexOf[s[1]] = 0
    <3>1. pc' = "text"
      BY <1>2, <2>5, <2>6
    <3>2. message = answer.body
      <4>1. message \o << >> = answer.body
        BY <2>1, <2>3, <2>6
      <4> QED
        BY <2>1, <4>1, ConcatEmptySeq
    <3>3. IsPrefix(Bare(answer.body), message)
      BY <1>3, <2>1, <3>2, BareOfOneLine, PrefixOfItself
    <3> QED
      BY <1>1, <1>3, <3>1, <3>3 DEF ChunkInv, Said
  <2>7. CASE HexOf[s[1]] # 0
    <3>1. pc' = "data"
      BY <1>2, <2>5, <2>7
    <3>2. PICK j \in i + 1 .. Len(s) :
            /\ s[j] = "CRLF" /\ SubSeq(s, j + 1, Len(s)) \in DOMAIN left
            /\ left[s] = SubSeq(s, i + 1, j - 1) \o left[SubSeq(s, j + 1, Len(s))]
      BY <2>3, <2>7
    <3>0. /\ s \in Seq(STRING) /\ Len(s) \in Nat /\ i \in Nat /\ j \in Nat
          /\ 2 <= i /\ i < j /\ j <= Len(s)
      BY <2>1, <2>4, <3>2
    <3> DEFINE t == SubSeq(s, i + 1, Len(s))
    <3>3. ToRead' = t
      BY <1>1, <2>4 DEF ToRead
    <3>4. /\ t \in Seq(STRING) /\ Len(t) = Len(s) - i /\ Len(s) \in Nat /\ j - i \in 1 .. Len(t)
          /\ \A k \in 1 .. Len(t) : t[k] = s[k + i]
      BY <3>0
    <3>5. SubSeq(t, (j - i) + 1, Len(t)) = SubSeq(s, j + 1, Len(s))
      BY <3>0
    <3>6. SubSeq(t, 1, (j - i) - 1) = SubSeq(s, i + 1, j - 1)
      BY <3>0
    <3> HIDE DEF t
    <3>7. t[j - i] = "CRLF"
      <4>1. (j - i) + i = j
        BY <2>4, <3>2
      <4> QED
        BY <3>2, <3>4, <4>1
    <3>8. /\ SubSeq(t, (j - i) + 1, Len(t)) \in DOMAIN left
          /\ message \o (SubSeq(t, 1, (j - i) - 1) \o left[SubSeq(t, (j - i) + 1, Len(t))]) = answer.body
      BY <2>1, <3>2, <3>5, <3>6
    <3>9. AtText'
      <4>1. Left(answer)' = left /\ answer' = answer /\ message' = message
        BY <1>1 DEF left
      <4> QED
        BY <3>3, <3>4, <3>7, <3>8, <4>1 DEF AtText
    <3> QED
      BY <1>1, <1>3, <3>1, <3>9 DEF ChunkInv
  <2> QED
    BY <2>6, <2>7
<1> QED
  BY <1>1, <1>3, <1>4, <1>5 DEF ChunkInv

(* A line end within the text of a chunk can only be its last symbol, and  *)
(* then nothing of the text is left.                                       *)
LEMMA LastLineEnd ==
  ASSUME NEW m \in Seq(STRING), NEW piece \in Seq(STRING), NEW rest \in Seq(STRING),
         NEW e \in 1 .. Len(piece), piece[e] \in Newline, SingleLine(m \o (piece \o rest)),
         OneLine(m), \A k \in 1 .. e - 1 : piece[k] \notin Newline
  PROVE  /\ Bare(m \o (piece \o rest)) = m \o SubSeq(piece, 1, e - 1)
         /\ ~OneLine(m \o (piece \o rest))
<1> DEFINE t == piece \o rest
           body == m \o t
           line == SubSeq(piece, 1, e - 1)
<1>1. /\ t \in Seq(STRING) /\ Len(t) = Len(piece) + Len(rest)
      /\ Len(piece) \in Nat /\ Len(rest) \in Nat /\ Len(m) \in Nat
      /\ \A k \in 1 .. Len(piece) : t[k] = piece[k]
  BY ConcatProperties, LenProperties
<1> HIDE DEF t
<1>2. /\ body \in Seq(STRING) /\ Len(body) = Len(m) + Len(t)
      /\ \A k \in 1 .. Len(m) + Len(t) : body[k] = IF k <= Len(m) THEN m[k] ELSE t[k - Len(m)]
  BY <1>1, ConcatProperties
<1> HIDE DEF body
<1>3. SingleLine(body)
  BY DEF body, t
<1>4. Len(m) + e \in 1 .. Len(body) /\ body[Len(m) + e] \in Newline
  <2>1. e \in 1 .. Len(t) /\ Len(m) + e \in 1 .. Len(m) + Len(t)
    BY <1>1
  <2>2. ~(Len(m) + e <= Len(m)) /\ (Len(m) + e) - Len(m) = e
    BY <1>1
  <2>3. body[Len(m) + e] = t[e] /\ t[e] = piece[e]
    BY <1>1, <1>2, <2>1, <2>2
  <2> QED
    BY <1>2, <2>1, <2>3
<1>5. Len(m) + e = Len(body)
  <2>1. Len(body) \in Nat
    BY <1>1, <1>2
  <2>2. ~(Len(m) + e \in 1 .. Len(body) - 1)
    BY <1>3, <1>4 DEF SingleLine
  <2> QED
    BY <1>1, <1>4, <2>1, <2>2
<1>6. /\ line \in Seq(STRING) /\ Len(line) = e - 1
      /\ \A k \in 1 .. e - 1 : line[k] = piece[k]
  BY <1>1
<1> HIDE DEF line
<1> DEFINE told == m \o line
<1>7. /\ told \in Seq(STRING) /\ Len(told) = Len(m) + (e - 1)
      /\ \A k \in 1 .. Len(m) + (e - 1) : told[k] = IF k <= Len(m) THEN m[k] ELSE line[k - Len(m)]
  <2> HIDE DEF told
  <2>1. /\ told \in Seq(STRING) /\ Len(told) = Len(m) + Len(line)
        /\ \A k \in 1 .. Len(m) + Len(line) : told[k] = IF k <= Len(m) THEN m[k] ELSE line[k - Len(m)]
    BY <1>6, ConcatProperties DEF told
  <2> QED
    BY <1>6, <2>1
<1>8. OneLine(told)
  <2>1. OneLine(line)
    BY <1>6 DEF OneLine
  <2> QED
    BY <1>6, <2>1, OneLineOfConcat
<1> HIDE DEF told
<1>9. \A k \in 1 .. Len(told) : body[k] = told[k]
  <2> SUFFICES ASSUME NEW k \in 1 .. Len(told) PROVE body[k] = told[k]
    OBVIOUS
  <2>1. k \in 1 .. Len(m) + Len(t) /\ k \in 1 .. Len(m) + (e - 1) /\ k \in Nat
    BY <1>1, <1>7
  <2>2. CASE k <= Len(m)
    BY <1>2, <1>7, <2>1, <2>2
  <2>3. CASE ~(k <= Len(m))
    <3>1. k - Len(m) \in 1 .. e - 1 /\ k - Len(m) \in 1 .. Len(piece)
      BY <1>1, <2>1, <2>3
    <3>2. body[k] = t[k - Len(m)] /\ told[k] = line[k - Len(m)]
      BY <1>2, <1>7, <2>1, <2>3
    <3> QED
      BY <1>1, <1>6, <3>1, <3>2
  <2> QED
    BY <2>2, <2>3
<1>10. Len(body) = Len(told) + 1 /\ body[Len(body)] \in Newline
  BY <1>1, <1>4, <1>5, <1>7
<1>11. Bare(body) = told
  BY <1>2, <1>7, <1>8, <1>9, <1>10, BareOfSingleLine
<1>12. ~OneLine(body)
  BY <1>4 DEF OneLine
<1> QED
  BY <1>11, <1>12 DEF body, t, told, line

LEMMA ChunkData ==
  ASSUME FetchInv, PlaceInv, ChunkInv, ReadData
  PROVE  ChunkInv'
<1> SUFFICES ASSUME InChunksAtHand' PROVE ChunkInv'
  BY DEF ChunkInv
<1> DEFINE left == Left(answer)
           s == ToRead
           e == LineEnd(buffer)
           line == Line(buffer)
<1>1. /\ pc = "data" /\ HasLine(buffer) /\ pc' = "size"
      /\ buffer' = AfterLine(buffer)
      /\ message' = message \o line
      /\ UNCHANGED <<answer, wire>>
  BY DEF ReadData, Satisfied
<1>2. InChunksAtHand /\ OneLine(message) /\ SingleLine(answer.body)
  BY <1>1 DEF InChunksAtHand, ChunkInv
<1>3. buffer \in Seq(STRING) /\ wire \in Seq(STRING) /\ message \in Seq(STRING)
  BY DEF FetchInv, PlaceInv
<1>4. /\ line \in Seq(STRING) /\ OneLine(line)
      /\ line = SubSeq(s, 1, e - 1)
      /\ e \in 1 .. Len(s) /\ s[e] = buffer[e]
      /\ AfterLine(buffer) \o wire = SubSeq(s, e + 1, Len(s))
  BY <1>1, <1>3, LineTaken DEF ToRead
<1>5. buffer[e] \in Newline
  BY <1>1, <1>3, FirstLine
<1>6. s \in Seq(STRING) /\ Len(s) \in Nat
  BY <1>3, ConcatProperties, LenProperties DEF ToRead
<1>7. OneLine(message')
  BY <1>1, <1>2, <1>3, <1>4, OneLineOfConcat
<1>8. CASE Astray
  <2>1. IsPrefix(Bare(answer.body), message) /\ ~OneLine(answer.body)
    BY <1>8 DEF Astray, Said
  <2>2. Bare(answer.body) \in Seq(STRING)
    BY <1>2, LeftIsThere, BareIsText
  <2>3. IsPrefix(Bare(answer.body), message')
    BY <1>1, <1>3, <1>4, <2>1, <2>2, PrefixGrows
  <2> QED
    BY <1>1, <1>7, <2>1, <2>3 DEF ChunkInv, Astray, Said
<1>9. CASE AtText
  <2> DEFINE next(j) == SubSeq(s, j + 1, Len(s))
  <2>1. PICK j \in 1 .. Len(s) :
          /\ s[j] = "CRLF" /\ next(j) \in DOMAIN left
          /\ message \o (SubSeq(s, 1, j - 1) \o left[next(j)]) = answer.body
    BY <1>9 DEF AtText
  <2>2. left[next(j)] \in Seq(STRING)
    BY <1>2, <2>1, LeftIsThere
  <2> HIDE DEF left, s, e, line
  <2> DEFINE piece == SubSeq(s, 1, j - 1)
             rest == left[next(j)]
  <2>3. /\ piece \in Seq(STRING) /\ Len(piece) = j - 1
        /\ \A k \in 1 .. j - 1 : piece[k] = s[k]
    BY <1>6, <2>1
  <2>4. \A k \in 1 .. e - 1 : s[k] \notin Newline
    <3>1. Len(line) = e - 1 /\ \A k \in 1 .. e - 1 : line[k] = s[k]
      BY <1>4, <1>6
    <3> QED
      BY <1>4, <3>1 DEF OneLine
  <2>5. ~(j < e)
    <3>1. s[j] \in Newline
      BY <2>1 DEF Newline
    <3> QED
      BY <1>4, <2>1, <2>4, <3>1
  <2>6. CASE e = j
    <3>1. ToRead' = next(j)
      BY <1>1, <1>4, <2>6 DEF ToRead
    <3>2. message' \o rest = answer.body
      <4>1. line = piece
        BY <1>4, <2>6
      <4> HIDE DEF piece, rest
      <4>2. (message \o piece) \o rest = message \o (piece \o rest)
        BY <1>3, <2>2, <2>3, Regroup DEF rest
      <4>3. message \o (piece \o rest) = answer.body
        BY <2>1 DEF piece, rest
      <4> QED
        BY <1>1, <4>1, <4>2, <4>3
    <3>3. AtLength'
      <4>1. Left(answer)' = left /\ answer' = answer
        BY <1>1 DEF left
      <4> QED
        BY <2>1, <3>1, <3>2, <4>1 DEF AtLength
    <3> QED
      BY <1>1, <1>7, <3>3 DEF ChunkInv
  <2>7. CASE e # j
    <3>1. e \in 1 .. Len(piece) /\ piece[e] \in Newline
      <4>1. e \in 1 .. j - 1
        BY <1>4, <2>1, <2>5, <2>7
      <4> QED
        BY <1>4, <1>5, <2>3, <4>1
    <3>2. \A k \in 1 .. e - 1 : piece[k] \notin Newline
      <4>1. \A k \in 1 .. e - 1 : k \in 1 .. j - 1
        BY <1>4, <2>1, <2>5
      <4> QED
        BY <2>3, <2>4, <4>1
    <3>3. SubSeq(piece, 1, e - 1) = line
      <4>1. e - 1 <= j - 1 /\ e \in Nat /\ j \in Nat /\ j <= Len(s)
        BY <1>4, <1>6, <2>1, <2>5
      <4>2. SubSeq(piece, 1, e - 1) = SubSeq(s, 1, e - 1)
        BY <1>6, <4>1
      <4> QED
        BY <1>4, <4>2
    <3> HIDE DEF piece, rest
    <3>4. message \o (piece \o rest) = answer.body
      BY <2>1 DEF piece, rest
    <3>5. Bare(answer.body) = message \o line /\ ~OneLine(answer.body)
      <4>1. rest \in Seq(STRING)
        BY <2>2 DEF rest
      <4>2. SingleLine(message \o (piece \o rest))
        BY <1>2, <3>4
      <4>3. /\ Bare(message \o (piece \o rest)) = message \o SubSeq(piece, 1, e - 1)
            /\ ~OneLine(message \o (piece \o rest))
        BY <1>2, <1>3, <2>3, <3>1, <3>2, <4>1, <4>2, LastLineEnd
      <4> QED
        BY <3>3, <3>4, <4>3
    <3>6. message' \in Seq(STRING) /\ IsPrefix(message', message')
      BY <1>1, <1>3, <1>4, ConcatProperties, PrefixOfItself
    <3>7. Astray'
      BY <1>1, <3>5, <3>6 DEF Astray, Said
    <3> QED
      BY <1>1, <1>7, <3>7 DEF ChunkInv
  <2> QED
    BY <2>6, <2>7
<1> QED
  BY <1>1, <1>2, <1>8, <1>9 DEF ChunkInv

(* At each place where the reader waits what it waits for is to come. *)
LEMMA NeverStarved ==
  ASSUME FetchInv, PlaceInv, ChunkInv, InChunksAtHand, OneLine(answer.body), Reading, wire = << >>
  PROVE  Satisfied
<1> DEFINE s == answer.sent
           n == HeadOf(s)
<1>1. SentInChunks(answer, Left(answer)) /\ answer \in Answers /\ s \in Seq(STRING)
  BY LeftIsThere
<1>2. buffer \in Seq(STRING) /\ ToRead = buffer /\ pc \in {"status", "headers", "size", "data"}
  <2>1. buffer \in Seq(STRING) /\ pc \in {"status", "headers", "size", "data", "error", "body"}
    BY DEF PlaceInv, Reading
  <2>2. pc # "body"
    BY DEF PlaceInv, InChunksAtHand
  <2>3. pc # "error"
    BY DEF PlaceInv, InChunksAtHand
  <2> QED
    BY <2>1, <2>2, <2>3, ConcatEmptySeq DEF ToRead
<1>3. /\ n \in 5 .. Len(s) /\ s[2] = "CRLF" /\ s[3] \notin Newline /\ s[n - 1] = "CRLF" /\ s[n] = "CRLF"
  BY <1>1, HeadThere DEF EndsHead, InChunksAtHand
<1> HIDE DEF n
<1>4. CASE pc = "status"
  <2>1. buffer = s
    BY <1>2, <1>4 DEF FetchInv, ToRead
  <2>2. HasLine(buffer)
    BY <1>1, <1>3, <2>1 DEF HasLine, Contains
  <2> QED
    BY <1>4, <2>2 DEF Satisfied
<1>5. CASE pc = "headers"
  <2>1. buffer = SubSeq(s, 3, Len(s))
    BY <1>2, <1>5 DEF PlaceInv
  <2> HIDE DEF s
  <2>3. Len(buffer) = Len(s) - 2 /\ n - 3 \in 1 .. Len(buffer) - 1
    BY <1>1, <1>3, <2>1 DEF s
  <2>4. buffer[n - 3] = s[n - 1] /\ buffer[(n - 3) + 1] = s[n]
    BY <1>1, <1>3, <2>1, <2>3 DEF s
  <2>5. HasBlank(buffer)
    BY <1>3, <2>3, <2>4 DEF HasBlank
  <2> QED
    BY <1>5, <2>5 DEF Satisfied
<1>6. CASE pc = "size"
  <2>1. ToRead \in DOMAIN Left(answer)
    BY <1>6 DEF ChunkInv, AtLength, Astray
  <2>2. \E i \in 2 .. Len(buffer) : IsLine(buffer, 1, i)
    BY <1>1, <1>2, <2>1 DEF SentInChunks, AreChunks
  <2>3. HasLine(buffer)
    BY <1>2, <2>2 DEF IsLine, HasLine, Contains
  <2> QED
    BY <1>6, <2>3 DEF Satisfied
<1>7. CASE pc = "data"
  <2>1. HasLine(buffer)
    BY <1>2, <1>7 DEF ChunkInv, AtText, Astray, HasLine, Contains
  <2> QED
    BY <1>7, <2>1 DEF Satisfied
<1> QED
  BY <1>2, <1>4, <1>5, <1>6, <1>7

(* Only while something is still to arrive can the reader be left waiting. *)
LEMMA ChunkOther ==
  ASSUME FetchInv, PlaceInv, ChunkInv, Connect \/ HangUp \/ Fail \/ ReadError
  PROVE  ChunkInv'
<1> SUFFICES ASSUME InChunksAtHand' PROVE ChunkInv'
  BY DEF ChunkInv
<1>1. UNCHANGED <<answer, wire, message>> /\ InChunksAtHand
  BY DEF Connect, HangUp, Fail, ReadError, InChunksAtHand
<1>2. ToRead' = ToRead
  BY PlaceOther
<1>3. AtLength' = AtLength /\ AtText' = AtText /\ Astray' = Astray /\ Said' = Said
  BY <1>1, <1>2 DEF AtLength, AtText, Astray, Said
<1>4. CASE pc' = pc
  BY <1>1, <1>3, <1>4 DEF ChunkInv
<1>5. CASE pc' # pc
  <2>1. ~ReadError
    BY <1>1 DEF ReadError, PlaceInv, InChunksAtHand
  <2>2. /\ pc' \in {"status", "nothing", "dead"}
        /\ pc' = "nothing" => Connect \/ Fail
    BY <1>5, <2>1 DEF Connect, HangUp, Fail
  <2>3. ASSUME Connect PROVE wire # << >>
    BY <1>1, <2>3, AnswersAssumption DEF Connect, PlaceInv, FetchInv
  <2>4. ASSUME Fail, OneLine(answer.body) PROVE wire # << >>
    BY <1>1, <2>4, NeverStarved DEF Fail
  <2> QED
    BY <1>1, <1>3, <2>2, <2>3, <2>4 DEF ChunkInv
<1> QED
  BY <1>4, <1>5

LEMMA ChunkStep == FetchInv /\ PlaceInv /\ ChunkInv /\ [FetchNext]_fetchVars => ChunkInv'
<1> SUFFICES ASSUME FetchInv, PlaceInv, ChunkInv, [FetchNext]_fetchVars PROVE ChunkInv'
  OBVIOUS
<1>1. CASE UNCHANGED fetchVars
  BY <1>1 DEF fetchVars, ChunkInv, InChunksAtHand, ToRead, Said, Astray, AtLength, AtText
<1> QED
  BY <1>1, ChunkReceive, ChunkHead, ChunkSize, ChunkData, ChunkOther DEF FetchNext, Compute

(* An answer in chunks, without line ends in its text, is never given up   *)
(* once all of it has arrived, wherever it was cut: the loop over chunks   *)
(* in getData keeps what it has not looked at.                             *)
THEOREM ChunksKept == FetchSpec => []ChunksNotLost
<1>1. ChunkInv => ChunksNotLost
  <2> SUFFICES ASSUME ChunkInv, answer.framing = "chunked", OneLine(answer.body), wire = << >>
               PROVE  pc # "nothing"
    BY DEF ChunksNotLost
  <2>1. SingleLine(answer.body)
    BY DEF OneLine, SingleLine
  <2> QED
    BY <2>1 DEF ChunkInv, InChunksAtHand
<1> QED
  BY PlaceInit, PlaceStep, ChunkInit, ChunkStep, <1>1, OwedForEver, PTL DEF FetchSpec

-----------------------------------------------------------------------------
LEMMA WholeText ==
  ASSUME FetchInv, PlaceInv, ChunkInv, pc = "text",
         answer.framing = "chunked" => SingleLine(answer.body)
  PROVE  SeenByReader = Bare(answer.body)
<1>1. answer \in Answers /\ message \in Seq(STRING) /\ answer.body \in Seq(STRING)
  BY AnswersAssumption DEF FetchInv, PlaceInv
<1>2. answer.framing \in {"chunked", "length"}
  BY <1>1, AnswersAssumption DEF PlaceInv, Framing
<1>3. CASE answer.framing = "chunked"
  <2>1. IsPrefix(Bare(answer.body), message) /\ OneLine(message)
    BY <1>3 DEF ChunkInv, InChunksAtHand, Said
  <2>2. Bare(message) = message
    BY <1>1, <2>1, BareOfOneLine
  <2> QED
    BY <2>1, <2>2 DEF SeenByReader
<1>4. CASE answer.framing = "length"
  <2>1. message = answer.body
    BY <1>4 DEF PlaceInv
  <2>2. IsPrefix(Bare(answer.body), Bare(message))
    BY <1>1, <2>1, BareIsText, PrefixOfItself
  <2> QED
    BY <2>2 DEF SeenByReader
<1> QED
  BY <1>2, <1>3, <1>4

(* Whatever Siggy sends and however it arrives, the caller of getData is   *)
(* told the whole text, or nothing, or is thrown at, in one step and once  *)
(* for all, if a text in chunks has no line end but one behind it.         *)
THEOREM WholeTextOrNothing ==
  ASSUME \A a \in Answers : a.framing = "chunked" => SingleLine(a.body)
  PROVE  FetchSpec => WholeOrNothing
<1> DEFINE meant == Bare(answer.body)
           told == IF pc = "text" THEN SeenByReader ELSE << >>
           state == CASE pc = "text" -> "told" [] pc = "nothing" -> "untold"
                      [] pc = "dead" -> "thrown" [] OTHER -> "asked"
<1>1. FetchInit => Promise!QuestionInit
  <2> SUFFICES ASSUME FetchInit PROVE Promise!QuestionInit
    OBVIOUS
  <2>1. meant \in Seq(STRING)
    BY AnswersAssumption, BareIsText DEF FetchInit
  <2>2. pc = "connect"
    BY DEF FetchInit
  <2> QED
    BY <2>1, <2>2 DEF Promise!QuestionInit
<1>2. FetchInv /\ PlaceInv /\ ChunkInv /\ FetchInv' /\ PlaceInv' /\ ChunkInv' /\ [FetchNext]_fetchVars
        => [Promise!QuestionNext]_(Promise!questionVars)
  <2> SUFFICES ASSUME FetchInv, PlaceInv, ChunkInv, FetchInv', PlaceInv', ChunkInv',
                      [FetchNext]_fetchVars
               PROVE  [Promise!QuestionNext]_(Promise!questionVars)
    OBVIOUS
  <2>1. answer' = answer /\ answer \in Answers
    BY DEF FetchNext, Compute, fetchVars, Connect, Receive, HangUp, Fail, ReadStatus, ReadError,
           ReadHeaders, ReadSize, ReadData, ReadBody, FetchInv
  <2>2. meant' = meant
    BY <2>1
  <2>3. CASE Ended
    <3>1. pc' = pc /\ message' = message
      BY <2>3 DEF Ended, FetchNext, Compute, fetchVars, Connect, Receive, Reading, HangUp, Fail,
                  ReadStatus, ReadError, ReadHeaders, ReadSize, ReadData, ReadBody
    <3>2. SeenByReader' = SeenByReader
      BY <2>1, <3>1 DEF SeenByReader
    <3>3. told' = told /\ state' = state
      BY <3>1, <3>2
    <3> QED
      BY <2>2, <3>3 DEF Promise!questionVars
  <2>4. CASE ~Ended
    <3>1. state = "asked" /\ told = << >>
      BY <2>4 DEF Ended
    <3>2. CASE pc' = "text"
      <4>1. SeenByReader' = meant'
        <5>1. (FetchInv /\ PlaceInv /\ ChunkInv /\ pc = "text"
                 /\ (answer.framing = "chunked" => SingleLine(answer.body))
               => SeenByReader = Bare(answer.body))'
          BY WholeText, PTL
        <5>2. answer'.framing = "chunked" => SingleLine(answer'.body)
          BY <2>1
        <5> QED
          BY <3>2, <5>1, <5>2
      <4>2. state' = "told" /\ told' = meant
        BY <2>2, <3>2, <4>1
      <4> QED
        BY <2>2, <3>1, <4>2 DEF Promise!QuestionNext, Promise!Tell
    <3>3. CASE pc' # "text"
      <4>1. told' = told /\ state' \in {"asked", "untold", "thrown"}
        BY <3>1, <3>3
      <4> QED
        BY <2>2, <3>1, <4>1
           DEF Promise!QuestionNext, Promise!Refuse, Promise!Throw, Promise!questionVars
    <3> QED
      BY <3>2, <3>3
  <2> QED
    BY <2>3, <2>4
<1>3. FetchSpec => []FetchInv /\ []PlaceInv /\ []ChunkInv
  BY PlaceInit, PlaceStep, ChunkInit, ChunkStep, OwedForEver, PTL DEF FetchSpec
<1> QED
  BY <1>1, <1>2, <1>3, PTL DEF FetchSpec, WholeOrNothing, Promise!QuestionSpec

-----------------------------------------------------------------------------
(***************************************************************************)
(* An exchange comes to its end: no step takes nothing.                    *)
(***************************************************************************)
LEMMA LineShortens ==
  ASSUME NEW b \in Seq(STRING), HasLine(b)
  PROVE  /\ AfterLine(b) \in Seq(STRING) /\ Len(AfterLine(b)) < Len(b)
         /\ Len(AfterLine(b)) \in Nat /\ Len(b) \in Nat
<1>1. LineEnd(b) \in 1 .. Len(b)
  BY FirstLine
<1> DEFINE e == LineEnd(b)
<1> HIDE DEF e
<1>2. SubSeq(b, e + 1, Len(b)) \in Seq(STRING) /\ Len(SubSeq(b, e + 1, Len(b))) = Len(b) - e
  BY <1>1 DEF e
<1>3. AfterLine(b) = SubSeq(b, e + 1, Len(b))
  BY DEF AfterLine, e
<1>4. Len(b) \in Nat /\ e \in 1 .. Len(b)
  BY <1>1 DEF e
<1> QED
  BY <1>2, <1>3, <1>4

(* Piece by piece the answer passes from the wire into the buffer. *)
LEMMA ReceiveTakes ==
  ASSUME FetchInv, PlaceInv, Receive
  PROVE  2 * Len(wire') + Len(buffer') < 2 * Len(wire) + Len(buffer)
<1>1. /\ buffer \in Seq(STRING) /\ wire \in Seq(STRING)
      /\ Len(buffer) \in Nat /\ Len(wire) \in Nat
  BY DEF FetchInv, PlaceInv
<1>2. PICK n \in 1 .. Len(wire) : /\ buffer' = buffer \o SubSeq(wire, 1, n)
                                  /\ wire' = SubSeq(wire, n + 1, Len(wire))
  BY DEF Receive
<1>3. SubSeq(wire, 1, n) \in Seq(STRING) /\ Len(SubSeq(wire, 1, n)) = n
  BY <1>1, <1>2
<1>4. Len(SubSeq(wire, n + 1, Len(wire))) = Len(wire) - n
  BY <1>1, <1>2
<1>5. Len(buffer') = Len(buffer) + n
  BY <1>1, <1>2, <1>3
<1>6. Len(wire') = Len(wire) - n
  BY <1>2, <1>4
<1> DEFINE w == Len(wire)
           b == Len(buffer)
<1>7. w \in Nat /\ b \in Nat /\ n \in 1 .. w /\ Len(wire') = w - n /\ Len(buffer') = b + n
  BY <1>1, <1>5, <1>6
<1> HIDE DEF w, b
<1>8. 2 * (w - n) + (b + n) < 2 * w + b
  BY <1>7
<1> QED
  BY <1>7, <1>8 DEF w, b

(* Each of the reads that succeed takes something from the buffer. *)
LEMMA ReadTakes ==
  ASSUME FetchInv, PlaceInv, ReadStatus \/ ReadHeaders \/ ReadSize \/ ReadData \/ ReadBody
  PROVE  wire' = wire /\ Len(buffer') \in Nat /\ Len(buffer') < Len(buffer)
<1>1. /\ buffer \in Seq(STRING) /\ wire \in Seq(STRING) /\ answer \in Answers
      /\ Len(buffer) \in Nat /\ Len(wire) \in Nat
  BY DEF FetchInv, PlaceInv
<1>2. CASE ReadStatus
  <2>1. HasLine(buffer) /\ buffer' \in {AfterLine(buffer), << >>} /\ wire' = wire
    BY <1>2 DEF ReadStatus, Satisfied
  <2>2. Len(buffer) > 0
    BY <1>1, <2>1, LineShortens
  <2> QED
    BY <1>1, <2>1, <2>2, LineShortens
<1>3. CASE ReadHeaders
  <2> DEFINE s == answer.sent
  <2>1. /\ pc = "headers" /\ ToRead = SubSeq(s, 3, Len(s)) /\ wire' = wire
        /\ answer.framing # "error"
    BY <1>3 DEF ReadHeaders, PlaceInv, FetchInv
  <2>2. s \in Seq(STRING) /\ HeadOf(s) \in 5 .. Len(s) /\ Len(s) \in Nat
    BY <1>1, <2>1, HeadThere
  <2>3. ToRead' = Content(s) /\ buffer' \in Seq(STRING)
    BY <1>3, PlaceHeaders DEF PlaceInv
  <2> DEFINE n == HeadOf(s)
  <2>4. Content(s) = SubSeq(s, n + 1, Len(s))
    BY DEF Content
  <2> HIDE DEF s, n
  <2>5. n \in 5 .. Len(s)
    BY <2>2 DEF n
  <2>6. Len(SubSeq(s, n + 1, Len(s))) = Len(s) - n /\ Len(SubSeq(s, 3, Len(s))) = Len(s) - 2
    BY <2>2, <2>5
  <2>7. Len(ToRead) = Len(buffer) + Len(wire)
    BY <1>1 DEF ToRead
  <2>8. Len(ToRead') = Len(buffer') + Len(wire) /\ Len(buffer') \in Nat
    BY <1>1, <2>1, <2>3 DEF ToRead
  <2> QED
    BY <1>1, <2>1, <2>2, <2>3, <2>4, <2>5, <2>6, <2>7, <2>8
<1>4. CASE ReadSize \/ ReadData
  <2>1. HasLine(buffer) /\ buffer' = AfterLine(buffer) /\ wire' = wire
    BY <1>4 DEF ReadSize, ReadData, Satisfied
  <2> QED
    BY <1>1, <2>1, LineShortens
<1>5. CASE ReadBody
  <2>1. pc = "body" /\ message' = buffer /\ buffer' = << >> /\ wire' = wire
    BY <1>5 DEF ReadBody
  <2>2. buffer = answer.body /\ answer.framing = "length"
    BY <1>5, <2>1, PlaceBody DEF PlaceInv
  <2>3. buffer # << >>
    BY <1>1, <2>2, FramingAssumption
  <2> QED
    BY <1>1, <2>1, <2>3
<1> QED
  BY <1>2, <1>3, <1>4, <1>5

LEMMA SmallerSum ==
  ASSUME NEW a \in Nat, NEW b \in Nat, NEW c \in Nat, NEW x \in Nat, NEW y \in Nat, NEW z \in Nat,
         x <= a, y <= b, z <= c, x < a \/ y < b \/ z < c
  PROVE  x + y + z \in Nat /\ x + y + z < a + b + c
OBVIOUS

(* A question to Siggy comes to an end, whatever is answered and however   *)
(* it is cut, unless getData is left waiting: every step of an exchange    *)
(* lowers a natural number, which starts at twice the length of the answer *)
(* and three.  That a wait ends once Siggy hangs up is for TLC.            *)
THEOREM EveryReadCounts == FetchSpec => ExchangeRunsDown
<1> DEFINE Closer == FetchLeft' \in Nat /\ FetchLeft' < FetchLeft
<1>1. ASSUME FetchInv, PlaceInv, FetchInv', PlaceInv', FetchNext
      PROVE  Closer
  <2> DEFINE held == 2 * Len(wire) + Len(buffer)
             line == IF open THEN 1 ELSE 0
             turn == CASE pc = "connect" -> 2 [] Ended -> 0 [] OTHER -> 1
  <2>1. Len(wire) \in Nat /\ Len(buffer) \in Nat /\ Len(wire') \in Nat /\ Len(buffer') \in Nat
    BY <1>1 DEF FetchInv, PlaceInv
  <2>2. FetchLeft = held + line + turn /\ FetchLeft' = held' + line' + turn'
    BY DEF FetchLeft
  <2>3. held \in Nat /\ held' \in Nat /\ line \in Nat /\ line' \in Nat
    BY <2>1
  <2>4. turn \in Nat /\ turn' \in Nat
    OBVIOUS
  <2> HIDE DEF held, line, turn
  <2>5. CASE Connect
    <3>1. held' = held /\ line' = line
      BY <2>5 DEF held, line, Connect
    <3>2. turn' < turn
      BY <2>5 DEF turn, Connect, Ended
    <3>3. held' <= held /\ line' <= line /\ turn' <= turn
      BY <2>3, <2>4, <3>1, <3>2
    <3> QED
      BY <2>2, <2>3, <2>4, <3>1, <3>2, <3>3, SmallerSum
  <2>6. CASE Receive
    <3>1. held' < held
      BY <1>1, <2>6, ReceiveTakes DEF held
    <3>2. line' = line /\ turn' = turn
      BY <2>6 DEF line, turn, Receive, Ended
    <3>3. held' <= held /\ line' <= line /\ turn' <= turn
      BY <2>3, <2>4, <3>1, <3>2
    <3> QED
      BY <2>2, <2>3, <2>4, <3>1, <3>2, <3>3, SmallerSum
  <2>7. CASE HangUp
    <3>1. held' = held /\ turn' = turn
      BY <2>7 DEF held, turn, HangUp, Ended
    <3>2. line' < line
      BY <2>7 DEF line, HangUp
    <3>3. held' <= held /\ line' <= line /\ turn' <= turn
      BY <2>3, <2>4, <3>1, <3>2
    <3> QED
      BY <2>2, <2>3, <2>4, <3>1, <3>2, <3>3, SmallerSum
  <2>8. CASE Fail \/ ReadError
    <3>1. held' = held /\ line' = line
      BY <2>8 DEF held, line, Fail, ReadError
    <3>2. turn' < turn
      BY <2>8 DEF turn, Fail, ReadError, Reading, Ended
    <3>3. held' <= held /\ line' <= line /\ turn' <= turn
      BY <2>3, <2>4, <3>1, <3>2
    <3> QED
      BY <2>2, <2>3, <2>4, <3>1, <3>2, <3>3, SmallerSum
  <2>9. CASE ReadStatus \/ ReadHeaders \/ ReadSize \/ ReadData \/ ReadBody
    <3>1. held' < held
      BY <1>1, <2>1, <2>9, ReadTakes DEF held
    <3>2. line' = line /\ turn' <= turn
      BY <2>9 DEF line, turn, ReadStatus, ReadHeaders, ReadSize, ReadData, ReadBody, Ended
    <3>3. held' <= held /\ line' <= line /\ turn' <= turn
      BY <2>3, <2>4, <3>1, <3>2
    <3> QED
      BY <2>2, <2>3, <2>4, <3>1, <3>2, <3>3, SmallerSum
  <2> QED
    BY <1>1, <2>5, <2>6, <2>7, <2>8, <2>9 DEF FetchNext, Compute
<1>2. FetchInv /\ PlaceInv /\ FetchInv' /\ PlaceInv' /\ [FetchNext]_fetchVars
        => [FetchLeft' \in Nat /\ FetchLeft' < FetchLeft]_fetchVars
  BY <1>1
<1> QED
  BY <1>2, PlaceInit, PlaceStep, OwedForEver, PTL DEF FetchSpec, ExchangeRunsDown
=============================================================================
