----------------------------- MODULE LlmProofs -----------------------------
(* Theorems about Llm, for every number of retries, any number of events   *)
(* of a server, any way the network cuts a stream and any way an attempt   *)
(* may fail: retries are earned and bounded, and an accepted reply is the  *)
(* text of one attempt, whole and in order, over each of the protocols.    *)
(* For Ollama the invariant says what is in the buffer and on the wire:    *)
(* the lines not read yet, of consecutive events.                          *)
EXTENDS Llm, SequenceTheorems, WellFoundedInduction, TLAPS

Failed == [kind : {"MissingApiKey", "Http", "Status", "Stream", "Truncated", "Empty"},
           retryable : BOOLEAN]

(* Failures are counted with the attempts: an attempt under way has all    *)
(* the failures before it behind it, each worth a retry; one that ended    *)
(* has its own too.                                                        *)
RetryInv ==
  /\ pc \in {"idle", "sending", "streaming", "backoff", "shorter", "done"}
  /\ attempt \in Nat /\ failures \in Seq(Failed)
  /\ pc = "idle" => attempt = 0 /\ failures = <<>>
  /\ pc \in {"sending", "streaming"} => attempt >= 1 /\ Len(failures) = attempt - 1
  /\ pc \in {"backoff", "shorter"} => attempt >= 1 /\ Len(failures) = attempt
  /\ pc = "backoff" => attempt <= MaxRetries /\ failures[attempt].retryable
  /\ RetriesAreEarned

(* However a stream ended, its outcome is an answer or one of the errors.  *)
LEMMA OutcomeIsAnswerOrError ==
  ASSUME NEW a
  PROVE  /\ Outcome(a) \in Failed \/ Outcome(a).kind = "Ok"
         /\ Outcome(a).kind = "Ok" =>
              /\ Outcome(a).text = a.text /\ Outcome(a).stop = a.stop
              /\ a.text # <<>> /\ ~IsLengthStop(a.stop)
<1>1. CASE IsLengthStop(a.stop)
  BY <1>1 DEF Outcome, Error, Failed
<1>2. CASE ~IsLengthStop(a.stop) /\ a.text = <<>>
  BY <1>2 DEF Outcome, Error, Failed
<1>3. CASE ~IsLengthStop(a.stop) /\ a.text # <<>>
  BY <1>3 DEF Outcome
<1>4. QED
  BY <1>1, <1>2, <1>3

LEMMA FailKeepsCount ==
  ASSUME RetryInv, pc \in {"sending", "streaming"}, NEW e \in Failed, Fail(e),
         attempt' = attempt
  PROVE  RetryInv'
<1>1. /\ attempt \in Nat /\ attempt >= 1 /\ Len(failures) = attempt - 1
      /\ failures \in Seq(Failed) /\ attempt <= MaxRetries + 1
      /\ \A k \in 1..(attempt - 1) : failures[k].retryable
  BY DEF RetryInv, RetriesAreEarned
<1>2. /\ failures' = Append(failures, e) /\ failures' \in Seq(Failed)
      /\ Len(failures') = attempt
      /\ failures'[attempt] = e /\ Last(failures') = e
      /\ \A k \in 1..(attempt - 1) : failures'[k].retryable
  BY <1>1 DEF Fail, Last
<1>3. CASE e.retryable /\ attempt <= MaxRetries
  <2>1. pc' = "backoff"
    BY <1>3 DEF Fail
  <2>2. QED
    BY <1>1, <1>2, <1>3, <2>1 DEF RetryInv, RetriesAreEarned
<1>4. CASE ~(e.retryable /\ attempt <= MaxRetries)
  <2>1. pc' \in {"shorter", "done"} /\ result' = Surfaced(e)
    BY <1>4 DEF Fail
  <2>2. /\ result'.kind # "Ok"
        /\ e.retryable /\ attempt > 1 => result'.kind = "Exhausted"
        /\ ~e.retryable => result' = e
    BY <2>1 DEF Surfaced, Failed
  <2>3. e.retryable => attempt = MaxRetries + 1
    BY <1>1, <1>4, LlmAssumption
  <2>4. RetriesAreEarned'
    BY <1>1, <1>2, <2>2, <2>3 DEF RetriesAreEarned
  <2>5. QED
    BY <1>1, <1>2, <2>1, <2>4 DEF RetryInv
<1>5. QED
  BY <1>3, <1>4

LEMMA SettleKeepsCount ==
  ASSUME RetryInv, pc \in {"sending", "streaming"}, NEW a, Settle(Outcome(a)),
         attempt' = attempt
  PROVE  RetryInv'
<1>1. CASE Outcome(a).kind = "Ok"
  <2>1. pc' = "done" /\ result' = Outcome(a) /\ failures' = failures
    BY <1>1 DEF Settle
  <2>2. QED
    BY <1>1, <2>1 DEF RetryInv, RetriesAreEarned
<1>2. CASE Outcome(a).kind # "Ok"
  BY <1>2, OutcomeIsAnswerOrError, FailKeepsCount DEF Settle
<1>3. QED
  BY <1>1, <1>2

LEMMA RetryStep == RetryInv /\ [LlmNext]_llmVars => RetryInv'
<1> SUFFICES ASSUME RetryInv, [LlmNext]_llmVars PROVE RetryInv'
  OBVIOUS
<1> USE LlmAssumption
(* A step that keeps the account of the attempts.                          *)
<1>1. ASSUME UNCHANGED <<pc, attempt, failures, result>> PROVE RetryInv'
  BY <1>1 DEF RetryInv, RetriesAreEarned
<1>2. ASSUME NEW p \in Providers, Switch(p) PROVE RetryInv'
  BY <1>1, <1>2 DEF Switch
<1>3. ASSUME NEW c \in {"query", "summarize"}, NEW p \in Providers \cup {"unknown"}, Call(c, p)
      PROVE RetryInv'
  <2>1. /\ pc = "idle" /\ failures' = <<>>
        /\ p = "unknown" => pc' = "done" /\ attempt' = 0
        /\ p # "unknown" => pc' = "sending" /\ attempt' = 1
    BY <1>3 DEF Call, RetryInv
  <2>2. QED
    BY <2>1 DEF RetryInv, RetriesAreEarned
<1>4. CASE Retry
  <2>1. /\ pc = "backoff" /\ pc' = "sending" /\ attempt' = attempt + 1 /\ failures' = failures
    BY <1>4 DEF Retry
  <2>2. \A k \in 1..attempt : failures[k].retryable
    BY <2>1 DEF RetryInv, RetriesAreEarned
  <2>3. QED
    BY <2>1, <2>2 DEF RetryInv, RetriesAreEarned
<1>5. CASE AskShorter
  BY <1>5 DEF AskShorter, RetryInv, RetriesAreEarned
<1>6. CASE NoKey
  BY <1>6, FailKeepsCount DEF NoKey, Error, Failed
<1>7. CASE Refused
  BY <1>7, FailKeepsCount DEF Refused, Error, Failed
<1>8. CASE Answered
  BY <1>8 DEF Answered, RetryInv, RetriesAreEarned
<1>9. ASSUME NEW e, SseEvent(e) PROVE RetryInv'
  <2>0. pc = "streaming" /\ attempt' = attempt
    BY <1>9 DEF SseEvent
  <2>1. CASE e.tag = "error"
    BY <1>9, <2>0, <2>1, FailKeepsCount DEF SseEvent, Error, Failed
  <2>2. CASE e.tag = "end"
    BY <1>9, <2>0, <2>2, SettleKeepsCount DEF SseEvent
  <2>3. CASE e.tag \notin {"error", "end"}
    BY <1>1, <1>9, <2>3 DEF SseEvent
  <2>4. QED
    BY <2>1, <2>2, <2>3
<1>10. ASSUME NEW e, NEW t \in BOOLEAN, ServerWrites(e, t) PROVE RetryInv'
  BY <1>1, <1>10 DEF ServerWrites
<1>11. ASSUME NEW n \in 1..(3 * MaxEvents), Chunk(n) PROVE RetryInv'
  <2> DEFINE s == Lines(acc, buf \o Decoded(SubSeq(wire, 1, n)))
  <2>0. /\ pc = "streaming" /\ attempt' = attempt
        /\ CASE s.over = "error" -> Fail(Error("Stream", TRUE))
             [] s.over = "end"   -> Settle(Outcome(s.acc))
             [] OTHER            -> UNCHANGED <<call, pc, failures, result>>
    BY <1>11 DEF Chunk
  <2> HIDE DEF s
  <2>1. CASE s.over = "error"
    BY <2>0, <2>1, FailKeepsCount DEF Error, Failed
  <2>2. CASE s.over = "end"
    BY <2>0, <2>2, SettleKeepsCount
  <2>3. CASE s.over \notin {"error", "end"}
    BY <1>1, <2>0, <2>3
  <2>4. QED
    BY <2>1, <2>2, <2>3
<1>12. CASE BodyEnds
  BY <1>12, SettleKeepsCount DEF BodyEnds
<1>13. CASE StreamBreaks
  BY <1>13, FailKeepsCount DEF StreamBreaks, Error, Failed
<1>14. CASE UNCHANGED llmVars
  BY <1>1, <1>14 DEF llmVars
<1>15. QED
  BY <1>2, <1>3, <1>4, <1>5, <1>6, <1>7, <1>8, <1>9, <1>10, <1>11, <1>12, <1>13, <1>14
     DEF LlmNext

(* Whatever a provider does, an attempt follows another only after an      *)
(* error worth a retry, there are at most MaxRetries + 1 of them, and what *)
(* surfaces is the last error: wrapped when it was retried, itself when    *)
(* retrying is useless.                                                    *)
THEOREM RetriesAreCounted == LlmInit /\ [][LlmNext]_llmVars => []RetriesAreEarned
<1>1. LlmInit => RetryInv
  BY LlmAssumption DEF LlmInit, RetryInv, RetriesAreEarned
<1>2. RetryInv => RetriesAreEarned
  BY DEF RetryInv
<1>3. QED
  BY <1>1, <1>2, RetryStep, PTL

----------------------------------------------------------------------------
(* What is read of a stream *)

Sse == call.provider # "ollama"

Sent == [tag : {"junk", "error", "data", "end", "wide"}, text : BOOLEAN,
         stop : {None, "length", "stop", "max_tokens"}, in : Nat, out : Nat]
Pieces == [attempt : Nat, event : Nat, whole : BOOLEAN]
Fragment == [event : Nat, part : {1, 2, 3}, bad : BOOLEAN]

(* The events before event m that carry something.                         *)
Carrying(m, s) == {i \in 1..(m - 1) : s[i].tag \notin {"junk", "error", "end"}}

(* No event before m ends the stream s.                                    *)
Open(m, s) == \A i \in 1..(m - 1) : s[i].tag \notin {"error", "end"}

(* What was gathered in attempt n is what events U of the stream s carry:  *)
(* every text, once and in order, and the last stop reason.                *)
Gathers(n, text, stop, U, s) ==
  /\ text \in Seq(Pieces)
  /\ \A k \in DOMAIN text :
        /\ text[k].attempt = n
        /\ text[k].whole \/ s[text[k].event].tag = "wide"
        /\ text[k].event \in U /\ s[text[k].event].text
        /\ k > 1 => text[k - 1].event < text[k].event
  /\ \A i \in U : s[i].text => \E k \in DOMAIN text : text[k].event = i
  /\ \A i \in U : IsLengthStop(s[i].stop) =>
        IsLengthStop(stop) \/ \E j \in U : i < j /\ s[j].stop # None

(* The fragments q of an Ollama stream that were not read yet are whole    *)
(* lines, but for the last one, of consecutive events up to the last one   *)
(* of s.                                                                   *)
Follows(f, g) == IF f.part = 3 THEN g.part = 1 /\ g.event = f.event + 1
                 ELSE g.part = f.part + 1 /\ g.event = f.event
Framed(q, s) ==
  /\ q \in Seq(Fragment)
  /\ \A k \in 1..Len(q) :
        q[k].event \in 1..Len(s) /\ (q[k].bad => s[q[k].event].tag = "wide")
  /\ \A j, k \in 1..Len(q) : j <= k => q[j].event <= q[k].event
  /\ \A k \in 1..(Len(q) - 1) : Follows(q[k], q[k + 1])
  /\ Len(q) > 0 => q[1].part = 1 /\ q[Len(q)].event = Len(s) /\ q[Len(q)].part # 1

(* The first event that was not read yet.                                  *)
Unread(q, s) == IF Len(q) = 0 THEN Len(s) + 1 ELSE q[1].event

HasLine(b) == \E k \in 1..Len(b) : b[k].part = 3

(* What is gathered is what was read, with q still to be read.             *)
Reads(n, a, q, s) ==
  /\ Framed(q, s)
  /\ Open(Unread(q, s), s)
  /\ Gathers(n, a.text, a.stop, Carrying(Unread(q, s), s), s)

(* The same when event m, the last one read, ended the stream.             *)
Ended(n, a, q, s) ==
  LET m == Unread(q, s) - 1
  IN  /\ Framed(q, s)
      /\ m \in 1..Len(s) /\ s[m].tag = "end" /\ Open(m, s)
      /\ Gathers(n, a.text, a.stop, Carrying(m, s) \cup {m}, s)

(* Only the last line of an Ollama stream names a stop reason.             *)
StopsAtEnd(s) == \A i \in 1..Len(s) : s[i].tag # "end" => s[i].stop = None

(* Nothing is left of an attempt when the next one starts, and no event    *)
(* follows the one that ends a stream.                                     *)
WholeInv ==
  /\ sent \in Seq(Sent)
  /\ ~Sse => StopsAtEnd(sent)
  /\ pc = "idle" => sent = <<>> /\ acc = Gathered /\ buf = <<>> /\ wire = <<>>
  /\ result.kind = "Ok" => pc = "done"
  /\ Sse => buf = <<>> /\ wire = <<>>
  /\ pc \in {"sending", "streaming"} =>
       /\ buf \in Seq(Fragment) /\ wire \in Seq(Fragment) /\ ~HasLine(buf)
       /\ Reads(attempt, acc, buf \o wire, sent)
  /\ pc = "done" /\ result.kind = "Ok" =>
       /\ Gathers(attempt, result.text, result.stop, Used, sent)
       /\ result.text # <<>> /\ ~IsLengthStop(result.stop)

LEMMA EventsSent ==
  /\ \A p \in Providers : Events(p) \subseteq Sent
  /\ \A e \in Events("ollama") : e.tag # "end" => e.stop = None
<1>1. Junk \in Sent /\ Failure \in Sent /\ Text \in Sent
  BY DEF Junk, Failure, Text, Event, Sent, None
<1>2. OpenAiEvents \subseteq Sent /\ AnthropicEvents \subseteq Sent /\ OllamaEvents \subseteq Sent
  BY DEF OpenAiEvents, AnthropicEvents, OllamaEvents, Event, Sent, None
<1>3. Events("ollama") = {Junk, Failure, Text} \cup OllamaEvents
  BY DEF Events
<1>4. \A e \in OllamaEvents : e.tag # "end" => e.stop = None
  BY DEF OllamaEvents, Event, None
<1>5. Junk.stop = None /\ Failure.stop = None /\ Text.stop = None
  BY DEF Junk, Failure, Text, Event
<1>6. QED
  BY <1>1, <1>2, <1>3, <1>4, <1>5 DEF Events, Providers

(* What was gathered of some events is not changed by another one.         *)
LEMMA GathersStill ==
  ASSUME NEW n, NEW text, NEW stop, NEW s \in Seq(Sent), NEW e \in Sent,
         NEW U \in SUBSET (1..Len(s)), Gathers(n, text, stop, U, s)
  PROVE  Gathers(n, text, stop, U, Append(s, e))
<1> DEFINE t == Append(s, e)
<1>1. \A i \in U : t[i] = s[i]
  BY AppendProperties
<1> HIDE DEF t
<1>2. Gathers(n, text, stop, U, t)
  BY <1>1 DEF Gathers
<1>3. QED
  BY <1>2 DEF t

(* An event after all those of U is taken in at the end.                   *)
LEMMA TakesIn ==
  ASSUME NEW a, NEW s, NEW m \in Nat, NEW U \in SUBSET Nat, \A i \in U : i < m,
         s[m] \in Sent, NEW whole \in BOOLEAN, whole \/ s[m].tag = "wide",
         attempt \in Nat, Gathers(attempt, a.text, a.stop, U, s),
         ~Sse => \A i \in U : s[i].stop = None
  PROVE  Gathers(attempt, Take(a, s[m], m, whole).text, Take(a, s[m], m, whole).stop,
                 U \cup {m}, s)
<1> DEFINE e == s[m]
           V == U \cup {m}
           piece == Piece(m, whole)
           text == Take(a, e, m, whole).text
           stop == Take(a, e, m, whole).stop
<1>1. /\ text = (IF e.text THEN Append(a.text, piece) ELSE a.text)
      /\ stop = IF e.stop # None \/ (~Sse /\ e.tag = "end") THEN e.stop ELSE a.stop
  BY DEF Take, Sse
<1>2. e.text \in BOOLEAN /\ a.text \in Seq(Pieces) /\ piece \in Pieces
  BY DEF Sent, Gathers, Piece, Pieces
<1>3. piece.attempt = attempt /\ piece.whole = whole /\ piece.event = m
  BY DEF Piece
<1>4. m \in V /\ U \subseteq V /\ \A i \in V : i = m \/ (i \in U /\ i < m)
  OBVIOUS
<1>5. /\ DOMAIN a.text = 1..Len(a.text) /\ Len(a.text) \in Nat
      /\ text \in Seq(Pieces)
      /\ \A k \in DOMAIN a.text : k \in DOMAIN text /\ text[k] = a.text[k]
      /\ e.text => DOMAIN text = 1..(Len(a.text) + 1) /\ text[Len(a.text) + 1] = piece
      /\ ~e.text => text = a.text
  <2>1. CASE e.text
    <3>1. text = Append(a.text, piece)
      BY <1>1, <2>1
    <3>2. QED
      BY <1>2, <2>1, <3>1, AppendProperties, LenProperties
  <2>2. CASE ~e.text
    BY <1>1, <1>2, <2>2, LenProperties
  <2>3. QED
    BY <1>2, <2>1, <2>2
<1> HIDE DEF text, stop, piece, V
<1>6. ASSUME NEW k \in DOMAIN a.text
      PROVE  /\ a.text[k].attempt = attempt
             /\ a.text[k].whole \/ s[a.text[k].event].tag = "wide"
             /\ a.text[k].event \in U /\ s[a.text[k].event].text
             /\ k > 1 => a.text[k - 1].event < a.text[k].event
  BY DEF Gathers
<1>7. ASSUME NEW k \in DOMAIN text
      PROVE  /\ text[k].attempt = attempt
             /\ text[k].whole \/ s[text[k].event].tag = "wide"
             /\ text[k].event \in V /\ s[text[k].event].text
             /\ k > 1 => text[k - 1].event < text[k].event
  <2>1. CASE k \in DOMAIN a.text
    <3>1. k > 1 => k - 1 \in DOMAIN a.text
      BY <1>5, <2>1
    <3>2. text[k] = a.text[k] /\ (k > 1 => text[k - 1] = a.text[k - 1])
      BY <1>5, <2>1, <3>1
    <3>3. QED
      BY <1>4, <1>6, <2>1, <3>2
  <2>2. CASE k \notin DOMAIN a.text
    <3>1. e.text /\ k = Len(a.text) + 1 /\ text[k] = piece
      BY <1>2, <1>5, <2>2
    <3>2. ASSUME k > 1 PROVE text[k - 1].event < m
      <4>1. k - 1 \in DOMAIN a.text
        BY <1>5, <3>1, <3>2
      <4>2. QED
        BY <1>4, <1>5, <1>6, <4>1
    <3>3. QED
      BY <1>3, <1>4, <3>1, <3>2
  <2>3. QED
    BY <2>1, <2>2
<1>8. ASSUME NEW i \in V, s[i].text PROVE \E k \in DOMAIN text : text[k].event = i
  <2>1. CASE i = m
    <3>1. Len(a.text) + 1 \in DOMAIN text /\ text[Len(a.text) + 1].event = m
      BY <1>3, <1>5, <1>8, <2>1
    <3>2. QED
      BY <2>1, <3>1
  <2>2. CASE i \in U
    <3>1. PICK k \in DOMAIN a.text : a.text[k].event = i
      BY <1>8, <2>2 DEF Gathers
    <3>2. QED
      BY <1>5, <3>1
  <2>3. QED
    BY <1>4, <2>1, <2>2
<1>9. ASSUME NEW i \in V, IsLengthStop(s[i].stop)
      PROVE  IsLengthStop(stop) \/ \E j \in V : i < j /\ s[j].stop # None
  <2>1. s[i].stop # None
    BY <1>9 DEF IsLengthStop, None
  <2>2. CASE i = m
    BY <1>1, <1>9, <2>1, <2>2
  <2>3. CASE i \in U /\ e.stop # None
    BY <1>4, <2>3
  <2>4. CASE i \in U /\ e.stop = None
    <3>1. stop = a.stop
      BY <1>1, <2>1, <2>4
    <3>2. QED
      BY <1>4, <1>9, <2>4, <3>1 DEF Gathers
  <2>5. QED
    BY <1>4, <2>2, <2>3, <2>4
<1>10. Gathers(attempt, text, stop, V, s)
  BY <1>5, <1>7, <1>8, <1>9 DEF Gathers
<1>11. QED
  BY <1>10 DEF text, stop, V

(* The first complete line of a buffer is a whole event.                   *)
LEMMA FirstLine ==
  ASSUME NEW s \in Seq(Sent), NEW b \in Seq(Fragment), NEW w \in Seq(Fragment),
         Framed(b \o w, s), HasLine(b)
  PROVE  /\ Len(b) >= 3 /\ FirstNewline(b) = 3
         /\ b[1].part = 1 /\ b[2].part = 2
         /\ Unread(b \o w, s) = b[1].event
         /\ \A k \in 1..3 : b[k].event = b[1].event /\ (b \o w)[k] = b[k]
         /\ (b \o w)[3].part = 3
<1> DEFINE q == b \o w
<1>1. /\ q \in Seq(Fragment) /\ Len(q) = Len(b) + Len(w)
      /\ Len(b) \in Nat /\ Len(w) \in Nat
      /\ \A k \in 1..Len(b) : q[k] = b[k]
  BY ConcatProperties, LenProperties
<1> HIDE DEF q
<1>2. /\ \A k \in 1..(Len(q) - 1) : Follows(q[k], q[k + 1])
      /\ Len(q) > 0 => q[1].part = 1
  BY DEF Framed, q
<1>3. PICK n \in 1..Len(b) : b[n].part = 3
  BY DEF HasLine
<1>4. b[1].part = 1 /\ Len(b) >= 2
  <2>1. Len(b) > 0 /\ q[1].part = 1 /\ q[1] = b[1]
    BY <1>1, <1>2, <1>3
  <2>2. n # 1
    BY <1>3, <2>1
  <2>3. QED
    BY <1>1, <1>3, <2>1, <2>2
<1>5. b[2].part = 2 /\ b[2].event = b[1].event /\ Len(b) >= 3
  <2>1. Follows(q[1], q[2]) /\ q[1] = b[1] /\ q[2] = b[2]
    BY <1>1, <1>2, <1>4
  <2>2. b[2].part = 2 /\ b[2].event = b[1].event
    BY <1>4, <2>1 DEF Follows
  <2>3. n # 1 /\ n # 2
    BY <1>3, <1>4, <2>2
  <2>4. QED
    BY <1>1, <1>3, <2>2, <2>3
<1>6. b[3].part = 3 /\ b[3].event = b[1].event
  <2>1. Follows(q[2], q[3]) /\ q[2] = b[2] /\ q[3] = b[3]
    BY <1>1, <1>2, <1>5
  <2>2. QED
    BY <1>5, <2>1 DEF Follows
<1>7. FirstNewline(b) = 3
  <2>1. DOMAIN b = 1..Len(b) /\ 3 \in DOMAIN b
    BY <1>5, LenProperties
  <2>2. \A k \in DOMAIN b : b[k].part = 3 /\ (\A j \in 1..(k - 1) : b[j].part # 3) <=> k = 3
    <3>1. ASSUME NEW k \in DOMAIN b, k # 3, b[k].part = 3, \A j \in 1..(k - 1) : b[j].part # 3
          PROVE  FALSE
      <4>1. k # 1 /\ k # 2
        BY <1>4, <1>5, <3>1
      <4>2. 3 \in 1..(k - 1)
        BY <2>1, <3>1, <4>1
      <4>3. QED
        BY <1>6, <3>1, <4>2
    <3>2. \A j \in 1..(3 - 1) : b[j].part # 3
      BY <1>4, <1>5
    <3>3. QED
      BY <1>6, <2>1, <3>1, <3>2
  <2>3. (CHOOSE k \in DOMAIN b : b[k].part = 3 /\ \A j \in 1..(k - 1) : b[j].part # 3) = 3
    BY <2>1, <2>2
  <2>4. QED
    BY <1>6, <2>1, <2>3 DEF FirstNewline
<1>8. Unread(q, s) = b[1].event
  <2>1. Len(q) # 0
    BY <1>1
  <2>2. q[1] = b[1]
    BY <1>1, <1>4
  <2>3. QED
    BY <2>1, <2>2 DEF Unread
<1>9. \A k \in 1..3 : b[k].event = b[1].event /\ q[k] = b[k]
  <2>1. \A k \in 1..3 : k = 1 \/ k = 2 \/ k = 3
    OBVIOUS
  <2>2. \A k \in 1..3 : k \in 1..Len(b)
    BY <1>1, <1>5
  <2>3. QED
    BY <1>1, <1>5, <1>6, <2>1, <2>2
<1>10. QED
  BY <1>4, <1>5, <1>6, <1>7, <1>8, <1>9 DEF q

(* What follows a line is framed too.                                      *)
LEMMA AfterLine ==
  ASSUME NEW s \in Seq(Sent), NEW q \in Seq(Fragment), Framed(q, s), Len(q) >= 3,
         q[3].part = 3, q[3].event = q[1].event,
         NEW r \in Seq(Fragment), Len(r) = Len(q) - 3, \A k \in 1..Len(r) : r[k] = q[k + 3]
  PROVE  Framed(r, s) /\ Unread(r, s) = q[1].event + 1
<1>1. Len(q) \in Nat /\ Len(r) \in Nat /\ Len(s) \in Nat
  BY LenProperties
<1>2. \A k \in 1..Len(r) : k + 3 \in 1..Len(q) /\ r[k] = q[k + 3]
  BY <1>1
<1>3. /\ \A k \in 1..Len(q) :
           q[k].event \in 1..Len(s) /\ (q[k].bad => s[q[k].event].tag = "wide")
      /\ \A j, k \in 1..Len(q) : j <= k => q[j].event <= q[k].event
      /\ \A k \in 1..(Len(q) - 1) : Follows(q[k], q[k + 1])
      /\ q[Len(q)].event = Len(s) /\ q[Len(q)].part # 1
  BY <1>1 DEF Framed
<1>4. \A k \in 1..Len(r) :
        r[k].event \in 1..Len(s) /\ (r[k].bad => s[r[k].event].tag = "wide")
  BY <1>2, <1>3
<1>5. ASSUME NEW j \in 1..Len(r), NEW k \in 1..Len(r), j <= k PROVE r[j].event <= r[k].event
  <2>1. j + 3 <= k + 3
    BY <1>1, <1>5
  <2>2. QED
    BY <1>2, <1>3, <2>1
<1>6. ASSUME NEW k \in 1..(Len(r) - 1) PROVE Follows(r[k], r[k + 1])
  <2>1. k \in 1..Len(r) /\ k + 1 \in 1..Len(r) /\ (k + 1) + 3 = (k + 3) + 1
    BY <1>1
  <2>2. k + 3 \in 1..(Len(q) - 1)
    BY <1>1
  <2>3. QED
    BY <1>2, <1>3, <2>1, <2>2
<1>7. ASSUME Len(r) # 0
      PROVE  r[1].part = 1 /\ r[1].event = q[1].event + 1
             /\ r[Len(r)].event = Len(s) /\ r[Len(r)].part # 1
  <2>1. 1 \in 1..Len(r) /\ Len(r) \in 1..Len(r) /\ Len(r) + 3 = Len(q) /\ 3 \in 1..(Len(q) - 1)
    BY <1>1, <1>7
  <2>2. r[1] = q[4] /\ r[Len(r)] = q[Len(q)] /\ Follows(q[3], q[4])
    BY <1>2, <1>3, <2>1
  <2>3. QED
    BY <1>3, <2>2 DEF Follows
<1>8. Unread(r, s) = q[1].event + 1
  <2>1. CASE Len(r) = 0
    <3>1. Len(q) = 3
      BY <1>1, <2>1
    <3>2. q[Len(q)].event = q[1].event
      BY <3>1
    <3>3. QED
      BY <1>3, <2>1, <3>2 DEF Unread
  <2>2. CASE Len(r) # 0
    <3>1. r[1].event = q[1].event + 1
      BY <1>7, <2>2
    <3>2. Unread(r, s) = r[1].event
      BY <2>2 DEF Unread
    <3>3. QED
      BY <3>1, <3>2
  <2>3. QED
    BY <2>1, <2>2
<1>9. Len(r) > 0 => r[1].part = 1 /\ r[Len(r)].event = Len(s) /\ r[Len(r)].part # 1
  <2>1. Len(r) > 0 => Len(r) # 0
    OBVIOUS
  <2>2. QED
    BY <1>7, <2>1
<1>10. QED
  BY <1>4, <1>5, <1>6, <1>8, <1>9 DEF Framed

----------------------------------------------------------------------------
(* The lines of an Ollama stream *)

Reading(n, s, w) ==
  /\ s = [acc |-> s.acc, rest |-> s.rest, over |-> s.over]
  /\ s.rest \in Seq(Fragment)
  /\ s.over \in {None, "error", "end"}
  /\ s.over = None => /\ Reads(attempt, s.acc, s.rest \o w, sent)
                      /\ HasLine(s.rest) => Len(s.rest) <= n
  /\ s.over = "end" => Ended(attempt, s.acc, s.rest \o w, sent)

(* One turn of the loop over lines reads the next event, if its line is    *)
(* whole, and leaves less of the buffer.                                   *)
LEMMA NextLineReads ==
  ASSUME sent \in Seq(Sent), attempt \in Nat, ~Sse, StopsAtEnd(sent),
         NEW n \in Nat, NEW s, NEW w \in Seq(Fragment), Reading(n + 1, s, w)
  PROVE  Reading(n, NextLine(s), w)
<1> DEFINE b == s.rest
           nl == FirstNewline(b)
           line == SubSeq(b, 1, nl - 1)
           rest == SubSeq(b, nl + 1, Len(b))
           i == line[1].event
           t == NextLine(s)
<1>1. t = IF s.over # None \/ nl = 0 THEN s
          ELSE IF ~Parses(line) THEN [s EXCEPT !.rest = rest]
          ELSE IF sent[i].tag = "error" THEN [s EXCEPT !.rest = rest, !.over = "error"]
          ELSE [acc |-> Take(s.acc, sent[i], i, ~line[1].bad /\ ~line[2].bad),
                rest |-> rest,
                over |-> IF sent[i].tag = "end" THEN "end" ELSE None]
  BY DEF NextLine
<1>2. b \in Seq(Fragment) /\ Len(b) \in Nat
  BY LenProperties DEF Reading
<1>3. CASE s.over # None
  BY <1>1, <1>3 DEF Reading
<1>4. CASE s.over = None /\ ~HasLine(b)
  <2>1. DOMAIN b = 1..Len(b)
    BY <1>2, LenProperties
  <2>2. nl = 0
    BY <1>4, <2>1 DEF HasLine, FirstNewline
  <2>3. t = s
    BY <1>1, <2>2
  <2>4. QED
    BY <1>4, <2>3 DEF Reading
<1>5. CASE s.over = None /\ HasLine(b)
  <2> DEFINE q == b \o w
             m == b[1].event
             r == rest \o w
  <2>1. /\ Reads(attempt, s.acc, q, sent) /\ Framed(q, sent) /\ Len(b) <= n + 1
        /\ s = [acc |-> s.acc, rest |-> b, over |-> None]
    BY <1>5 DEF Reading, Reads
  <2>2. /\ Len(b) >= 3 /\ nl = 3
        /\ b[1].part = 1 /\ b[2].part = 2
        /\ Unread(q, sent) = m
        /\ \A k \in 1..3 : b[k].event = m /\ q[k] = b[k]
        /\ q[3].part = 3
    BY <1>2, <1>5, <2>1, FirstLine
  <2>3. /\ Len(line) = 2 /\ line[1] = b[1] /\ line[2] = b[2] /\ i = m
        /\ rest \in Seq(Fragment) /\ Len(rest) = Len(b) - 3
        /\ \A k \in 1..Len(rest) : rest[k] = b[k + 3]
    <3>1. \A k \in 1..Len(b) : b[k] \in Fragment
      BY <1>2, ElementOfSeq
    <3>2. /\ \A k \in 1..2 : b[k] \in Fragment
          /\ \A k \in 4..Len(b) : b[k] \in Fragment
      BY <1>2, <2>2, <3>1
    <3>3. line = SubSeq(b, 1, 2) /\ rest = SubSeq(b, 4, Len(b))
      BY <2>2
    <3> HIDE DEF line, rest
    <3>4. Len(line) = 2 /\ \A k \in 1..2 : line[k] = b[k]
      BY <1>2, <3>2, <3>3, SubSeqProperties
    <3>5. /\ rest \in Seq(Fragment)
          /\ Len(rest) = IF 4 <= Len(b) THEN Len(b) - 4 + 1 ELSE 0
          /\ \A k \in 1..(Len(b) - 4 + 1) : rest[k] = b[4 + k - 1]
      BY <1>2, <3>2, <3>3, SubSeqProperties
    <3>6. Len(rest) = Len(b) - 3 /\ \A k \in 1..Len(rest) : rest[k] = b[k + 3]
      BY <1>2, <2>2, <3>5
    <3>7. QED
      BY <3>4, <3>5, <3>6
  <2> HIDE DEF nl, line, rest, i, b, t
  <2>4. /\ q \in Seq(Fragment) /\ Len(q) = Len(b) + Len(w) /\ Len(w) \in Nat
        /\ \A k \in 1..(Len(b) + Len(w)) : q[k] = IF k <= Len(b) THEN b[k] ELSE w[k - Len(b)]
        /\ r \in Seq(Fragment) /\ Len(r) = Len(rest) + Len(w)
        /\ \A k \in 1..(Len(rest) + Len(w)) :
              r[k] = IF k <= Len(rest) THEN rest[k] ELSE w[k - Len(rest)]
    BY ZenonT(30), <1>2, <2>3, ConcatProperties, LenProperties
  <2> HIDE DEF q, r
  <2>5. Len(r) = Len(q) - 3 /\ \A k \in 1..Len(r) : r[k] = q[k + 3]
    <3>1. Len(r) = Len(q) - 3
      BY <1>2, <2>3, <2>4
    <3>2. ASSUME NEW k \in 1..Len(r) PROVE r[k] = q[k + 3]
      <4>1. k + 3 \in 1..(Len(b) + Len(w)) /\ k \in 1..(Len(rest) + Len(w))
        BY SMTT(30), <1>2, <2>3, <2>4, <3>1
      <4>2. CASE k <= Len(rest)
        <5>1. k + 3 <= Len(b) /\ k \in 1..Len(rest)
          BY <1>2, <2>3, <2>4, <4>2
        <5>2. QED
          BY <2>3, <2>4, <4>1, <4>2, <5>1
      <4>3. CASE k > Len(rest)
        <5>1. ~(k + 3 <= Len(b)) /\ ~(k <= Len(rest)) /\ (k + 3) - Len(b) = k - Len(rest)
          BY <1>2, <2>3, <2>4, <4>3
        <5>2. QED
          BY <2>4, <4>1, <5>1
      <4>4. QED
        BY <1>2, <2>3, <2>4, <4>2, <4>3
    <3>3. QED
      BY <3>1, <3>2
  <2>6. Framed(r, sent) /\ Unread(r, sent) = m + 1
    <3>1. Len(q) >= 3 /\ q[1].event = m /\ q[3].event = m
      BY <1>2, <2>2, <2>4
    <3>2. Framed(q, sent) /\ q[3].part = 3 /\ q \in Seq(Fragment) /\ r \in Seq(Fragment)
      BY <2>1, <2>2, <2>4
    <3> HIDE DEF m
    <3>3. q[3].event = q[1].event
      BY <3>1
    <3>4. QED
      BY <2>5, <3>1, <3>2, <3>3, AfterLine
  <2>7. /\ m \in 1..Len(sent) /\ m \in Nat /\ Len(sent) \in Nat
        /\ sent[m] \in Sent
        /\ b[1].bad \in BOOLEAN /\ b[2].bad \in BOOLEAN
        /\ b[1].bad \/ b[2].bad => sent[m].tag = "wide"
    <3>1. 1 \in 1..Len(q) /\ 2 \in 1..Len(q) /\ q[1] = b[1] /\ q[2] = b[2]
      BY <1>2, <2>2, <2>4
    <3>2. q[1] \in Fragment /\ q[2] \in Fragment
      BY <2>4, <3>1, ElementOfSeq
    <3>3. b[2].event = m
      BY <2>2
    <3>4. /\ m \in 1..Len(sent)
          /\ b[1].bad => sent[m].tag = "wide"
          /\ b[2].bad => sent[m].tag = "wide"
      BY <2>1, <3>1, <3>3 DEF Framed
    <3>5. QED
      BY <3>1, <3>2, <3>4, ElementOfSeq, LenProperties DEF Fragment
  <2> HIDE DEF m
  <2>8. /\ Open(m, sent)
        /\ Gathers(attempt, s.acc.text, s.acc.stop, Carrying(m, sent), sent)
    BY <2>1, <2>2 DEF Reads
  <2>9. Parses(line) <=> sent[m].tag # "junk"
    BY <2>2, <2>3 DEF Parses
  <2>10. /\ nl # 0
         /\ HasLine(rest) => Len(rest) <= n
    BY <1>2, <2>1, <2>2, <2>3
  <2>11. CASE sent[m].tag = "junk"
    <3>1. t = [acc |-> s.acc, rest |-> rest, over |-> None]
      BY <1>1, <1>5, <2>1, <2>9, <2>10, <2>11
    <3>2. Carrying(m + 1, sent) = Carrying(m, sent) /\ Open(m + 1, sent)
      BY SMTT(30), <2>7, <2>8, <2>11 DEF Carrying, Open
    <3>3. Reads(attempt, s.acc, r, sent)
      BY <2>6, <2>8, <3>2 DEF Reads
    <3>4. QED
      BY <2>3, <2>10, <3>1, <3>3 DEF Reading, r, t, None
  <2>12. CASE sent[m].tag = "error"
    <3>1. t = [acc |-> s.acc, rest |-> rest, over |-> "error"]
      BY <1>1, <1>5, <2>1, <2>3, <2>9, <2>10, <2>12
    <3>2. QED
      BY <2>3, <3>1 DEF Reading, t, None
  <2>13. CASE sent[m].tag \notin {"junk", "error"}
    <3> DEFINE whole == ~b[1].bad /\ ~b[2].bad
               taken == Take(s.acc, sent[m], m, whole)
    <3>1. t = [acc |-> taken, rest |-> rest,
               over |-> IF sent[m].tag = "end" THEN "end" ELSE None]
      BY <1>1, <1>5, <2>1, <2>3, <2>9, <2>10, <2>13
    <3>2. whole \in BOOLEAN /\ (whole \/ sent[m].tag = "wide")
      BY <2>7
    <3> HIDE DEF whole
    <3>3. /\ Carrying(m, sent) \in SUBSET Nat
          /\ \A j \in Carrying(m, sent) : j < m /\ j \in 1..Len(sent) /\ sent[j].tag # "end"
      BY SMTT(30), <2>7 DEF Carrying
    <3>4. \A j \in Carrying(m, sent) : sent[j].stop = None
      BY <3>3 DEF StopsAtEnd
    <3>5. Gathers(attempt, taken.text, taken.stop, Carrying(m, sent) \cup {m}, sent)
      BY <2>7, <2>8, <3>2, <3>3, <3>4, TakesIn
    <3> HIDE DEF taken
    <3>6. CASE sent[m].tag = "end"
      <4>1. Unread(r, sent) - 1 = m
        BY <2>6, <2>7
      <4>2. Ended(attempt, taken, r, sent)
        BY <2>6, <2>7, <2>8, <3>5, <3>6, <4>1 DEF Ended
      <4>3. QED
        BY <2>3, <3>1, <3>6, <4>2 DEF Reading, r, t, None
    <3>7. CASE sent[m].tag # "end"
      <4>1. Carrying(m + 1, sent) = Carrying(m, sent) \cup {m} /\ Open(m + 1, sent)
        BY SMTT(30), <2>7, <2>8, <2>13, <3>7 DEF Carrying, Open
      <4>2. Reads(attempt, taken, r, sent)
        BY <2>6, <3>5, <4>1 DEF Reads
      <4>3. QED
        BY <2>3, <2>10, <3>1, <3>7, <4>2 DEF Reading, r, t, None
    <3>8. QED
      BY <3>6, <3>7
  <2>14. QED
    BY <2>11, <2>12, <2>13 DEF t
<1>6. QED
  BY <1>3, <1>4, <1>5 DEF Reading

(* A set of natural numbers that is not empty has a least member.          *)
LEMMA LeastOf ==
  ASSUME NEW T \in SUBSET Nat, T # {}
  PROVE  \E i \in T : \A j \in T : i <= j
<1> DEFINE Less == {pair \in Nat \X Nat : pair[1] < pair[2]}
<1>1. IsWellFoundedOn(Less, Nat)
  BY NatLessThanWellFounded DEF OpToRel
<1>2. PICK i \in T : \A j \in T : <<j, i>> \notin Less
  BY <1>1, WFMin, Zenon
<1>3. ASSUME NEW j \in T PROVE i <= j
  <2>1. <<j, i>> \notin Less /\ i \in Nat /\ j \in Nat
    BY <1>2
  <2>2. ~(j < i)
    BY <2>1
  <2>3. QED
    BY <2>1, <2>2
<1>4. QED
  BY <1>3

(* The turns of the loop, one after another: the equation that defines     *)
(* Lines has a solution.  Were there a least number of turns without one,  *)
(* it would be one turn more than a number of turns that has one.          *)
Turns(a, b, n) ==
  \E f : f = [k \in 0..n |-> IF k = 0 THEN [acc |-> a, rest |-> b, over |-> None]
                             ELSE NextLine(f[k - 1])]

LEMMA TurnsExist ==
  ASSUME NEW a, NEW b, NEW n \in Nat
  PROVE  Turns(a, b, n)
<1> DEFINE first == [acc |-> a, rest |-> b, over |-> None]
           T == {k \in Nat : ~Turns(a, b, k)}
<1>1. ASSUME T # {} PROVE FALSE
  <2>1. PICK m \in T : \A j \in T : m <= j
    BY <1>1, LeastOf
  <2>2. m # 0
    <3>1. ASSUME m = 0 PROVE Turns(a, b, m)
      <4> DEFINE f == [k \in 0..m |-> first]
      <4>1. \A k \in 0..m : k = 0
        BY <3>1
      <4>2. f = [k \in 0..m |-> IF k = 0 THEN first ELSE NextLine(f[k - 1])]
        BY <4>1
      <4>3. QED
        BY <4>2 DEF Turns
    <3>2. QED
      BY <2>1, <3>1
  <2>3. m - 1 \in Nat /\ m - 1 \notin T
    BY <2>1, <2>2
  <2>4. PICK g : g = [k \in 0..(m - 1) |-> IF k = 0 THEN first ELSE NextLine(g[k - 1])]
    BY <2>3 DEF Turns
  <2> DEFINE f == [k \in 0..m |-> IF k = m THEN NextLine(g[m - 1]) ELSE g[k]]
  <2>5. ASSUME NEW k \in 0..m PROVE f[k] = IF k = 0 THEN first ELSE NextLine(f[k - 1])
    <3>1. CASE k = m
      <4>1. m - 1 \in 0..m /\ m - 1 # m
        BY <2>1, <2>2
      <4>2. f[m] = NextLine(g[m - 1]) /\ f[m - 1] = g[m - 1]
        BY <2>1, <4>1
      <4>3. QED
        BY <2>2, <3>1, <4>2
    <3>2. CASE k # m
      <4>1. k \in 0..(m - 1) /\ (k # 0 => k - 1 \in 0..m /\ k - 1 # m)
        BY <2>1, <3>2
      <4>2. f[k] = g[k] /\ (k # 0 => f[k - 1] = g[k - 1])
        BY <3>2, <4>1
      <4>3. g[k] = IF k = 0 THEN first ELSE NextLine(g[k - 1])
        BY <2>4, <4>1
      <4>4. QED
        BY <4>2, <4>3
    <3>3. QED
      BY <3>1, <3>2
  <2>6. f = [k \in 0..m |-> IF k = 0 THEN first ELSE NextLine(f[k - 1])]
    <3>1. f = [k \in 0..m |-> f[k]]
      OBVIOUS
    <3> HIDE DEF f
    <3>2. QED
      BY <2>5, <3>1
  <2>7. Turns(a, b, m)
    BY <2>6 DEF Turns
  <2>8. QED
    BY <2>1, <2>7
<1>2. QED
  BY <1>1

(* Reading all lines of a buffer keeps what was gathered equal to what was *)
(* read, and leaves no whole line behind.                                  *)
LEMMA LinesRead ==
  ASSUME sent \in Seq(Sent), attempt \in Nat, ~Sse, StopsAtEnd(sent),
         NEW a, NEW b \in Seq(Fragment), NEW w \in Seq(Fragment),
         Reads(attempt, a, b \o w, sent)
  PROVE  Reading(0, Lines(a, b), w)
<1> DEFINE n == Len(b)
           first == [acc |-> a, rest |-> b, over |-> None]
           F(f) == [k \in 0..n |-> IF k = 0 THEN first ELSE NextLine(f[k - 1])]
           f == CHOOSE g : g = F(g)
<1>0. n \in Nat
  BY LenProperties
<1>1. Lines(a, b) = f[n]
  BY DEF Lines
<1>2. f = F(f)
  <2>1. \E g : g = F(g)
    <3> HIDE DEF n
    <3>1. Turns(a, b, n)
      BY <1>0, TurnsExist
    <3>2. QED
      BY <3>1, Zenon DEF Turns
  <2>2. QED
    BY <2>1
<1> HIDE DEF f
<1>3. f[0] = first /\ \A k \in 1..n : k \in 0..n /\ k - 1 \in 0..n /\ f[k] = NextLine(f[k - 1])
  <2>1. 0 \in 0..n /\ \A k \in 1..n : k \in 0..n /\ k # 0 /\ k - 1 \in 0..n
    BY <1>0
  <2>2. QED
    BY <1>2, <2>1
<1> HIDE DEF n
<1>4. Reading(n, first, w)
  BY DEF Reading, n, None
<1> DEFINE T == {k \in Nat : k <= n /\ ~Reading(n - k, f[k], w)}
<1>5. ASSUME T # {} PROVE FALSE
  <2>1. PICK k \in T : \A j \in T : k <= j
    BY <1>5, LeastOf
  <2>2. k # 0
    <3>1. n - 0 = n
      BY <1>0
    <3>2. QED
      BY <1>3, <1>4, <2>1, <3>1
  <2>3. k - 1 \in Nat /\ k - 1 <= n /\ k \in 1..n /\ n - k \in Nat /\ n - (k - 1) = (n - k) + 1
    BY <1>0, <2>1, <2>2
  <2>4. k - 1 \notin T
    BY <2>1, <2>3
  <2>5. Reading((n - k) + 1, f[k - 1], w)
    BY <2>3, <2>4
  <2>6. Reading(n - k, NextLine(f[k - 1]), w)
    BY <2>3, <2>5, NextLineReads
  <2>7. QED
    BY <1>3, <2>1, <2>3, <2>6
<1>6. Reading(n - n, f[n], w)
  BY <1>0, <1>5
<1>7. QED
  BY <1>0, <1>1, <1>6

----------------------------------------------------------------------------
(* The steps of a completion *)

(* Another event changes nothing of what was read of the earlier ones.     *)
LEMMA Appended ==
  ASSUME NEW s \in Seq(Sent), NEW e \in Sent, NEW m \in 1..(Len(s) + 1)
  PROVE  /\ Append(s, e) \in Seq(Sent) /\ Len(Append(s, e)) = Len(s) + 1
         /\ Append(s, e)[Len(s) + 1] = e
         /\ \A i \in 1..Len(s) : Append(s, e)[i] = s[i]
         /\ Carrying(m, Append(s, e)) = Carrying(m, s)
         /\ Carrying(m, s) \in SUBSET (1..Len(s))
         /\ Open(m, s) => Open(m, Append(s, e))
<1> DEFINE t == Append(s, e)
<1>1. /\ t \in Seq(Sent) /\ Len(t) = Len(s) + 1 /\ t[Len(s) + 1] = e
      /\ \A i \in 1..Len(s) : t[i] = s[i]
  BY AppendProperties
<1>2. Len(s) \in Nat /\ \A i \in 1..(m - 1) : i \in 1..Len(s)
  BY LenProperties
<1> HIDE DEF t
<1>3. \A i \in 1..(m - 1) : t[i] = s[i] /\ i \in 1..Len(s)
  BY <1>1, <1>2
<1>4. Carrying(m, t) = Carrying(m, s) /\ Carrying(m, s) \in SUBSET (1..Len(s))
  BY <1>3 DEF Carrying
<1>5. Open(m, s) => Open(m, t)
  BY <1>3 DEF Open
<1>6. QED
  BY <1>1, <1>4, <1>5 DEF t

LEMMA ReadsNothing ==
  ASSUME NEW n, NEW a, NEW s \in Seq(Sent)
  PROVE  /\ <<>> \o <<>> = <<>> /\ Unread(<<>>, s) = Len(s) + 1 /\ ~HasLine(<<>>)
         /\ Framed(<<>>, s)
         /\ Reads(n, a, <<>> \o <<>>, s) <=>
              /\ Open(Len(s) + 1, s)
              /\ Gathers(n, a.text, a.stop, Carrying(Len(s) + 1, s), s)
<1>1. <<>> \in Seq(Fragment) /\ Len(<<>>) = 0
  BY EmptySeq
<1>2. <<>> \o <<>> = <<>>
  BY <1>1, ConcatEmptySeq
<1>3. Unread(<<>>, s) = Len(s) + 1 /\ ~HasLine(<<>>)
  BY <1>1 DEF Unread, HasLine
<1>4. Framed(<<>>, s)
  BY <1>1 DEF Framed
<1>5. QED
  BY <1>2, <1>3, <1>4 DEF Reads

LEMMA StartsFromNothing ==
  ASSUME NEW n
  PROVE  Reads(n, Gathered, <<>> \o <<>>, <<>>)
<1>1. <<>> \in Seq(Sent) /\ Len(<<>>) = 0
  BY EmptySeq
<1>2. Carrying(Len(<<>>) + 1, <<>>) = {} /\ Open(Len(<<>>) + 1, <<>>)
  BY <1>1 DEF Carrying, Open
<1>3. Gathers(n, Gathered.text, Gathered.stop, {}, <<>>)
  BY EmptySeq DEF Gathers, Gathered
<1>4. QED
  BY <1>1, <1>2, <1>3, ReadsNothing

LEMMA FailKeepsWhole ==
  ASSUME WholeInv, pc \in {"sending", "streaming"}, NEW e \in Failed, Fail(e),
         sent' \in Seq(Sent), ~Sse => StopsAtEnd(sent'),
         Sse => buf' = buf /\ wire' = wire
  PROVE  WholeInv'
<1>1. /\ pc' \in {"backoff", "shorter", "done"} /\ call' = call
      /\ result' = result \/ result' = Surfaced(e)
  BY DEF Fail
<1>2. result.kind # "Ok" /\ Surfaced(e).kind # "Ok"
  BY DEF WholeInv, Surfaced, Failed
<1>3. result'.kind # "Ok"
  BY <1>1, <1>2
<1>4. (Sse' <=> Sse) /\ (~Sse => StopsAtEnd(sent))'
  BY <1>1 DEF Sse
<1>5. QED
  BY <1>1, <1>3, <1>4 DEF WholeInv

LEMMA SettleKeepsWhole ==
  ASSUME WholeInv, pc = "streaming", NEW a, Settle(Outcome(a)), attempt' = attempt,
         sent' \in Seq(Sent), ~Sse => StopsAtEnd(sent'),
         Sse => buf' = buf /\ wire' = wire,
         Gathers(attempt, a.text, a.stop, Used', sent')
  PROVE  WholeInv'
<1>1. CASE Outcome(a).kind = "Ok"
  <2>1. pc' = "done" /\ result' = Outcome(a) /\ call' = call
    BY <1>1 DEF Settle
  <2>2. /\ result'.text = a.text /\ result'.stop = a.stop
        /\ result'.text # <<>> /\ ~IsLengthStop(result'.stop)
    BY <1>1, <2>1, OutcomeIsAnswerOrError
  <2>3. (Sse' <=> Sse) /\ (~Sse => StopsAtEnd(sent))'
    BY <2>1 DEF Sse
  <2>4. Gathers(attempt', result'.text, result'.stop, Used', sent')
    BY <2>2
  <2>5. Gathers(attempt, result.text, result.stop, Used, sent)'
    BY <2>4
  <2>6. QED
    BY <2>1, <2>2, <2>3, <2>5 DEF WholeInv
<1>2. CASE Outcome(a).kind # "Ok"
  <2>1. Outcome(a) \in Failed /\ Fail(Outcome(a))
    BY <1>2, OutcomeIsAnswerOrError DEF Settle
  <2>2. QED
    BY <2>1, FailKeepsWhole
<1>3. QED
  BY <1>1, <1>2

(* What the server writes is framed, once the line before it is complete.  *)
LEMMA WritesFramed ==
  ASSUME NEW s \in Seq(Sent), NEW e \in Sent, NEW q \in Seq(Fragment), Framed(q, s),
         Len(q) > 0 => q[Len(q)].part = 3,
         NEW size \in {2, 3}, NEW x \in Seq(Fragment), Len(x) = Len(q) + size,
         \A k \in 1..Len(q) : x[k] = q[k],
         \A j \in 1..size : x[Len(q) + j] = [event |-> Len(s) + 1, part |-> j, bad |-> FALSE]
  PROVE  Framed(x, Append(s, e)) /\ Unread(x, Append(s, e)) = Unread(q, s)
<1> DEFINE t == Append(s, e)
           m == Len(s) + 1
<1>1. /\ Len(t) = m /\ Len(s) \in Nat /\ Len(q) \in Nat /\ Len(x) \in Nat
      /\ \A i \in 1..Len(s) : t[i] = s[i]
  BY AppendProperties, LenProperties
<1> HIDE DEF t
<1>2. \A k \in 1..Len(x) : k \in 1..Len(q) \/ \E j \in 1..size : k = Len(q) + j
  <2>1. ASSUME NEW k \in 1..Len(x), k \notin 1..Len(q) PROVE k - Len(q) \in 1..size
    BY <1>1, <2>1
  <2>2. ASSUME NEW k \in 1..Len(x), k \notin 1..Len(q)
        PROVE  \E j \in 1..size : k = Len(q) + j
    <3>1. k - Len(q) \in 1..size /\ k = Len(q) + (k - Len(q))
      BY <1>1, <2>1, <2>2
    <3>2. QED
      BY <3>1
  <2>3. QED
    BY <2>2
<1>3. /\ \A k \in 1..Len(q) :
           x[k].event \in 1..Len(s) /\ (x[k].bad => s[x[k].event].tag = "wide")
      /\ \A j, k \in 1..Len(q) : j <= k => x[j].event <= x[k].event
  BY DEF Framed
<1>4. ASSUME NEW j \in 1..size
      PROVE  x[Len(q) + j].event = m /\ x[Len(q) + j].part = j /\ ~x[Len(q) + j].bad
  <2>1. x[Len(q) + j] = [event |-> m, part |-> j, bad |-> FALSE]
    OBVIOUS
  <2>2. QED
    BY <2>1
<1>5. ASSUME NEW k \in 1..Len(x)
      PROVE  x[k].event \in 1..Len(t) /\ (x[k].bad => t[x[k].event].tag = "wide")
  <2>1. CASE k \in 1..Len(q)
    BY SMTT(30), <1>1, <1>3, <2>1
  <2>2. CASE k \notin 1..Len(q)
    <3>1. PICK j \in 1..size : k = Len(q) + j
      BY <1>2, <2>2
    <3>2. x[k].event = m /\ ~x[k].bad
      BY <1>4, <3>1
    <3>3. QED
      BY <1>1, <3>2
  <2>3. QED
    BY <2>1, <2>2
<1>6. ASSUME NEW j \in 1..Len(x), NEW k \in 1..Len(x), j <= k PROVE x[j].event <= x[k].event
  <2>1. CASE k \in 1..Len(q)
    <3>1. j \in 1..Len(q)
      BY <1>1, <1>6, <2>1
    <3>2. QED
      BY <1>3, <1>6, <2>1, <3>1
  <2>2. CASE k \notin 1..Len(q)
    <3>1. PICK l \in 1..size : k = Len(q) + l
      BY <1>2, <2>2
    <3>2. x[k].event = m
      BY <1>4, <3>1
    <3>3. x[j].event <= m /\ x[j].event \in Int
      BY <1>1, <1>5
    <3>4. QED
      BY <3>2, <3>3
  <2>3. QED
    BY <2>1, <2>2
<1>7. ASSUME NEW k \in 1..(Len(x) - 1) PROVE Follows(x[k], x[k + 1])
  <2>1. CASE k \in 1..(Len(q) - 1)
    <3>1. k \in 1..Len(q) /\ k + 1 \in 1..Len(q)
      BY <1>1, <2>1
    <3>2. x[k] = q[k] /\ x[k + 1] = q[k + 1]
      BY <3>1
    <3>3. QED
      BY <2>1, <3>2 DEF Framed
  <2>2. CASE k = Len(q)
    <3>1. k \in 1..Len(q) /\ Len(q) > 0 /\ 1 \in 1..size
      BY <1>1, <2>2
    <3>2. x[k].part = 3 /\ x[k].event = Len(s)
      BY <2>2, <3>1 DEF Framed
    <3>3. x[k + 1].part = 1 /\ x[k + 1].event = m
      BY <1>4, <2>2, <3>1
    <3>4. QED
      BY <3>2, <3>3 DEF Follows
  <2>3. CASE k > Len(q)
    <3>1. PICK j \in 1..size : k = Len(q) + j /\ j + 1 \in 1..size
      <4>1. k \in 1..Len(x) /\ k \notin 1..Len(q)
        BY <1>1, <2>3
      <4>2. PICK j \in 1..size : k = Len(q) + j
        BY <1>2, <4>1
      <4>3. j + 1 \in 1..size
        BY <1>1, <4>2
      <4>4. QED
        BY <4>2, <4>3
    <3>2. k + 1 = Len(q) + (j + 1) /\ j # 3
      BY <1>1, <3>1
    <3>3. x[k].event = m /\ x[k].part = j /\ x[k + 1].event = m /\ x[k + 1].part = j + 1
      BY <1>4, <3>1, <3>2
    <3>4. QED
      BY <3>2, <3>3 DEF Follows
  <2>4. QED
    BY <1>1, <2>1, <2>2, <2>3
<1>8. x[1].part = 1 /\ x[Len(x)].event = Len(t) /\ x[Len(x)].part # 1
  <2>0. size \in 1..size /\ 1 \in 1..size /\ Len(x) = Len(q) + size /\ size # 1
    OBVIOUS
  <2>3. x[Len(x)].event = Len(t) /\ x[Len(x)].part # 1
    BY <1>1, <1>4, <2>0
  <2>1. CASE Len(q) > 0
    <3>1. x[1] = q[1] /\ q[1].part = 1
      BY <1>1, <2>1 DEF Framed
    <3>2. QED
      BY <2>3, <3>1
  <2>2. CASE Len(q) = 0
    <3>1. x[Len(q) + 1].part = 1 /\ Len(q) + 1 = 1
      BY <1>4, <2>0, <2>2
    <3>2. QED
      BY <2>3, <3>1
  <2>4. QED
    BY <1>1, <2>1, <2>2
<1>9. Unread(x, t) = Unread(q, s)
  <2>1. CASE Len(q) > 0
    <3>1. x[1] = q[1] /\ Len(x) # 0
      BY <1>1, <2>1
    <3>2. QED
      BY <2>1, <3>1 DEF Unread
  <2>2. CASE Len(q) = 0
    <3>1. x[1].event = m /\ Len(x) # 0
      BY <1>1, <1>4, <2>2
    <3>2. QED
      BY <2>2, <3>1 DEF Unread
  <2>3. QED
    BY <1>1, <2>1, <2>2
<1>10. Framed(x, t)
  BY <1>5, <1>6, <1>7, <1>8 DEF Framed
<1>11. QED
  BY <1>9, <1>10 DEF t

(* Decoding a chunk moves it into the buffer and may cost it the bytes of  *)
(* a character of several bytes.                                           *)
LEMMA DecodedFramed ==
  ASSUME sent \in Seq(Sent), NEW b \in Seq(Fragment), NEW w \in Seq(Fragment),
         NEW n \in 1..Len(w), Framed(b \o w, sent)
  PROVE  LET c == b \o Decoded(SubSeq(w, 1, n))
             v == SubSeq(w, n + 1, Len(w))
         IN  /\ c \in Seq(Fragment) /\ v \in Seq(Fragment)
             /\ Framed(c \o v, sent) /\ Unread(c \o v, sent) = Unread(b \o w, sent)
<1> DEFINE chunk == SubSeq(w, 1, n)
           d == Decoded(chunk)
           c == b \o d
           v == SubSeq(w, n + 1, Len(w))
           q == b \o w
           x == c \o v
<1>1. /\ Len(b) \in Nat /\ Len(w) \in Nat /\ n \in Nat /\ n <= Len(w)
      /\ \A k \in 1..Len(w) : w[k] \in Fragment
  BY LenProperties, ElementOfSeq
<1>2. chunk \in Seq(Fragment) /\ Len(chunk) = n /\ \A k \in 1..n : chunk[k] = w[k]
  <2>1. \A k \in 1..n : w[k] \in Fragment
    BY <1>1
  <2>2. /\ chunk \in Seq(Fragment) /\ Len(chunk) = IF 1 <= n THEN n - 1 + 1 ELSE 0
        /\ \A k \in 1..(n - 1 + 1) : chunk[k] = w[1 + k - 1]
    BY <1>1, <2>1, SubSeqProperties
  <2> HIDE DEF chunk
  <2>3. QED
    BY <1>1, <2>2
<1>3. v \in Seq(Fragment) /\ Len(v) = Len(w) - n /\ \A k \in 1..Len(v) : v[k] = w[n + k]
  <2>1. \A k \in (n + 1)..Len(w) : w[k] \in Fragment
    BY <1>1
  <2>2. /\ v \in Seq(Fragment)
        /\ Len(v) = IF n + 1 <= Len(w) THEN Len(w) - (n + 1) + 1 ELSE 0
        /\ \A k \in 1..(Len(w) - (n + 1) + 1) : v[k] = w[(n + 1) + k - 1]
    BY <1>1, <2>1, SubSeqProperties
  <2> HIDE DEF v
  <2>3. Len(v) = Len(w) - n
    BY <1>1, <2>2
  <2>4. QED
    BY SMTT(30), <1>1, <2>2, <2>3
<1> HIDE DEF chunk, v
<1>4. /\ d \in Seq(Fragment) /\ Len(d) = n
      /\ \A k \in 1..n : /\ d[k].event = w[k].event /\ d[k].part = w[k].part
                         /\ d[k].bad => sent[w[k].event].tag = "wide"
  <2>1. DOMAIN chunk = 1..n
    BY <1>2, LenProperties
  <2> DEFINE lossy(k) == /\ sent[chunk[k].event].tag = "wide"
                         /\ \/ k = Len(chunk) /\ chunk[k].part = 1
                            \/ k = 1 /\ chunk[k].part = 2
  <2>2. d = [k \in 1..n |-> [chunk[k] EXCEPT !.bad = lossy(k)]]
    BY <2>1 DEF Decoded
  <2>3. ASSUME NEW k \in 1..n
        PROVE  /\ d[k] \in Fragment
               /\ d[k].event = w[k].event /\ d[k].part = w[k].part
               /\ d[k].bad => sent[w[k].event].tag = "wide"
    <3>1. d[k] = [chunk[k] EXCEPT !.bad = lossy(k)] /\ chunk[k] = w[k] /\ chunk[k] \in Fragment
      BY <1>1, <1>2, <2>2
    <3>2. lossy(k) \in BOOLEAN /\ (lossy(k) => sent[w[k].event].tag = "wide")
      BY <3>1
    <3> HIDE DEF lossy, d
    <3>3. QED
      BY <3>1, <3>2 DEF Fragment
  <2>4. d \in [1..n -> Fragment]
    <3> HIDE DEF lossy
    <3>1. \A k \in 1..n : [chunk[k] EXCEPT !.bad = lossy(k)] \in Fragment
      BY <2>2, <2>3
    <3>2. QED
      BY <2>2, <3>1
  <2> HIDE DEF d
  <2>5. d \in Seq(Fragment) /\ Len(d) = n
    BY <1>1, <2>4
  <2>6. QED
    BY <2>3, <2>5
<1> HIDE DEF d
<1>5. /\ c \in Seq(Fragment) /\ Len(c) = Len(b) + n
      /\ \A k \in 1..(Len(b) + n) : c[k] = IF k <= Len(b) THEN b[k] ELSE d[k - Len(b)]
  BY <1>4, ConcatProperties
<1> HIDE DEF c
<1>6. /\ x \in Seq(Fragment) /\ Len(x) = Len(c) + Len(v)
      /\ \A k \in 1..(Len(c) + Len(v)) : x[k] = IF k <= Len(c) THEN c[k] ELSE v[k - Len(c)]
      /\ q \in Seq(Fragment) /\ Len(q) = Len(b) + Len(w)
      /\ \A k \in 1..(Len(b) + Len(w)) : q[k] = IF k <= Len(b) THEN b[k] ELSE w[k - Len(b)]
  BY ZenonT(30), <1>3, <1>5, ConcatProperties
<1>7. Framed(q, sent)
  OBVIOUS
<1> HIDE DEF x, q
<1>8. Len(x) = Len(q) /\ Len(q) \in Nat
  BY <1>1, <1>3, <1>5, <1>6
<1>9. ASSUME NEW k \in 1..Len(q)
      PROVE  /\ x[k].event = q[k].event /\ x[k].part = q[k].part
             /\ x[k].bad => q[k].bad \/ sent[q[k].event].tag = "wide"
  <2>1. CASE k <= Len(b)
    <3>1. k <= Len(c) /\ k \in 1..(Len(b) + n)
      BY <1>1, <1>5, <2>1
    <3>2. x[k] = b[k] /\ q[k] = b[k]
      BY <1>5, <1>6, <1>8, <2>1, <3>1
    <3>3. QED
      BY <3>2
  <2>2. CASE k > Len(b) /\ k <= Len(b) + n
    <3>1. k - Len(b) \in 1..n /\ k \in 1..(Len(b) + n) /\ k <= Len(c) /\ ~(k <= Len(b))
      BY <1>1, <1>5, <2>2
    <3>2. x[k] = d[k - Len(b)] /\ q[k] = w[k - Len(b)]
      BY <1>5, <1>6, <1>8, <3>1
    <3>3. QED
      BY <1>4, <3>1, <3>2
  <2>3. CASE k > Len(b) + n
    <3>1. /\ k - Len(c) \in 1..Len(v) /\ ~(k <= Len(c)) /\ ~(k <= Len(b))
          /\ n + (k - Len(c)) = k - Len(b)
      BY SMTT(30), <1>1, <1>3, <1>5, <1>6, <1>8, <2>3
    <3>2. x[k] = v[k - Len(c)] /\ q[k] = w[k - Len(b)]
      BY <1>6, <1>8, <3>1
    <3>3. x[k] = q[k]
      BY <1>3, <3>1, <3>2
    <3>4. QED
      BY <3>3
  <2>4. QED
    BY <1>1, <1>8, <2>1, <2>2, <2>3
<1>10. Framed(x, sent)
  <2>1. \A k \in 1..Len(x) :
          x[k].event \in 1..Len(sent) /\ (x[k].bad => sent[x[k].event].tag = "wide")
    BY <1>7, <1>8, <1>9 DEF Framed
  <2>2. \A j, k \in 1..Len(x) : j <= k => x[j].event <= x[k].event
    BY <1>7, <1>8, <1>9 DEF Framed
  <2>3. ASSUME NEW k \in 1..(Len(x) - 1) PROVE Follows(x[k], x[k + 1])
    <3>1. k \in 1..Len(q) /\ k + 1 \in 1..Len(q) /\ Follows(q[k], q[k + 1])
      BY <1>7, <1>8 DEF Framed
    <3>2. QED
      BY <1>9, <3>1 DEF Follows
  <2>4. Len(x) > 0 => x[1].part = 1 /\ x[Len(x)].event = Len(sent) /\ x[Len(x)].part # 1
    <3>1. Len(q) > 0 => 1 \in 1..Len(q) /\ Len(q) \in 1..Len(q)
      BY <1>8
    <3>2. QED
      BY <1>7, <1>8, <1>9, <3>1 DEF Framed
  <2>5. QED
    BY <1>6, <2>1, <2>2, <2>3, <2>4 DEF Framed
<1>11. Unread(x, sent) = Unread(q, sent)
  <2>1. Len(q) # 0 => 1 \in 1..Len(q)
    BY <1>8
  <2>2. QED
    BY <1>8, <1>9, <2>1 DEF Unread
<1>12. QED
  BY <1>3, <1>5, <1>10, <1>11 DEF x, q, c, d, v, chunk

(* At the end of a body an unfinished line is all that is not used.        *)
LEMMA UsedAtEnd ==
  ASSUME sent \in Seq(Sent), buf \in Seq(Fragment), ~HasLine(buf), Framed(buf, sent),
         Open(Unread(buf, sent), sent)
  PROVE  Used = Carrying(Unread(buf, sent), sent)
<1> DEFINE m == Unread(buf, sent)
<1>1. Len(buf) \in Nat /\ Len(sent) \in Nat /\ DOMAIN sent = 1..Len(sent)
  BY LenProperties
<1>2. /\ \A k \in 1..Len(buf) : buf[k].event \in 1..Len(sent)
      /\ \A j, k \in 1..Len(buf) : j <= k => buf[j].event <= buf[k].event
      /\ \A k \in 1..(Len(buf) - 1) : Follows(buf[k], buf[k + 1])
      /\ Len(buf) > 0 => buf[1].part = 1 /\ buf[Len(buf)].event = Len(sent)
  BY DEF Framed
<1>3. m \in 1..(Len(sent) + 1)
  <2>1. Len(buf) # 0 => 1 \in 1..Len(buf)
    BY <1>1
  <2>2. QED
    BY <1>1, <1>2, <2>1 DEF Unread
<1>4. ASSUME NEW i, LeftOpen(i) PROVE i >= m /\ i \in Int
  <2>1. Len(buf) > 0 /\ i = buf[Len(buf)].event
    BY <1>1, <1>4, EmptySeq DEF LeftOpen, Last
  <2>2. buf[1].event <= buf[Len(buf)].event /\ buf[Len(buf)].event \in Int
    BY <1>1, <1>2, <2>1
  <2>3. QED
    BY <2>1, <2>2 DEF Unread
<1>5. ASSUME NEW i \in 1..Len(sent), i >= m PROVE LeftOpen(i)
  <2>1. Len(buf) > 0
    BY <1>1, <1>5 DEF Unread
  <2>2. \A k \in 1..Len(buf) : buf[k].part # 3
    BY DEF HasLine
  <2>3. m = buf[1].event /\ buf[1].part = 1
    BY <1>2, <2>1 DEF Unread
  <2>4. Len(buf) >= 2 => buf[2].part = 2 /\ buf[2].event = m
    <3>1. Len(buf) >= 2 => Follows(buf[1], buf[2])
      BY <1>1, <1>2
    <3>2. QED
      BY <2>3, <3>1 DEF Follows
  <2>5. ~(Len(buf) >= 3)
    <3>1. Len(buf) >= 3 => Follows(buf[2], buf[3]) /\ 3 \in 1..Len(buf)
      BY <1>1, <1>2
    <3>2. QED
      BY <1>1, <2>2, <2>4, <3>1 DEF Follows
  <2>6. buf[Len(buf)].event = m
    <3>1. ASSUME NEW n \in Nat, n > 0, ~(n >= 3) PROVE n = 1 \/ n = 2
      BY <3>1
    <3>2. Len(buf) \in Nat
      BY <1>1
    <3>3. Len(buf) = 1 \/ Len(buf) = 2
      BY <2>1, <2>5, <3>1, <3>2
    <3>4. QED
      BY <2>3, <2>4, <3>3
  <2>7. i = m
    BY <1>1, <1>2, <1>5, <2>1, <2>6
  <2>8. buf # <<>> /\ Len(buf) \in 1..Len(buf)
    BY <1>1, <2>1, EmptySeq
  <2>9. QED
    BY <2>2, <2>6, <2>7, <2>8 DEF LeftOpen, Last
<1> HIDE DEF m
<1>6. Open(m, sent)
  BY DEF m
<1>7. ASSUME NEW i \in Used PROVE i \in Carrying(m, sent)
  <2>1. i \in 1..Len(sent) /\ ~LeftOpen(i) /\ sent[i].tag \notin {"junk", "error"}
    BY <1>1, <1>7 DEF Used
  <2>2. i \in 1..(m - 1)
    BY <1>1, <1>3, <1>5, <2>1
  <2>3. QED
    BY <1>6, <2>1, <2>2 DEF Carrying, Open
<1>8. ASSUME NEW i \in Carrying(m, sent) PROVE i \in Used
  <2>1. i \in 1..(m - 1) /\ i \in DOMAIN sent /\ sent[i].tag \notin {"junk", "error", "end"}
    BY <1>1, <1>3, <1>8 DEF Carrying
  <2>2. \A j \in 1..(i - 1) : sent[j].tag # "end"
    BY <1>3, <1>6, <2>1 DEF Open
  <2>3. ~LeftOpen(i)
    BY <1>3, <1>4, <2>1
  <2>4. QED
    BY <2>1, <2>2, <2>3 DEF Used
<1>9. QED
  BY <1>7, <1>8 DEF m

(* The line that ends an Ollama stream is the last one used.               *)
LEMMA UsedAfterEnd ==
  ASSUME sent \in Seq(Sent), sent' = sent, call' = call, ~Sse,
         buf' \in Seq(Fragment), NEW w \in Seq(Fragment), NEW m \in 1..Len(sent),
         Framed(buf' \o w, sent), m = Unread(buf' \o w, sent) - 1,
         sent[m].tag = "end", Open(m, sent)
  PROVE  Used' = Carrying(m, sent) \cup {m}
<1> DEFINE b == buf'
           q == b \o w
<1>1. /\ Len(sent) \in Nat /\ DOMAIN sent = 1..Len(sent) /\ Len(b) \in Nat
      /\ b # <<>> => Len(b) > 0
      /\ Len(q) = Len(b) + Len(w) /\ Len(w) \in Nat
      /\ \A k \in 1..Len(b) : q[k] = b[k]
  BY LenProperties, ConcatProperties, EmptySeq
<1>2. /\ \A k \in 1..Len(q) : q[k].event \in 1..Len(sent)
      /\ \A j, k \in 1..Len(q) : j <= k => q[j].event <= q[k].event
  BY DEF Framed
<1>3. ASSUME b # <<>> PROVE b[Len(b)].event > m
  <2> HIDE DEF b, q
  <2>1. Len(b) > 0 /\ 1 \in 1..Len(q) /\ Len(b) \in 1..Len(q) /\ 1 <= Len(b)
    BY <1>1, <1>3
  <2>2. q[1].event <= q[Len(b)].event /\ q[1].event \in Int /\ q[Len(b)] = b[Len(b)]
    BY <1>1, <1>2, <2>1
  <2>3. Unread(q, sent) = q[1].event
    BY <2>1 DEF Unread
  <2>4. m = q[1].event - 1 /\ q[Len(b)].event \in Int
    BY <1>2, <2>1, <2>3 DEF q, b
  <2>5. QED
    BY <2>2, <2>4
<1>4. \A i \in 1..m : ~LeftOpen(i)'
  BY <1>1, <1>3 DEF LeftOpen, Last
<1>5. Used' = {i \in 1..Len(sent) : /\ sent[i].tag \notin {"junk", "error"}
                                    /\ \A j \in 1..(i - 1) : sent[j].tag # "end"
                                    /\ ~LeftOpen(i)'}
  BY <1>1 DEF Used, Sse
<1>6. ASSUME NEW i \in 1..Len(sent), \A j \in 1..(i - 1) : sent[j].tag # "end" PROVE i <= m
  BY <1>1, <1>6
<1>7. ASSUME NEW i \in 1..m
      PROVE  /\ i \in 1..Len(sent)
             /\ \A j \in 1..(i - 1) : sent[j].tag # "end"
             /\ ~LeftOpen(i)'
             /\ i < m => (i \in Carrying(m, sent) <=> sent[i].tag \notin {"junk", "error"})
  BY <1>1, <1>4 DEF Open, Carrying
<1>8. \A i \in Carrying(m, sent) : i \in 1..m /\ i < m
  BY DEF Carrying
<1> HIDE DEF b
<1>9. ASSUME NEW i PROVE i \in Used' <=> i \in Carrying(m, sent) \cup {m}
  <2>1. CASE i \in 1..m /\ i < m
    BY <1>5, <1>7, <2>1
  <2>2. CASE i = m
    BY <1>5, <1>7, <2>2
  <2>3. CASE i \notin 1..m
    BY <1>1, <1>5, <1>6, <1>8, <2>3
  <2>4. QED
    BY <2>1, <2>2, <2>3
<1>10. QED
  BY <1>9

(* The event that ends a stream of whole events carries nothing.           *)
LEMMA UsedWithEnd ==
  ASSUME sent \in Seq(Sent), NEW e \in Sent, e.tag = "end", Sse,
         sent' = Append(sent, e), call' = call, buf' = <<>>, Open(Len(sent) + 1, sent)
  PROVE  Used' = Carrying(Len(sent) + 1, sent)
<1> DEFINE t == sent'
           m == Len(sent) + 1
<1>1. /\ Len(sent) \in Nat /\ DOMAIN t = 1..m /\ t[m] = e
      /\ \A i \in 1..Len(sent) : t[i] = sent[i]
  BY LenProperties, AppendProperties
<1>2. Used' = {i \in DOMAIN t : /\ t[i].tag \notin {"junk", "error"}
                                /\ \A j \in 1..(i - 1) : t[j].tag # "end"
                                /\ t[i].tag # "end"}
  BY DEF Used, Sse, LeftOpen
<1> HIDE DEF t
<1>3. \A i \in 1..Len(sent) : /\ i \in DOMAIN t /\ t[i] = sent[i]
                              /\ \A j \in 1..(i - 1) : t[j].tag # "end"
  BY <1>1 DEF Open
<1>4. ASSUME NEW i \in Used' PROVE i \in Carrying(m, sent)
  <2>1. i \in 1..m /\ t[i].tag \notin {"junk", "error", "end"}
    BY <1>1, <1>2, <1>4
  <2>2. i \in 1..(m - 1)
    BY <1>1, <2>1
  <2>3. QED
    BY <1>1, <2>1, <2>2 DEF Carrying
<1>5. ASSUME NEW i \in Carrying(m, sent) PROVE i \in Used'
  <2>1. i \in 1..Len(sent) /\ sent[i].tag \notin {"junk", "error", "end"}
    BY <1>1, <1>5 DEF Carrying
  <2>2. QED
    BY <1>2, <1>3, <2>1
<1>6. QED
  BY <1>4, <1>5

LEMMA SseKeepsWhole ==
  ASSUME RetryInv, WholeInv, NEW e \in UNION {Events(p) : p \in Providers}, SseEvent(e)
  PROVE  WholeInv'
<1> DEFINE m == Len(sent) + 1
<1>1. /\ pc = "streaming" /\ Sse /\ sent' = Append(sent, e) /\ sent \in Seq(Sent)
      /\ attempt' = attempt /\ buf' = buf /\ wire' = wire /\ buf = <<>> /\ wire = <<>>
      /\ result.kind # "Ok" /\ attempt \in Nat
  BY DEF SseEvent, Sse, WholeInv, RetryInv
<1>2. e \in Sent
  BY EventsSent
<1>3. Open(m, sent) /\ Gathers(attempt, acc.text, acc.stop, Carrying(m, sent), sent)
  <2>1. Reads(attempt, acc, <<>> \o <<>>, sent)
    BY <1>1 DEF WholeInv
  <2>2. QED
    BY <1>1, <2>1, ReadsNothing
<1>4. m \in 1..(Len(sent) + 1) /\ m \in Nat
  BY <1>1, LenProperties
<1>5. /\ sent' \in Seq(Sent) /\ Len(sent') = m /\ sent'[m] = e
      /\ \A i \in 1..Len(sent) : sent'[i] = sent[i]
      /\ Carrying(m, sent') = Carrying(m, sent) /\ Carrying(m, sent) \in SUBSET (1..Len(sent))
      /\ Open(m, sent')
  BY <1>1, <1>2, <1>3, <1>4, Appended
<1>6. Gathers(attempt, acc.text, acc.stop, Carrying(m, sent), sent')
  BY <1>1, <1>2, <1>3, <1>5, GathersStill
<1> HIDE DEF m
<1>7. CASE e.tag = "error"
  BY <1>1, <1>5, <1>7, FailKeepsWhole DEF SseEvent, Error, Failed
<1>8. CASE e.tag = "end"
  <2>1. Settle(Outcome(acc))
    BY <1>8 DEF SseEvent
  <2>2. call' = call
    BY <2>1 DEF Settle, Fail
  <2>3. Used' = Carrying(m, sent)
    BY <1>1, <1>2, <1>3, <1>8, <2>2, UsedWithEnd DEF m
  <2>4. QED
    BY <1>1, <1>5, <1>6, <2>1, <2>3, SettleKeepsWhole
<1>9. ASSUME e.tag \notin {"error", "end"}, UNCHANGED <<call, pc, result>>,
             Gathers(attempt, acc'.text, acc'.stop, Carrying(m + 1, sent'), sent')
      PROVE  WholeInv'
  <2>1. Open(m + 1, sent')
    BY <1>4, <1>5, <1>9 DEF Open
  <2>2. Reads(attempt, acc', <<>> \o <<>>, sent')
    BY <1>5, <1>9, <2>1, ReadsNothing
  <2>3. Reads(attempt, acc, buf \o wire, sent)'
    BY <1>1, <2>2
  <2>4. /\ (buf \in Seq(Fragment) /\ wire \in Seq(Fragment) /\ ~HasLine(buf))'
        /\ (Sse => buf = <<>> /\ wire = <<>>)' /\ Sse'
    BY <1>1, <1>9, EmptySeq, ReadsNothing DEF Sse
  <2>5. QED
    BY <1>1, <1>5, <1>9, <2>3, <2>4 DEF WholeInv
<1>10. CASE e.tag = "junk"
  <2>1. UNCHANGED <<call, pc, result, acc>>
    BY <1>10 DEF SseEvent
  <2>2. Carrying(m + 1, sent') = Carrying(m, sent')
    BY <1>4, <1>5, <1>10 DEF Carrying
  <2>3. QED
    BY <1>5, <1>6, <1>9, <1>10, <2>1, <2>2
<1>11. CASE e.tag \in {"data", "wide"}
  <2>1. UNCHANGED <<call, pc, result>> /\ acc' = Take(acc, sent'[m], m, TRUE)
    BY <1>5, <1>11 DEF SseEvent
  <2>2. \A i \in Carrying(m, sent) : i < m /\ i \in Nat
    BY <1>4 DEF Carrying
  <2>3. Carrying(m, sent) \in SUBSET Nat
    BY <2>2
  <2>4. Gathers(attempt, acc'.text, acc'.stop, Carrying(m, sent) \cup {m}, sent')
    BY <1>1, <1>2, <1>4, <1>5, <1>6, <2>1, <2>2, <2>3, TakesIn
  <2>5. Carrying(m + 1, sent') = Carrying(m, sent') \cup {m}
    BY <1>4, <1>5, <1>11 DEF Carrying
  <2>6. QED
    BY <1>5, <1>9, <1>11, <2>1, <2>4, <2>5
<1>12. QED
  BY <1>2, <1>7, <1>8, <1>10, <1>11 DEF Sent

LEMMA JoinedAtTwo ==
  ASSUME NEW w \in Seq(Fragment), NEW f \in Seq(Fragment), Len(f) = 2, NEW g \in Seq(Fragment)
  PROVE  /\ f \o g \in Seq(Fragment) /\ Len(f \o g) = 2 + Len(g)
         /\ (f \o g)[1] = f[1] /\ (f \o g)[2] = f[2]
         /\ Len(g) = 1 => (f \o g)[3] = g[1]
         /\ w \o f \o g = w \o (f \o g)
<1>1. /\ f \o g \in Seq(Fragment) /\ Len(f \o g) = Len(f) + Len(g)
      /\ \A i \in 1..(Len(f) + Len(g)) : (f \o g)[i] = IF i <= Len(f) THEN f[i] ELSE g[i - Len(f)]
  BY ConcatProperties
<1>2. w \o f \o g = w \o (f \o g)
  BY SMTT(30), ConcatAssociative
<1>3. Len(g) \in Nat
  BY LenProperties
<1>4. QED
  BY <1>1, <1>2, <1>3

LEMMA WriteKeepsWhole ==
  ASSUME WholeInv, NEW e \in Events("ollama"), NEW t \in BOOLEAN, ServerWrites(e, t)
  PROVE  WholeInv'
<1> DEFINE m == Len(sent) + 1
           q == buf \o wire
           line == Fragments(m) \o (IF t THEN Newline(m) ELSE <<>>)
           size == IF t THEN 3 ELSE 2
           x == buf' \o wire'
<1>1. /\ pc = "streaming" /\ ~Sse /\ sent' = Append(sent, e) /\ ~Unterminated
      /\ UNCHANGED <<call, pc, attempt, acc, buf, result>>
      /\ wire' = wire \o Fragments(Len(sent')) \o (IF t THEN Newline(Len(sent')) ELSE <<>>)
  BY DEF ServerWrites, Sse
<1>2. /\ sent \in Seq(Sent) /\ StopsAtEnd(sent) /\ buf \in Seq(Fragment)
      /\ wire \in Seq(Fragment) /\ ~HasLine(buf) /\ Reads(attempt, acc, q, sent)
      /\ result.kind # "Ok"
  BY <1>1 DEF WholeInv
<1>3. e \in Sent /\ (e.tag # "end" => e.stop = None)
  BY EventsSent DEF Providers
<1>4. Len(sent) \in Nat /\ m \in Nat /\ sent' \in Seq(Sent) /\ Len(sent') = m
  BY <1>1, <1>2, <1>3, AppendProperties, LenProperties
<1>5. /\ Fragments(m) \in Seq(Fragment) /\ Len(Fragments(m)) = 2
      /\ Newline(m) \in Seq(Fragment) /\ Len(Newline(m)) = 1
      /\ \A j \in 1..2 : Fragments(m)[j] = [event |-> m, part |-> j, bad |-> FALSE]
      /\ Newline(m)[1] = [event |-> m, part |-> 3, bad |-> FALSE]
  <2>1. \A j \in 1..3 : [event |-> m, part |-> j, bad |-> FALSE] \in Fragment
    BY <1>4 DEF Fragment
  <2>2. ASSUME NEW f \in Fragment, NEW g \in Fragment
        PROVE  <<f, g>> \in Seq(Fragment) /\ <<f>> \in Seq(Fragment)
    OBVIOUS
  <2>3. Fragments(m) \in Seq(Fragment) /\ Newline(m) \in Seq(Fragment)
    BY <2>1, <2>2 DEF Fragments, Newline
  <2>4. QED
    BY <2>3 DEF Fragments, Newline
<1>6. /\ line \in Seq(Fragment) /\ Len(line) = size
      /\ \A j \in 1..size : line[j] = [event |-> m, part |-> j, bad |-> FALSE]
      /\ wire' = wire \o line
  <2> DEFINE text == Fragments(m)
             end == IF t THEN Newline(m) ELSE <<>>
  <2>1. end \in Seq(Fragment) /\ Len(end) = size - 2 /\ (t => end[1] = Newline(m)[1])
    BY <1>5, EmptySeq
  <2>2. line = text \o end /\ wire' = wire \o text \o end
    BY <1>1, <1>4
  <2>3. text \in Seq(Fragment) /\ Len(text) = 2
    BY <1>5
  <2> HIDE DEF end, text, line
  <2>4. /\ line \in Seq(Fragment) /\ Len(line) = 2 + Len(end)
        /\ line[1] = text[1] /\ line[2] = text[2] /\ (Len(end) = 1 => line[3] = end[1])
        /\ wire' = wire \o line
    <3>1. wire \in Seq(Fragment) /\ end \in Seq(Fragment)
      BY <1>2, <2>1
    <3>2. /\ text \o end \in Seq(Fragment) /\ Len(text \o end) = 2 + Len(end)
          /\ (text \o end)[1] = text[1] /\ (text \o end)[2] = text[2]
          /\ (Len(end) = 1 => (text \o end)[3] = end[1])
          /\ wire \o text \o end = wire \o (text \o end)
      BY SMTT(60), <2>3, <3>1, JoinedAtTwo
    <3>3. line = text \o end
      BY <2>2
    <3>4. wire' = wire \o text \o end
      BY <2>2
    <3>5. QED
      BY <3>2, <3>3, <3>4
  <2>5. Len(line) = size
    BY <2>1, <2>4
  <2>6. t => line[3] = Newline(m)[1]
    BY <2>1, <2>4
  <2>7. \A j \in 1..size : j = 1 \/ j = 2 \/ (t /\ j = 3)
    OBVIOUS
  <2> HIDE DEF size, m
  <2>8. \A j \in 1..size : line[j] = [event |-> m, part |-> j, bad |-> FALSE]
    <3>1. \A j \in 1..2 : text[j] = [event |-> m, part |-> j, bad |-> FALSE]
      BY <1>5 DEF text
    <3>2. /\ text[1] = [event |-> m, part |-> 1, bad |-> FALSE]
          /\ text[2] = [event |-> m, part |-> 2, bad |-> FALSE]
      BY <3>1
    <3>3. t => line[3] = [event |-> m, part |-> 3, bad |-> FALSE]
      BY <1>5, <2>6
    <3>4. QED
      BY <2>4, <2>7, <3>2, <3>3
  <2>9. QED
    BY <2>4, <2>5, <2>8 DEF size, m
<1> HIDE DEF line
<1>7. x = q \o line /\ q \in Seq(Fragment) /\ x \in Seq(Fragment) /\ wire' \in Seq(Fragment)
  <2>1. q \in Seq(Fragment) /\ wire' \in Seq(Fragment)
    BY <1>2, <1>6, ConcatProperties
  <2>2. x = buf \o (wire \o line)
    BY <1>1, <1>6
  <2>3. x = q \o line
    <3>1. /\ buf \in Seq(Fragment) /\ wire \in Seq(Fragment) /\ line \in Seq(Fragment)
      BY <1>2, <1>6
    <3>2. (buf \o wire) \o line = buf \o (wire \o line)
      BY SMTT(30), <3>1, ConcatAssociative
    <3>3. QED
      BY <2>2, <3>2
  <2>4. q \o line \in Seq(Fragment)
    BY <1>6, <2>1, ConcatProperties
  <2>5. QED
    BY <2>1, <2>3, <2>4
<1> HIDE DEF q, x
<1>8. /\ Len(q) \in Nat /\ Len(x) = Len(q) + size
      /\ \A k \in 1..Len(q) : x[k] = q[k]
      /\ \A j \in 1..size : x[Len(q) + j] = [event |-> m, part |-> j, bad |-> FALSE]
  <2>1. /\ Len(q) \in Nat /\ Len(x) = Len(q) + Len(line)
        /\ \A k \in 1..(Len(q) + Len(line)) :
              x[k] = IF k <= Len(q) THEN q[k] ELSE line[k - Len(q)]
    BY ZenonT(30), <1>6, <1>7, ConcatProperties, LenProperties
  <2>2. size \in Nat /\ Len(line) = size
    BY <1>6
  <2> HIDE DEF size
  <2>3. ASSUME NEW j \in 1..size PROVE x[Len(q) + j] = line[j]
    BY <2>1, <2>2
  <2>4. \A j \in 1..size : line[j] = [event |-> m, part |-> j, bad |-> FALSE]
    BY <1>6 DEF size
  <2>5. Len(x) = Len(q) + size /\ Len(q) \in Nat
    BY <2>1, <2>2
  <2>6. \A k \in 1..Len(q) : x[k] = q[k]
    BY <2>1, <2>2
  <2>7. \A j \in 1..size : x[Len(q) + j] = [event |-> m, part |-> j, bad |-> FALSE]
    BY <2>3, <2>4
  <2>8. QED
    BY <2>5, <2>6, <2>7 DEF size
<1>9. Len(q) > 0 => q[Len(q)].part = 3
  BY SMTT(30), <1>1, <1>7, EmptySeq DEF Unterminated, Last, q
<1>10. Framed(x, sent') /\ Unread(x, sent') = Unread(q, sent)
  <2>1. Framed(q, sent) /\ size \in {2, 3}
    BY <1>2 DEF Reads
  <2>2. /\ Len(x) = Len(q) + size /\ \A k \in 1..Len(q) : x[k] = q[k]
        /\ \A j \in 1..size :
              x[Len(q) + j] = [event |-> Len(sent) + 1, part |-> j, bad |-> FALSE]
    BY <1>8
  <2> HIDE DEF size
  <2>3. sent \in Seq(Sent) /\ e \in Sent /\ q \in Seq(Fragment) /\ x \in Seq(Fragment)
    BY <1>2, <1>3, <1>7
  <2>4. Framed(x, Append(sent, e)) /\ Unread(x, Append(sent, e)) = Unread(q, sent)
    BY ZenonT(30), <1>9, <2>1, <2>2, <2>3, WritesFramed
  <2>5. QED
    BY <1>1, <2>4
<1> DEFINE u == Unread(q, sent)
<1>11. u \in 1..(Len(sent) + 1)
  <2>1. Len(q) # 0 => q[1].event \in 1..Len(sent)
    BY <1>2, <1>8 DEF Reads, Framed
  <2>2. QED
    BY <1>4, <1>8, <2>1 DEF Unread
<1> HIDE DEF u
<1>12. /\ Open(u, sent) /\ Gathers(attempt, acc.text, acc.stop, Carrying(u, sent), sent)
  BY <1>2 DEF Reads, u
<1>13. /\ Open(u, sent') /\ Carrying(u, sent') = Carrying(u, sent)
       /\ Carrying(u, sent) \in SUBSET (1..Len(sent))
       /\ sent'[m] = e /\ \A i \in 1..Len(sent) : sent'[i] = sent[i]
  BY <1>1, <1>2, <1>3, <1>11, <1>12, Appended
<1>14. Gathers(attempt, acc.text, acc.stop, Carrying(u, sent'), sent')
  BY <1>1, <1>2, <1>3, <1>12, <1>13, GathersStill
<1>15. Reads(attempt, acc, x, sent')
  BY <1>10, <1>13, <1>14 DEF Reads, u
<1>16. Reads(attempt, acc, buf \o wire, sent)'
  BY <1>1, <1>15 DEF x
<1>17. StopsAtEnd(sent')
  BY <1>2, <1>3, <1>4, <1>13 DEF StopsAtEnd
<1>18. ~Sse' /\ (~Sse => StopsAtEnd(sent))' /\ (~HasLine(buf))'
  BY <1>1, <1>2, <1>17 DEF Sse
<1>19. QED
  BY <1>1, <1>2, <1>4, <1>7, <1>16, <1>18 DEF WholeInv

LEMMA ChunkKeepsWhole ==
  ASSUME RetryInv, WholeInv, NEW n \in Nat, Chunk(n)
  PROVE  WholeInv'
<1> DEFINE c == buf \o Decoded(SubSeq(wire, 1, n))
           w == SubSeq(wire, n + 1, Len(wire))
           s == Lines(acc, c)
<1>1. /\ pc = "streaming" /\ n \in 1..Len(wire) /\ wire' = w
      /\ acc' = s.acc /\ buf' = s.rest /\ attempt' = attempt /\ sent' = sent
      /\ CASE s.over = "error" -> Fail(Error("Stream", TRUE))
           [] s.over = "end"   -> Settle(Outcome(s.acc))
           [] OTHER            -> UNCHANGED <<call, pc, failures, result>>
  BY DEF Chunk
<1>2. /\ sent \in Seq(Sent) /\ buf \in Seq(Fragment) /\ wire \in Seq(Fragment)
      /\ Reads(attempt, acc, buf \o wire, sent) /\ result.kind # "Ok" /\ attempt \in Nat
  BY <1>1 DEF WholeInv, RetryInv
<1>3. ~Sse /\ StopsAtEnd(sent)
  <2>1. wire # <<>>
    BY <1>1, EmptySeq
  <2>2. QED
    BY <2>1 DEF WholeInv
<1>4. /\ c \in Seq(Fragment) /\ w \in Seq(Fragment)
      /\ Framed(c \o w, sent) /\ Unread(c \o w, sent) = Unread(buf \o wire, sent)
  <2>1. Framed(buf \o wire, sent)
    BY <1>2 DEF Reads
  <2>2. QED
    BY <1>1, <1>2, <2>1, DecodedFramed
<1>5. Reads(attempt, acc, c \o w, sent)
  BY <1>2, <1>4 DEF Reads
<1> HIDE DEF c, w
<1>6. Reading(0, s, w)
  BY <1>2, <1>3, <1>4, <1>5, LinesRead
<1> HIDE DEF s
<1>7. CASE s.over = "error"
  BY <1>1, <1>2, <1>3, <1>7, FailKeepsWhole DEF Error, Failed
<1>8. CASE s.over = "end"
  <2> DEFINE m == Unread(s.rest \o w, sent) - 1
  <2>1. Settle(Outcome(s.acc))
    BY <1>1, <1>8
  <2>2. call' = call
    BY <2>1 DEF Settle, Fail
  <2>3. /\ Framed(s.rest \o w, sent) /\ s.rest \in Seq(Fragment)
        /\ m \in 1..Len(sent) /\ sent[m].tag = "end" /\ Open(m, sent)
        /\ Gathers(attempt, s.acc.text, s.acc.stop, Carrying(m, sent) \cup {m}, sent)
    BY <1>6, <1>8 DEF Reading, Ended
  <2>4. Framed(buf' \o w, sent) /\ buf' \in Seq(Fragment) /\ m = Unread(buf' \o w, sent) - 1
    BY <1>1, <2>3
  <2> HIDE DEF m
  <2>5. Used' = Carrying(m, sent) \cup {m}
    BY <1>1, <1>2, <1>3, <1>4, <2>2, <2>3, <2>4, UsedAfterEnd
  <2>6. Gathers(attempt, s.acc.text, s.acc.stop, Used', sent')
    BY <1>1, <2>3, <2>5
  <2>7. QED
    BY <1>1, <1>2, <1>3, <2>1, <2>6, SettleKeepsWhole
<1>9. CASE s.over = None
  <2>1. UNCHANGED <<call, pc, failures, result>>
    BY <1>1, <1>9 DEF None
  <2>2. /\ s.rest \in Seq(Fragment) /\ Reads(attempt, s.acc, s.rest \o w, sent)
        /\ (HasLine(s.rest) => Len(s.rest) <= 0)
    BY <1>6, <1>9 DEF Reading
  <2>3. ~HasLine(s.rest)
    <3>1. Len(s.rest) \in Nat
      BY <2>2, LenProperties
    <3>2. QED
      BY <2>2, <3>1 DEF HasLine
  <2>4. Reads(attempt, acc, buf \o wire, sent)' /\ (~HasLine(buf))'
    BY <1>1, <2>2, <2>3
  <2>5. ~Sse' /\ (~Sse => StopsAtEnd(sent))'
    BY <1>1, <1>3, <2>1 DEF Sse
  <2>6. (buf \in Seq(Fragment) /\ wire \in Seq(Fragment))'
    BY <1>1, <1>4, <2>2
  <2>7. QED
    BY <1>1, <1>2, <2>1, <2>4, <2>5, <2>6 DEF WholeInv
<1>10. QED
  BY <1>6, <1>7, <1>8, <1>9 DEF Reading

LEMMA EndKeepsWhole ==
  ASSUME WholeInv, BodyEnds
  PROVE  WholeInv'
<1>1. /\ pc = "streaming" /\ wire = <<>> /\ Settle(Outcome(acc))
      /\ UNCHANGED <<attempt, acc, sent, wire, buf>>
  BY DEF BodyEnds
<1>2. /\ sent \in Seq(Sent) /\ buf \in Seq(Fragment) /\ ~HasLine(buf)
      /\ Reads(attempt, acc, buf \o <<>>, sent) /\ (~Sse => StopsAtEnd(sent'))
  BY <1>1 DEF WholeInv
<1>3. buf \o <<>> = buf
  BY <1>2, ConcatEmptySeq
<1>4. Used = Carrying(Unread(buf, sent), sent)
  BY <1>2, <1>3, UsedAtEnd DEF Reads
<1>5. call' = call
  BY <1>1 DEF Settle, Fail
<1>6. Used' = Used
  BY <1>1, <1>5 DEF Used, LeftOpen
<1>7. Gathers(attempt, acc.text, acc.stop, Used', sent')
  BY <1>1, <1>2, <1>3, <1>4, <1>6 DEF Reads
<1>8. QED
  BY <1>1, <1>2, <1>7, SettleKeepsWhole

LEMMA WholeStep == RetryInv /\ WholeInv /\ [LlmNext]_llmVars => WholeInv'
<1> SUFFICES ASSUME RetryInv, WholeInv, [LlmNext]_llmVars PROVE WholeInv'
  OBVIOUS
<1>1. ASSUME NEW p \in Providers, Switch(p) PROVE WholeInv'
  <2>1. /\ pc = "idle" /\ pc' = pc
        /\ UNCHANGED <<call, attempt, acc, sent, wire, buf, result>>
    BY <1>1 DEF Switch
  <2>2. Sse' <=> Sse
    BY <2>1 DEF Sse
  <2>3. QED
    BY <2>1, <2>2 DEF WholeInv
<1>2. ASSUME NEW c \in {"query", "summarize"}, NEW p \in Providers \cup {"unknown"}, Call(c, p)
      PROVE WholeInv'
  <2>1. /\ pc = "idle" /\ UNCHANGED <<acc, sent, wire, buf>>
        /\ pc' = "done" => result'.kind = "UnknownProvider"
        /\ pc' = "sending" => attempt' = 1 /\ result' = result
        /\ pc' \in {"sending", "done"}
    BY <1>2 DEF Call, Error
  <2>2. /\ acc' = Gathered /\ sent' = <<>> /\ buf' = <<>> /\ wire' = <<>> /\ result.kind # "Ok"
    BY <2>1 DEF WholeInv
  <2>3. Reads(attempt', acc', buf' \o wire', sent')
    BY <2>2, StartsFromNothing
  <2>4. Reads(attempt, acc, buf \o wire, sent)'
    BY <2>3
  <2>5. StopsAtEnd(sent') /\ (~Sse => StopsAtEnd(sent))' /\ ~HasLine(buf')
    BY <2>2, EmptySeq DEF StopsAtEnd, HasLine
  <2>6. (sent \in Seq(Sent) /\ buf \in Seq(Fragment) /\ wire \in Seq(Fragment) /\ ~HasLine(buf))'
    BY <2>2, <2>5, EmptySeq
  <2>7. QED
    BY <2>1, <2>2, <2>4, <2>5, <2>6 DEF WholeInv
<1>3. CASE Retry \/ AskShorter
  <2>1. /\ acc' = Gathered /\ sent' = <<>> /\ buf' = <<>> /\ wire' = <<>>
        /\ result' = result /\ pc \in {"backoff", "shorter"} /\ pc' = "sending"
    BY <1>3 DEF Retry, AskShorter
  <2>2. result'.kind # "Ok"
    BY <2>1 DEF WholeInv
  <2>3. Reads(attempt', acc', buf' \o wire', sent')
    BY <2>1, StartsFromNothing
  <2>4. Reads(attempt, acc, buf \o wire, sent)'
    BY <2>3
  <2>5. StopsAtEnd(sent') /\ (~Sse => StopsAtEnd(sent))' /\ ~HasLine(buf')
    BY <2>1, EmptySeq DEF StopsAtEnd, HasLine
  <2>6. (sent \in Seq(Sent) /\ buf \in Seq(Fragment) /\ wire \in Seq(Fragment) /\ ~HasLine(buf))'
    BY <2>1, <2>5, EmptySeq
  <2>7. QED
    BY <2>1, <2>2, <2>4, <2>5, <2>6 DEF WholeInv
<1>4. CASE NoKey
  BY <1>4, FailKeepsWhole DEF NoKey, Error, Failed, WholeInv
<1>5. CASE Refused
  BY <1>5, FailKeepsWhole DEF Refused, Error, Failed, WholeInv
<1>6. CASE Answered
  <2>1. /\ pc = "sending" /\ pc' = "streaming"
        /\ UNCHANGED <<call, attempt, acc, sent, wire, buf, result>>
    BY <1>6 DEF Answered
  <2>2. Sse' <=> Sse
    BY <2>1 DEF Sse
  <2>3. Reads(attempt, acc, buf \o wire, sent)
    BY <2>1 DEF WholeInv
  <2>4. Reads(attempt', acc', buf' \o wire', sent')
    BY <2>1, <2>3
  <2>5. Reads(attempt, acc, buf \o wire, sent)'
    BY <2>4
  <2>6. (~Sse => StopsAtEnd(sent))' /\ (~HasLine(buf))'
    BY <2>1, <2>2 DEF WholeInv
  <2>7. QED
    BY <2>1, <2>2, <2>5, <2>6 DEF WholeInv
<1>7. ASSUME NEW e \in UNION {Events(p) : p \in Providers}, SseEvent(e) PROVE WholeInv'
  BY <1>7, SseKeepsWhole
<1>8. ASSUME NEW e \in Events("ollama"), NEW t \in BOOLEAN, ServerWrites(e, t) PROVE WholeInv'
  BY <1>8, WriteKeepsWhole
<1>9. ASSUME NEW n \in 1..(3 * MaxEvents), Chunk(n) PROVE WholeInv'
  BY <1>9, LlmAssumption, ChunkKeepsWhole
<1>10. CASE BodyEnds
  BY <1>10, EndKeepsWhole
<1>11. CASE StreamBreaks
  BY <1>11, FailKeepsWhole DEF StreamBreaks, Error, Failed, WholeInv
<1>12. CASE UNCHANGED llmVars
  <2>1. UNCHANGED <<call, pc, attempt, acc, sent, wire, buf, result>>
    BY <1>12 DEF llmVars
  <2>2. (Sse' <=> Sse) /\ Used' = Used /\ (StopsAtEnd(sent') <=> StopsAtEnd(sent))
    BY <2>1 DEF Sse, Used, LeftOpen
  <2>3. Reads(attempt', acc', buf' \o wire', sent') <=> Reads(attempt, acc, buf \o wire, sent)
    BY <2>1
  <2>4. Gathers(attempt', result'.text, result'.stop, Used', sent')
          <=> Gathers(attempt, result.text, result.stop, Used, sent)
    BY <2>1, <2>2
  <2>5. HasLine(buf') <=> HasLine(buf)
    BY <2>1
  <2>6. QED
    BY <2>1, <2>2, <2>3, <2>4, <2>5 DEF WholeInv
<1>13. QED
  BY <1>1, <1>2, <1>3, <1>4, <1>5, <1>6, <1>7, <1>8, <1>9, <1>10, <1>11, <1>12 DEF LlmNext

(* What is accepted of a completion, over any of the three protocols, is   *)
(* the text of one attempt: every piece of it once and in order, never of  *)
(* an attempt that failed midway, never empty and never one that stopped   *)
(* at the limit of its provider, however many attempts there were and      *)
(* however the network cut the lines of an Ollama stream.                  *)
THEOREM AcceptedReplyIsWhole == LlmInit /\ [][LlmNext]_llmVars => []ReplyIsWhole
<1>1. LlmInit => RetryInv /\ WholeInv
  <2> SUFFICES ASSUME LlmInit PROVE RetryInv /\ WholeInv
    OBVIOUS
  <2>1. RetryInv
    BY LlmAssumption DEF LlmInit, RetryInv, RetriesAreEarned
  <2>2. StopsAtEnd(sent)
    BY EmptySeq DEF LlmInit, StopsAtEnd
  <2>3. WholeInv
    BY <2>2, EmptySeq DEF LlmInit, WholeInv, None
  <2>4. QED
    BY <2>1, <2>3
<1>2. WholeInv => ReplyIsWhole
  <2> SUFFICES ASSUME WholeInv, result.kind = "Ok", pc = "done" PROVE ReplyIsWhole
    BY DEF ReplyIsWhole
  <2>1. /\ Gathers(attempt, result.text, result.stop, Used, sent)
        /\ result.text # <<>> /\ ~IsLengthStop(result.stop)
    BY DEF WholeInv
  <2>2. {result.text[k].event : k \in DOMAIN result.text} = {i \in Used : sent[i].text}
    BY <2>1 DEF Gathers
  <2>3. QED
    BY <2>1, <2>2 DEF ReplyIsWhole, Gathers
<1>3. QED
  BY <1>1, <1>2, RetryStep, WholeStep, PTL

=============================================================================
