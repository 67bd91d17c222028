-------------------------------- MODULE Llm --------------------------------
(***************************************************************************)
(* A completion: one request to a model provider, its retries, and the     *)
(* three streaming protocols it may be answered in (src/src/llm/), with    *)
(* the two callers that look at how it ends: llm.query of a session's code *)
(* and the summary of a compaction, which asks once more after a truncated *)
(* answer.                                                                 *)
(*                                                                         *)
(* The server is the environment: it sends any events, breaks the stream   *)
(* or ends it at any point.  A piece of text is named by the attempt and   *)
(* the event it came with, so that what ends up in a reply can be compared *)
(* with what was sent.  OpenAI and Anthropic streams arrive as whole       *)
(* events (eventsource-stream frames them); an Ollama stream is lines of   *)
(* JSON cut into network chunks anywhere, and the client frames it.        *)
(***************************************************************************)
EXTENDS Integers, Sequences, SequencesExt

CONSTANTS
    MaxRetries,   \* provider.max_retries
    MaxEvents     \* bound: events a server sends in one attempt

ASSUME LlmAssumption == MaxRetries \in Nat /\ MaxEvents \in Nat

VARIABLES
    model,      \* the session's current provider
    call,       \* the call under way: its caller, its provider, its round
    pc,         \* where it is
    attempt,    \* attempts made in this round
    acc,        \* what the client has gathered of the stream
    sent,       \* the events of this attempt, in the order they were sent
    wire,       \* Ollama: fragments sent and not yet received
    buf,        \* Ollama: fragments received and not yet split into lines
    failures,   \* how each attempt of this round failed
    result      \* how the call ended

llmVars == <<model, call, pc, attempt, acc, sent, wire, buf, failures, result>>

Providers == {"openai", "anthropic", "ollama"}
None == "none"

----------------------------------------------------------------------------
(* Events *)

\* what an event carries that the client looks at; a count of 0 is a field
\* that is absent
Event(tag, text, stop, in, out) ==
    [tag |-> tag, text |-> text, stop |-> stop, in |-> in, out |-> out]

Junk == Event("junk", FALSE, None, 0, 0)          \* does not parse: skipped
Failure == Event("error", FALSE, None, 0, 0)
Text == Event("data", TRUE, None, 0, 0)

OpenAiEvents ==
    {Event("end", FALSE, None, 0, 0),         \* [DONE]
     Event("data", TRUE, "length", 0, 0),
     Event("data", FALSE, "stop", 5, 7),
     Event("data", FALSE, None, 0, 7)}        \* usage without prompt_tokens

AnthropicEvents ==
    {Event("data", FALSE, None, 5, 0),        \* message_start
     Event("data", FALSE, "stop", 0, 7),      \* message_delta
     Event("data", FALSE, "max_tokens", 0, 7)}

OllamaEvents ==
    {Event("wide", TRUE, None, 0, 0),         \* a character of several bytes
     Event("end", TRUE, "stop", 5, 7),        \* done: true
     Event("end", FALSE, "length", 5, 7),
     Event("end", FALSE, None, 0, 0)}

Events(p) ==
    {Junk, Failure, Text} \cup
    CASE p = "openai"    -> OpenAiEvents
      [] p = "anthropic" -> AnthropicEvents
      [] p = "ollama"    -> OllamaEvents

\* a piece of text: the attempt and the event it came with, and whether its
\* bytes survived
Piece(i, whole) == [attempt |-> attempt, event |-> i, whole |-> whole]

----------------------------------------------------------------------------
(* Reading a stream *)

Gathered == [text |-> <<>>, stop |-> None, in |-> 0, out |-> 0, got |-> FALSE]

\* One event is taken in: text is appended, a stop reason and the counts it
\* reports are kept, and only an input count makes the usage a reported one.
\* Ollama's last line sets the stop reason even when it names none.
Take(a, e, i, whole) ==
    [text |-> IF e.text THEN Append(a.text, Piece(i, whole)) ELSE a.text,
     stop |-> IF e.stop # None \/ (call.provider = "ollama" /\ e.tag = "end")
              THEN e.stop ELSE a.stop,
     in   |-> IF e.in > 0 THEN e.in ELSE a.in,
     out  |-> IF e.out > 0 THEN e.out ELSE a.out,
     got  |-> a.got \/ e.in > 0]

\* four characters a token; the request is estimated as one token here and a
\* piece of text as one
Estimated(text) == [in |-> 1, out |-> Len(text)]

IsLengthStop(reason) == reason \in {"length", "max_tokens"}

Error(kind, retryable) == [kind |-> kind, retryable |-> retryable]

\* the end of a stream: a cut answer is an error even with text in it, an
\* empty one is worth another attempt
Outcome(a) ==
    IF IsLengthStop(a.stop) THEN Error("Truncated", FALSE)
    ELSE IF a.text = <<>> THEN Error("Empty", TRUE)
    ELSE [kind |-> "Ok", text |-> a.text, stop |-> a.stop,
          estimated |-> ~a.got,
          usage |-> IF a.got THEN [in |-> a.in, out |-> a.out]
                    ELSE Estimated(a.text)]

----------------------------------------------------------------------------
(* One call *)

NoCall == [caller |-> None, provider |-> None, round |-> 0]

LlmInit ==
    /\ model \in Providers
    /\ call = NoCall
    /\ pc = "idle"
    /\ attempt = 0
    /\ acc = Gathered
    /\ sent = <<>>
    /\ wire = <<>>
    /\ buf = <<>>
    /\ failures = <<>>
    /\ result = [kind |-> None]

\* model.switch refuses a provider that is not configured
Switch(p) ==
    /\ pc = "idle"
    /\ p \in Providers
    /\ model' = p
    /\ UNCHANGED <<call, pc, attempt, acc, sent, wire, buf, failures, result>>

\* llm.query may name another model than the session's: any provider, known or
\* not; a summary is asked of the session's
Call(caller, p) ==
    /\ pc = "idle"
    /\ caller \in {"query", "summarize"}
    /\ p \in Providers \cup {"unknown"}
    /\ caller = "summarize" => p = model
    /\ call' = [caller |-> caller, provider |-> p, round |-> 1]
    /\ IF p = "unknown"
       THEN pc' = "done" /\ result' = Error("UnknownProvider", FALSE)
       ELSE pc' = "sending" /\ UNCHANGED result
    /\ attempt' = IF p = "unknown" THEN 0 ELSE 1
    /\ UNCHANGED <<model, acc, sent, wire, buf, failures>>

MutSurfaced(e) ==                      \* any error after a retry is wrapped
    IF attempt > 1
    THEN [kind |-> "Exhausted", retryable |-> FALSE,
          attempts |-> attempt, last |-> e]
    ELSE e

\* what the call ends with when no attempt is left for error e: `Exhausted`
\* wraps a retryable error that was retried, any other keeps its own type
Surfaced(e) ==
    IF e.retryable /\ attempt > 1
    THEN [kind |-> "Exhausted", retryable |-> FALSE,
          attempts |-> attempt, last |-> e]
    ELSE e

\* An attempt failed.  A retryable error waits and tries again while retries
\* are left; a summary cut by its limit is asked for again, once, shorter.
Fail(e) ==
    /\ failures' = Append(failures, e)
    /\ IF e.retryable /\ attempt <= MaxRetries
       THEN pc' = "backoff" /\ UNCHANGED <<call, result>>
       ELSE /\ result' = Surfaced(e)
            /\ IF e.kind = "Truncated" /\ call.caller = "summarize" /\ call.round = 1
               THEN pc' = "shorter" /\ UNCHANGED call
               ELSE pc' = "done" /\ UNCHANGED call

Settle(o) ==
    IF o.kind = "Ok"
    THEN pc' = "done" /\ result' = o /\ UNCHANGED <<call, failures>>
    ELSE Fail(o)

\* the next attempt starts from nothing: every buffer is a local of the client
Retry ==
    /\ pc = "backoff"
    /\ pc' = "sending"
    /\ attempt' = attempt + 1
    /\ acc' = Gathered
    /\ sent' = <<>>
    /\ wire' = <<>>
    /\ buf' = <<>>
    /\ UNCHANGED <<model, call, failures, result>>

AskShorter ==
    /\ pc = "shorter"
    /\ call' = [call EXCEPT !.round = 2]
    /\ pc' = "sending"
    /\ attempt' = 1
    /\ acc' = Gathered
    /\ sent' = <<>>
    /\ wire' = <<>>
    /\ buf' = <<>>
    /\ failures' = <<>>
    /\ UNCHANGED <<model, result>>

\* the key is read from the environment; Ollama needs none
NoKey ==
    /\ pc = "sending"
    /\ call.provider # "ollama"
    /\ Fail(Error("MissingApiKey", FALSE))
    /\ UNCHANGED <<model, attempt, acc, sent, wire, buf>>

\* The request is not answered or refused: 429, 408 and 5xx are worth a retry,
\* as are most transport errors.
Refused ==
    /\ pc = "sending"
    /\ \E retryable \in BOOLEAN, k \in {"Http", "Status"} : Fail(Error(k, retryable))
    /\ UNCHANGED <<model, attempt, acc, sent, wire, buf>>

Answered ==
    /\ pc = "sending"
    /\ pc' = "streaming"
    /\ UNCHANGED <<model, call, attempt, acc, sent, wire, buf, failures, result>>

----------------------------------------------------------------------------
(* OpenAI and Anthropic: whole events *)

SseEvent(e) ==
    /\ pc = "streaming"
    /\ call.provider # "ollama"
    /\ e \in Events(call.provider)
    /\ Len(sent) < MaxEvents
    /\ sent' = Append(sent, e)
    /\ LET taken == Take(acc, e, Len(sent'), TRUE)
       IN  CASE e.tag = "error" -> Fail(Error("Stream", TRUE)) /\ UNCHANGED acc
             [] e.tag = "end"   -> Settle(Outcome(acc)) /\ UNCHANGED acc
             [] e.tag = "junk"  -> UNCHANGED <<call, pc, failures, result, acc>>
             [] OTHER           -> acc' = taken /\ UNCHANGED <<call, pc, failures, result>>
    /\ UNCHANGED <<model, attempt, wire, buf>>

----------------------------------------------------------------------------
(* Ollama: lines, cut into chunks *)

\* an event is two halves and a newline on the wire; the last line of a body
\* may lack its newline
Fragments(i) == <<[event |-> i, part |-> 1, bad |-> FALSE],
                  [event |-> i, part |-> 2, bad |-> FALSE]>>
Newline(i) == <<[event |-> i, part |-> 3, bad |-> FALSE]>>
Unterminated == buf \o wire # <<>> /\ Last(buf \o wire).part # 3

ServerWrites(e, terminated) ==
    /\ pc = "streaming"
    /\ call.provider = "ollama"
    /\ e \in Events("ollama")
    /\ Len(sent) < MaxEvents
    /\ ~Unterminated
    /\ sent' = Append(sent, e)
    /\ wire' = wire \o Fragments(Len(sent'))
                    \o (IF terminated THEN Newline(Len(sent')) ELSE <<>>)
    /\ UNCHANGED <<model, call, pc, attempt, acc, buf, failures, result>>

\* Each chunk is decoded by itself: a character of several bytes that a cut
\* splits becomes replacement characters on both sides of it.
Decoded(chunk) ==
    [k \in DOMAIN chunk |->
        [chunk[k] EXCEPT !.bad =
            /\ sent[chunk[k].event].tag = "wide"
            /\ \/ k = Len(chunk) /\ chunk[k].part = 1
               \/ k = 1 /\ chunk[k].part = 2]]

\* the fragments of the buffer as lines: its first newline, or 0
FirstNewline(b) ==
    IF \E k \in DOMAIN b : b[k].part = 3
    THEN CHOOSE k \in DOMAIN b : b[k].part = 3 /\ \A j \in 1..(k - 1) : b[j].part # 3
    ELSE 0

\* a line parses when it is both halves of an event
Parses(line) ==
    /\ Len(line) = 2
    /\ line[1].part = 1 /\ line[2].part = 2
    /\ sent[line[1].event].tag # "junk"

\* One turn of the loop over lines: the first complete line of the rest is
\* taken out and read, unless one before it ended the stream
NextLine(s) ==
    LET nl == FirstNewline(s.rest)
        line == SubSeq(s.rest, 1, nl - 1)
        rest == SubSeq(s.rest, nl + 1, Len(s.rest))
        i == line[1].event
    IN  IF s.over # None \/ nl = 0 THEN s
        ELSE IF ~Parses(line) THEN [s EXCEPT !.rest = rest]
        ELSE IF sent[i].tag = "error" THEN [s EXCEPT !.rest = rest, !.over = "error"]
        ELSE [acc |-> Take(s.acc, sent[i], i, ~line[1].bad /\ ~line[2].bad),
              rest |-> rest,
              over |-> IF sent[i].tag = "end" THEN "end" ELSE None]

\* Every complete line of buffer b, first to last, until one ends the stream:
\* [acc, rest of the buffer, how it ended].  There are no more lines than
\* fragments.
Lines(a, b) ==
    LET after[k \in 0..Len(b)] ==
            IF k = 0 THEN [acc |-> a, rest |-> b, over |-> None] ELSE NextLine(after[k - 1])
    IN  after[Len(b)]

MutChunk(n) ==                         \* each chunk is split by itself
    /\ pc = "streaming"
    /\ n \in 1..Len(wire)
    /\ wire' = SubSeq(wire, n + 1, Len(wire))
    /\ LET s == Lines(acc, Decoded(SubSeq(wire, 1, n)))
       IN  /\ acc' = s.acc
           /\ CASE s.over = "error" -> Fail(Error("Stream", TRUE))
                [] s.over = "end"   -> Settle(Outcome(s.acc))
                [] OTHER            -> UNCHANGED <<call, pc, failures, result>>
    /\ UNCHANGED <<model, attempt, sent, buf>>

\* The chunk is appended to what the last one left, and its lines are read.
Chunk(n) ==
    /\ pc = "streaming"
    /\ n \in 1..Len(wire)
    /\ wire' = SubSeq(wire, n + 1, Len(wire))
    /\ LET s == Lines(acc, buf \o Decoded(SubSeq(wire, 1, n)))
       IN  /\ acc' = s.acc
           /\ buf' = s.rest
           /\ CASE s.over = "error" -> Fail(Error("Stream", TRUE))
                [] s.over = "end"   -> Settle(Outcome(s.acc))
                [] OTHER            -> UNCHANGED <<call, pc, failures, result>>
    /\ UNCHANGED <<model, attempt, sent>>

----------------------------------------------------------------------------
(* The end of a stream *)

\* the body ends: what was gathered is the answer, an unfinished line is lost
BodyEnds ==
    /\ pc = "streaming"
    /\ wire = <<>>
    /\ Settle(Outcome(acc))
    /\ UNCHANGED <<model, attempt, acc, sent, wire, buf>>

\* the connection breaks or the timeout of the request passes
StreamBreaks ==
    /\ pc = "streaming"
    /\ IF call.provider = "ollama"
       THEN \E retryable \in BOOLEAN : Fail(Error("Http", retryable))
       ELSE Fail(Error("Stream", TRUE))
    /\ UNCHANGED <<model, attempt, acc, sent, wire, buf>>

LlmNext ==
    \/ \E p \in Providers : Switch(p)
    \/ \E caller \in {"query", "summarize"}, p \in Providers \cup {"unknown"} : Call(caller, p)
    \/ Retry
    \/ AskShorter
    \/ NoKey
    \/ Refused
    \/ Answered
    \/ \E e \in UNION {Events(p) : p \in Providers} : SseEvent(e)
    \/ \E e \in Events("ollama"), t \in BOOLEAN : ServerWrites(e, t)
    \/ \E n \in 1..(3 * MaxEvents) : Chunk(n)
    \/ BodyEnds
    \/ StreamBreaks

----------------------------------------------------------------------------
(* Properties *)

\* an event whose line came without a newline before the body ended
LeftOpen(i) == buf # <<>> /\ Last(buf).event = i /\ Last(buf).part # 3

\* the events the answer is made of: all those before the one that ends the
\* stream, for Ollama that one too, but no line left without its newline
Used ==
    {i \in DOMAIN sent :
        /\ sent[i].tag \notin {"junk", "error"}
        /\ \A j \in 1..(i - 1) : sent[j].tag # "end"
        /\ sent[i].tag = "end" => call.provider = "ollama"
        /\ ~LeftOpen(i)}

\* An accepted reply is the text of one attempt, whole and in order: no piece
\* of an earlier attempt that failed midway, none twice, none missing before
\* the end of the stream, whatever way the network cut it; it is never empty
\* and never one the provider stopped at its limit.  (A line an Ollama server
\* leaves without a newline is not part of it, and a character of several
\* bytes survives only if no cut falls inside it.)
ReplyIsWhole ==
    result.kind = "Ok" /\ pc = "done" =>
        LET pieces == result.text
            texts == {i \in Used : sent[i].text}
        IN  /\ pieces # <<>>
            /\ {pieces[k].event : k \in DOMAIN pieces} = texts
            /\ \A k \in DOMAIN pieces :
                  /\ pieces[k].attempt = attempt
                  /\ k > 1 => pieces[k - 1].event < pieces[k].event
                  /\ pieces[k].whole \/ sent[pieces[k].event].tag = "wide"
            /\ \A i \in Used : IsLengthStop(sent[i].stop) =>
                  \E j \in Used : i < j /\ sent[j].stop # None

\* Retries are earned and bounded: an attempt follows another only after an
\* error worth a retry, there are at most MaxRetries + 1 of them, and the
\* error that surfaces is the last one: wrapped as exhausted when it was
\* retried, under its own type when retrying is useless, so that a truncated
\* answer is still seen as one after a retry (run_inner and summarize match
\* on it).
RetriesAreEarned ==
    /\ attempt <= MaxRetries + 1
    /\ \A k \in 1..(attempt - 1) : failures[k].retryable
    /\ pc = "done" /\ attempt > 0 =>
         IF result.kind = "Ok" THEN Len(failures) = attempt - 1
         ELSE /\ Len(failures) = attempt
              /\ LET e == Last(failures)
                 IN  IF e.retryable
                     THEN /\ attempt = MaxRetries + 1
                          /\ attempt > 1 => result.kind = "Exhausted"
                     ELSE result = e

============================================================================
