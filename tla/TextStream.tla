----------------------------- MODULE TextStream -----------------------------
(***************************************************************************)
(* The text of one streaming request, from the tokens the engine draws to  *)
(* the events its client reads: _publish_deltas, _complete and _fail_all   *)
(* of worker/server/batcher.py, the consumer stream(), and the two ways    *)
(* out: GenerateStream of worker.py with streamCompletion of the gateway,  *)
(* or _sse of api.py.                                                      *)
(*                                                                         *)
(* Module Batcher has the scheduler and every other request, and counts    *)
(* tokens.  Here there is one request and its text: a token is a string of *)
(* bytes that may end inside a character, so the text of a longer output   *)
(* need not begin with the text of a shorter one.                          *)
(***************************************************************************)
EXTENDS Naturals, Sequences

CONSTANTS
    Ascii,      \* characters of one byte
    Tokens,     \* byte strings of the vocabulary, EOS excepted
    Width,      \* bytes of a character that is not ASCII
    MaxTokens   \* the most tokens the request may draw

\* "lead" and "cont" are the first and the further bytes of a wide character;
\* what a text shows is that, or the replacement character for a broken one.
Bytes == Ascii \cup {"lead", "cont"}
Chars == Ascii \cup {"wide", "?"}

ASSUME StreamAssumption ==
    /\ Ascii \cap {"lead", "cont", "wide", "?"} = {}
    /\ \A t \in Tokens : t \in Seq(Bytes) /\ t # << >>
    /\ Width \in Nat \ {0, 1} /\ MaxTokens \in Nat \ {0}

VARIABLES
    route,      \* "gateway" (gRPC) or "http" (the worker's own server)
    step,       \* where the scheduler is with the request
    drawn,      \* len(seq.output_ids)
    output,     \* and their bytes
    finish,     \* seq.finish_reason
    published,  \* req.published_text
    items,      \* req.stream
    failed,     \* whether req.future holds an exception
    handler,    \* GenerateStream or _sse
    wire,       \* gRPC messages the gateway has not received
    gate,       \* streamCompletion
    online,     \* whether the client is still there
    got,        \* the text its events carried, joined
    ends        \* the events that carried none, and a cut

schedVars == <<step, drawn, output, finish, published, failed>>
outVars   == <<wire, gate, online, got, ends>>
vars == <<route, schedVars, items, handler, outVars>>

\* An item or a message is a text, or has none and says why: for a client
\* "error" is an SSE event, "cut" a connection closed without a word and
\* "refused" an HTTP error before the stream began.
Text(t) == [text |-> t, marks |-> << >>]
Mark(m) == [text |-> << >>, marks |-> <<m>>]

\* What _sse writes for a rejected request: an error, then [DONE].
Rejection == [text |-> << >>, marks |-> <<"error", "done">>]

End == Mark("sentinel")

\* The EOS token: decode() skips it.
EOS == << >>

-----------------------------------------------------------------------------
(* engine.decode, UTF-8 with errors replaced                               *)

\* A character still open shows as one replacement character.
Shown(d) == IF d.open > 0 THEN Append(d.text, "?") ELSE d.text

Read(d, byte) ==
    CASE byte = "cont" /\ d.open + 1 = Width ->
            [text |-> Append(d.text, "wide"), open |-> 0]
      [] byte = "cont" /\ d.open \in 1 .. Width - 2 ->
            [d EXCEPT !.open = @ + 1]
      [] byte = "cont" /\ d.open = 0 -> [d EXCEPT !.text = Append(@, "?")]
      [] byte = "lead" -> [text |-> Shown(d), open |-> 1]
      [] OTHER -> [text |-> Append(Shown(d), byte), open |-> 0]

Decode(bytes) ==
    LET after[n \in 0 .. Len(bytes)] ==
            IF n = 0 THEN [text |-> << >>, open |-> 0]
                     ELSE Read(after[n - 1], bytes[n])
    IN  Shown(after[Len(bytes)])

-----------------------------------------------------------------------------

Init ==
    /\ route \in {"gateway", "http"}
    /\ step = "unknown"
    /\ drawn = 0 /\ output = << >> /\ finish = "none"
    /\ published = << >> /\ items = << >> /\ failed = FALSE
    /\ handler = "new"
    /\ wire = << >>
    /\ gate = IF route = "gateway" THEN "new" ELSE "closed"
    /\ online = TRUE
    /\ got = << >> /\ ends = << >>

(* The scheduler and the engine, as this request sees them *)

\* Mutant: the budget is tested before the new token is counted.
EngineStepLate ==
    /\ step \in {"queued", "decode"}
    /\ step' = "publish"
    /\ IF finish = "none"
       THEN \E t \in Tokens \cup {EOS} :
               /\ drawn' = drawn + 1 /\ output' = output \o t
               /\ finish' = IF t = EOS THEN "stop"
                            ELSE IF drawn >= MaxTokens THEN "length"
                            ELSE "none"
       ELSE UNCHANGED <<drawn, output, finish>>
    /\ UNCHANGED <<route, published, failed, items, handler, outVars>>

\* admit() or decode_step() draws a token, unless the row was abandoned.
EngineStep ==
    /\ step \in {"queued", "decode"}
    /\ step' = "publish"
    /\ IF finish = "none"
       THEN \E t \in Tokens \cup {EOS} :
               /\ drawn' = drawn + 1 /\ output' = output \o t
               /\ finish' = IF t = EOS THEN "stop"
                            ELSE IF drawn' >= MaxTokens THEN "length"
                            ELSE "none"
       ELSE UNCHANGED <<drawn, output, finish>>
    /\ UNCHANGED <<route, published, failed, items, handler, outVars>>

\* What text has beyond the length of the text published before.
Delta(text) ==
    LET rest == SubSeq(text, Len(published) + 1, Len(text))
    IN  IF rest = << >> THEN << >> ELSE <<Text(rest)>>

\* Mutant: the consumer is sent the whole text at every step.
PublishWhole ==
    /\ step = "publish"
    /\ step' = "evict"
    /\ items' = Append(items, Text(Decode(output)))
    /\ UNCHANGED <<route, drawn, output, finish, published, failed, handler, outVars>>

PublishDeltas ==
    /\ step = "publish"
    /\ step' = "evict"
    /\ items' = items \o Delta(Decode(output))
    /\ published' = Decode(output)
    /\ UNCHANGED <<route, drawn, output, finish, failed, handler, outVars>>

\* An unfinished row goes on to the next step ...
Keep ==
    /\ step = "evict" /\ finish = "none"
    /\ step' = "decode"
    /\ UNCHANGED <<route, drawn, output, finish, published, failed, items, handler,
                   outVars>>

\* ... a finished one is completed: what is left of its text, then the end.
Complete ==
    /\ step = "evict" /\ finish # "none"
    /\ step' = "over"
    /\ items' = items \o Delta(Decode(output)) \o <<End>>
    /\ published' = Decode(output)
    /\ UNCHANGED <<route, drawn, output, finish, failed, handler, outVars>>

\* Mutant: the consumers of what was in flight get no sentinel.
FailAllSilently ==
    /\ step \in {"queued", "decode", "evict"}
    /\ step' = "over" /\ failed' = TRUE
    /\ UNCHANGED <<route, drawn, output, finish, published, items, handler, outVars>>

\* An engine call raises, which fails all that is in flight.
FailAll ==
    /\ step \in {"queued", "decode", "evict"}
    /\ step' = "over" /\ failed' = TRUE
    /\ items' = Append(items, End)
    /\ UNCHANGED <<route, drawn, output, finish, published, handler, outVars>>

-----------------------------------------------------------------------------
(* The worker's handler *)

\* A message reaches a client that is there to read it.
Pass(m) ==
    IF online
    THEN got' = got \o m.text /\ ends' = ends \o m.marks
    ELSE UNCHANGED <<got, ends>>

\* What the handler writes goes to the gateway, or straight to the client.
Write(m) ==
    IF route = "gateway"
    THEN wire' = Append(wire, m) /\ UNCHANGED <<gate, online, got, ends>>
    ELSE Pass(m) /\ UNCHANGED <<wire, gate, online>>

\* An exception leaves the handler: gRPC sends a status, while the response
\* of the HTTP server, its headers sent, can only be cut.
WriteError == Write(Mark(IF route = "gateway" THEN "error" ELSE "cut"))

\* _abandon: out of the queue, or marked for the next eviction.
Abandon ==
    /\ step' = IF step = "queued" THEN "over" ELSE step
    /\ finish' = IF step \notin {"queued", "over"} /\ finish = "none"
                 THEN "abandoned" ELSE finish
    /\ UNCHANGED <<drawn, output, published, failed, items>>

\* stream() is called: the queue takes the request, or is full.
Submit ==
    /\ handler = "new" /\ gate # "new" /\ (online \/ route = "gateway")
    /\ \/ /\ handler' = "waiting" /\ step' = "queued"
          /\ UNCHANGED outVars
       \/ /\ handler' = "ended" /\ UNCHANGED step
          /\ Write(IF route = "gateway" THEN Mark("error") ELSE Rejection)
    /\ UNCHANGED <<route, drawn, output, finish, published, failed, items>>

\* Mutant: the sentinel hides the future's exception.
ReceiveNoError ==
    /\ handler = "waiting" /\ items # << >>
    /\ items' = Tail(items)
    /\ IF Head(items) # End
       THEN Write(Head(items)) /\ UNCHANGED handler
       ELSE handler' = "ended" /\ Write(Mark("done"))
    /\ UNCHANGED <<route, schedVars>>

\* The consumer takes the next item.  At the sentinel stream() raises the
\* future's exception, or ends and the handler writes the end of the stream;
\* the chunk without text that _sse sends first changes nothing for a client.
Receive ==
    /\ handler = "waiting" /\ items # << >>
    /\ items' = Tail(items)
    /\ IF Head(items) # End
       THEN Write(Head(items)) /\ UNCHANGED handler
       ELSE /\ handler' = "ended"
            /\ IF failed THEN WriteError ELSE Write(Mark("done"))
    /\ UNCHANGED <<route, schedVars>>

\* request_timeout_s passes without an item.
Timeout ==
    /\ handler = "waiting"
    /\ handler' = "ended"
    /\ Abandon
    /\ WriteError
    /\ UNCHANGED route

\* The other end of the call is gone, and the handler is cancelled.  At its
\* yield no handler of stream() sees that, and the request goes on.
Cancelled ==
    /\ handler = "waiting"
    /\ IF route = "gateway" THEN gate = "closed" ELSE ~online
    /\ handler' = "ended"
    /\ Abandon \/ UNCHANGED <<schedVars, items>>
    /\ UNCHANGED <<route, outVars>>

\* The worker process dies; what it had written may still arrive.
Crash ==
    /\ handler = "waiting"
    /\ handler' = "ended" /\ step' = "over"
    /\ WriteError
    /\ UNCHANGED <<route, drawn, output, finish, published, failed, items>>

-----------------------------------------------------------------------------
(* streamCompletion, and the client *)

\* The call is opened, or fails before the headers are written.
Open ==
    /\ gate = "new"
    /\ \/ gate' = "reading" /\ UNCHANGED <<handler, got, ends>>
       \/ /\ gate' = "closed" /\ handler' = "ended"
          /\ Pass(Mark("refused"))
    /\ UNCHANGED <<route, schedVars, items, wire, online>>

\* Mutant: after an error the loop is left as after the last token.
RelayOn ==
    /\ gate = "reading" /\ wire # << >>
    /\ wire' = Tail(wire)
    /\ gate' = IF Head(wire).marks = << >> THEN "reading" ELSE "closed"
    /\ Pass(IF Head(wire) = Mark("error") THEN Rejection ELSE Head(wire))
    /\ UNCHANGED <<route, schedVars, items, handler, online>>

\* Recv: a token is flushed to the client, Done ends the stream with [DONE],
\* an error is written in-band and ends it without.
Relay ==
    /\ gate = "reading" /\ wire # << >>
    /\ wire' = Tail(wire)
    /\ gate' = IF Head(wire).marks = << >> THEN "reading" ELSE "closed"
    /\ Pass(Head(wire))
    /\ UNCHANGED <<route, schedVars, items, handler, online>>

\* Recv fails here: the deadline passes, the client's context is cancelled or
\* the connection breaks, and tokens not yet received are lost.
GiveUp ==
    /\ gate = "reading"
    /\ gate' = "closed" /\ wire' = << >>
    /\ Pass(Mark("error"))
    /\ UNCHANGED <<route, schedVars, items, handler, online>>

HangUp ==
    /\ online
    /\ online' = FALSE
    /\ UNCHANGED <<route, schedVars, items, handler, wire, gate, got, ends>>

-----------------------------------------------------------------------------

Loop == EngineStep \/ PublishDeltas \/ Keep \/ Complete
Serving == Submit \/ Receive \/ Cancelled
Gate == Open \/ Relay

Next ==
    \/ EngineStep \/ PublishDeltas \/ Keep \/ Complete \/ FailAll
    \/ Submit \/ Receive \/ Timeout \/ Cancelled \/ Crash
    \/ Open \/ Relay \/ GiveUp \/ HangUp

Spec == Init /\ [][Next]_vars

(***************************************************************************)
(* Fairness.  The scheduler, the event loop and the gateway's goroutine    *)
(* run.  Deadlines, errors and departures are possible and never forced.   *)
(***************************************************************************)
FairSpec == Spec /\ WF_vars(Loop) /\ WF_vars(Serving) /\ WF_vars(Gate)

-----------------------------------------------------------------------------
(* Properties *)

Marks == {"sentinel", "done", "error", "cut", "refused"}
Messages == [text : Seq(Chars), marks : Seq(Marks)]

\* Every variable has its type.
TypeOK ==
    /\ route \in {"gateway", "http"}
    /\ step \in {"unknown", "queued", "decode", "publish", "evict", "over"}
    /\ drawn \in 0 .. MaxTokens
    /\ output \in Seq(Bytes) /\ published \in Seq(Chars)
    /\ finish \in {"none", "stop", "length", "abandoned"}
    /\ items \in Seq(Messages) /\ wire \in Seq(Messages)
    /\ failed \in BOOLEAN /\ online \in BOOLEAN
    /\ handler \in {"new", "waiting", "ended"}
    /\ gate \in {"new", "reading", "closed"}
    /\ got \in Seq(Chars) /\ ends \in Seq(Marks)

\* What a client may have read where the output has d: the very character, or
\* the replacement character if d is a wide one that came in pieces.
Shows(c, d) == c = d \/ (c = "?" /\ d = "wide")

\* However its chunks were cut, the client's text lines up with the text of
\* the output: no character is missing, repeated or out of place, and where
\* the two differ the output has a wide character and the client was shown the
\* replacement character.
LinesUp ==
    LET whole == Decode(output)
    IN  /\ Len(got) <= Len(whole)
        /\ \A i \in DOMAIN got : Shows(got[i], whole[i])

\* [DONE] and no error says that the generation ran to its own end and that the
\* client has its text from the first character to the last, on either route,
\* whole but for wide characters that were shown as replacement characters.
DoneMeansWhole ==
    ends = <<"done">> =>
        LET whole == Decode(output)
        IN  /\ finish \in {"stop", "length"}
            /\ Len(got) = Len(whole)
            /\ \A i \in DOMAIN got : Shows(got[i], whole[i])

\* A stream ends once: one [DONE], error or cut, and nothing after it, but for
\* the error and [DONE] that _sse writes together after a rejection.
EndsOnce ==
    [][/\ ends # << >> => UNCHANGED <<got, ends>>
       /\ Len(ends') > 1 => route = "http" /\ got = << >>]_vars

\* A client that stays is told how its stream ended, with no deadline's help.
Ends == <>(~online \/ ends # << >>)

-----------------------------------------------------------------------------
(* What a test says and the code does not guarantee *)

\* test_batcher.py:115, "stream deltas reassemble into the full text".
Reassembles == ends = <<"done">> => got = Decode(output)
=============================================================================
