-------------------------- MODULE FlightHtmlStream --------------------------
(***************************************************************************)
(* The document response: the server's TransformStream writes every Flight *)
(* chunk as an inline script between pieces of the HTML that React renders *)
(* and holds the closing tags back for the end.  The browser runs the      *)
(* scripts while it parses and feeds a Flight stream of its own with them. *)
(*                                                                         *)
(* The stream's queues have their default sizes: the transformer is given  *)
(* a chunk only while the consumer waits for output, and one write ends    *)
(* that wait.                                                              *)
(***************************************************************************)
EXTENDS Naturals, Sequences

CONSTANTS
  Documents,     (* HTML documents: sequences of bytes, each with the      *)
                 (* number of the batch that React renders it in           *)
  FlightChunks   (* how many chunks the Flight stream has                  *)

(* The closing tags, in pieces: "</", "body>", "</" and "html>".  A        *)
(* document has the first piece in many places, the trailer in two.        *)
Trailer == <<"open", "body", "open", "html">>
Bytes == {"text", "open", "body", "html"}

ASSUME StreamAssumption ==
  /\ \A d \in Documents :
       /\ d \in Seq([byte : Bytes, batch : Nat])
       /\ \A i, j \in DOMAIN d : i <= j => d[i].batch <= d[j].batch
  /\ FlightChunks \in Nat

VARIABLES
  document,       (* the HTML, and how much of it React rendered           *)
  rendered,
  arriving,       (* rendered HTML that the transformer was not given      *)
  buffered,       (* bufferedHtml                                          *)
  tail,           (* the HTML writer's tail                                *)
  flushScheduled,
  sleeping,       (* a timer runs                                          *)
  reader,         (* the Flight side: "idle", "reading" or "released"      *)
  embedded,       (* Flight chunks that were read                          *)
  completion,     (* flightCompletion is resolved                          *)
  stream,         (* "open", "flushing", "closed" or "errored"             *)
  output,         (* everything enqueued                                   *)
  wanted,         (* the consumer waits for output                         *)
  lagging,        (* it may be slower than the server's event loop         *)
  parsed,         (* browser: how much of the output it parsed             *)
  loaded,         (* the document is no longer loading                     *)
  attached,       (* the client replaced queue.push                        *)
  queue,          (* window.__FLIGHT_DATA                                  *)
  received,       (* chunks in the browser's Flight stream                 *)
  ended           (* which was closed                                      *)

htmlVars == <<buffered, tail, flushScheduled, sleeping>>
flightVars == <<reader, embedded, completion>>
sourceVars == <<document, rendered, arriving>>
browserVars == <<parsed, loaded, attached, queue, received, ended>>
vars == <<sourceVars, htmlVars, flightVars, stream, output, wanted, lagging, browserVars>>

(* A byte of HTML and its place in the document, or a script and its       *)
(* chunk.                                                                  *)
Item(byte, at) == [byte |-> byte, at |-> at]
Script(chunk) == Item("script", chunk)
IsScript(item) == item.byte = "script"
Batch(item) == document[item.at].batch

Init ==
  /\ document \in Documents
  /\ rendered = 0
  /\ arriving = <<>>
  /\ buffered = <<>>
  /\ tail = <<>>
  /\ flushScheduled = FALSE
  /\ sleeping = FALSE
  /\ reader = "idle"
  /\ embedded = 0
  /\ completion = FALSE
  /\ stream = "open"
  /\ output = <<>>
  /\ wanted = FALSE
  /\ lagging \in BOOLEAN
  /\ parsed = 0
  /\ loaded = FALSE
  /\ attached = FALSE
  /\ queue = <<>>
  /\ received = <<>>
  /\ ended = FALSE

-----------------------------------------------------------------------------
(* The HTML side.                                                          *)

Html(from, to) == [i \in 1..(to - from) |-> Item(document[from + i].byte, from + i)]

(* React enqueues the chunks of one batch in a row.                        *)
RenderHtml ==
  /\ stream = "open"
  /\ \E n \in (rendered + 1)..Len(document) :
       /\ document[n].batch = document[rendered + 1].batch
       /\ n < Len(document) => document[n + 1].batch # document[n].batch
       /\ arriving' = arriving \o Html(rendered, n)
       /\ rendered' = n
  /\ UNCHANGED <<document, htmlVars, flightVars, stream, output, wanted, lagging, browserVars>>

Transformable == stream = "open" /\ arriving # <<>> /\ wanted

(* The first n bytes that arrive are one chunk, wherever React splits.     *)
TakeChunk(n) ==
  /\ n \in DOMAIN arriving
  /\ Batch(arriving[n]) = Batch(arriving[1])
  /\ arriving' = SubSeq(arriving, n + 1, Len(arriving))

(* Mutant of Transform: what arrives is enqueued at once.                  *)
TransformUnbuffered ==
  /\ Transformable
  /\ \E n \in 1..Len(arriving) :
       TakeChunk(n) /\ output' = output \o SubSeq(arriving, 1, n)
  /\ wanted' = FALSE
  /\ flushScheduled' = TRUE
  /\ sleeping' = TRUE
  /\ UNCHANGED <<document, rendered, buffered, tail, flightVars, stream, lagging, browserVars>>

Transform ==
  /\ Transformable
  /\ \E n \in 1..Len(arriving) :
       TakeChunk(n) /\ buffered' = buffered \o SubSeq(arriving, 1, n)
  /\ flushScheduled' = TRUE
  /\ sleeping' = (sleeping \/ ~flushScheduled)
  /\ UNCHANGED <<document, rendered, tail, flightVars, stream, output, wanted, lagging, browserVars>>

(* Whether the last n items are the beginning of the trailer.              *)
Ends(items, n) ==
  n <= Len(items) /\ \A i \in 1..n : items[Len(items) - n + i].byte = Trailer[i]

(* How many of the last items may be the beginning of the trailer.         *)
TrailerPrefixLength(items) ==
  CHOOSE n \in 0..Len(Trailer) :
    /\ Ends(items, n)
    /\ \A m \in 0..Len(Trailer) : Ends(items, m) => m <= n

Combined == tail \o buffered
BodyLength == Len(Combined) - TrailerPrefixLength(Combined)

(* Mutant of FlushHtml: a held-back tail is forgotten.                     *)
FlushWithoutTail ==
  /\ buffered' = <<>>
  /\ tail' = SubSeq(buffered, Len(buffered) - TrailerPrefixLength(buffered) + 1, Len(buffered))
  /\ output' = output \o SubSeq(buffered, 1, Len(buffered) - TrailerPrefixLength(buffered))
  /\ wanted' = (wanted /\ output' = output)

FlushHtml ==
  /\ buffered' = <<>>
  /\ tail' = SubSeq(Combined, BodyLength + 1, Len(Combined))
  /\ output' = output \o SubSeq(Combined, 1, BodyLength)
  /\ wanted' = (wanted /\ BodyLength = 0)

StartFlight == reader' = IF reader = "idle" THEN "reading" ELSE reader

(* The timer of one turn of the event loop.  The chunks that the           *)
(* transformer can be given come first; an eager consumer is waiting by    *)
(* then.  Enqueueing into a stream that failed throws, and fail resolves   *)
(* flightCompletion.                                                       *)
TimerFires ==
  /\ sleeping
  /\ ~Transformable
  /\ lagging \/ wanted \/ stream = "errored"
  /\ sleeping' = FALSE
  /\ flushScheduled' = FALSE
  /\ \/ /\ flushScheduled
        /\ stream # "errored" \/ BodyLength = 0
        /\ FlushHtml
        /\ StartFlight
        /\ UNCHANGED completion
     \/ /\ flushScheduled
        /\ stream = "errored" /\ BodyLength > 0
        /\ completion' = TRUE
        /\ UNCHANGED <<buffered, tail, output, wanted, reader>>
     \/ /\ ~flushScheduled
        /\ UNCHANGED <<buffered, tail, output, wanted, reader, completion>>
  /\ UNCHANGED <<sourceVars, embedded, stream, lagging, browserVars>>

(* Mutant of Flush: Flight starts only with HTML that was written.         *)
FlushAlone ==
  /\ stream = "open"
  /\ rendered = Len(document)
  /\ arriving = <<>>
  /\ stream' = "flushing"
  /\ flushScheduled' = FALSE
  /\ IF flushScheduled THEN FlushHtml ELSE UNCHANGED <<buffered, tail, output, wanted>>
  /\ UNCHANGED <<sourceVars, sleeping, flightVars, lagging, browserVars>>

(* React has rendered everything and every chunk was transformed.          *)
Flush ==
  /\ stream = "open"
  /\ rendered = Len(document)
  /\ arriving = <<>>
  /\ stream' = "flushing"
  /\ flushScheduled' = FALSE
  /\ IF flushScheduled THEN FlushHtml ELSE UNCHANGED <<buffered, tail, output, wanted>>
  /\ StartFlight
  /\ UNCHANGED <<sourceVars, sleeping, embedded, completion, lagging, browserVars>>

(* A tail that is not the whole trailer was part of the document, and goes *)
(* before it.                                                              *)
Finish ==
  /\ stream = "flushing"
  /\ completion
  /\ stream' = "closed"
  /\ LET whole == Len(tail) = Len(Trailer)
         place == IF whole THEN Len(document) - Len(Trailer) ELSE Len(document)
     IN output' = output \o (IF whole THEN <<>> ELSE tail)
                         \o [i \in DOMAIN Trailer |-> Item(Trailer[i], place + i)]
  /\ wanted' = FALSE
  /\ UNCHANGED <<sourceVars, htmlVars, flightVars, lagging, browserVars>>

-----------------------------------------------------------------------------
(* The Flight side: one script per chunk that readMany returns.            *)

EmbedChunk ==
  /\ reader = "reading"
  /\ embedded < FlightChunks
  /\ stream # "errored"
  /\ embedded' = embedded + 1
  /\ output' = Append(output, Script(embedded'))
  /\ wanted' = FALSE
  /\ UNCHANGED <<sourceVars, htmlVars, reader, completion, stream, lagging, browserVars>>

(* Enqueueing into a stream that failed throws; the source is cancelled.   *)
CancelFlight ==
  /\ reader = "reading"
  /\ embedded < FlightChunks
  /\ stream = "errored"
  /\ embedded' = embedded + 1
  /\ reader' = "released"
  /\ completion' = TRUE
  /\ UNCHANGED <<sourceVars, htmlVars, stream, output, wanted, lagging, browserVars>>

EndFlight ==
  /\ reader = "reading"
  /\ embedded = FlightChunks
  /\ reader' = "released"
  /\ completion' = TRUE
  /\ UNCHANGED <<sourceVars, htmlVars, embedded, stream, output, wanted, lagging, browserVars>>

FailFlight ==
  /\ reader = "reading"
  /\ reader' = "released"
  /\ completion' = TRUE
  /\ stream' = "errored"
  /\ UNCHANGED <<sourceVars, htmlVars, embedded, output, wanted, lagging, browserVars>>

(* The consumer cancels, or React's stream fails.                          *)
Abort ==
  /\ stream \in {"open", "flushing"}
  /\ stream' = "errored"
  /\ UNCHANGED <<sourceVars, htmlVars, flightVars, output, wanted, lagging, browserVars>>

-----------------------------------------------------------------------------
(* The consumer: the network and the browser behind it.                    *)

Want ==
  /\ parsed = Len(output)
  /\ stream \in {"open", "flushing"}
  /\ ~wanted
  /\ wanted' = TRUE
  /\ UNCHANGED <<sourceVars, htmlVars, flightVars, stream, output, lagging, browserVars>>

(* A script pushes its chunk.                                              *)
Parse ==
  /\ parsed < Len(output)
  /\ ~loaded
  /\ parsed' = parsed + 1
  /\ LET item == output[parsed + 1]
     IN /\ received' = IF IsScript(item) /\ attached THEN Append(received, item.at) ELSE received
        /\ queue' = IF IsScript(item) /\ ~attached THEN Append(queue, item.at) ELSE queue
  /\ UNCHANGED <<sourceVars, htmlVars, flightVars, stream, output, wanted, lagging,
                 loaded, attached, ended>>

(* A response that broke off ends the document as well.                    *)
DocumentParsed ==
  /\ ~loaded
  /\ \/ stream = "closed" /\ parsed = Len(output)
     \/ stream = "errored"
  /\ loaded' = TRUE
  /\ ended' = attached
  /\ UNCHANGED <<sourceVars, htmlVars, flightVars, stream, output, wanted, lagging,
                 parsed, attached, queue, received>>

(* Mutant of Attach: it does not ask whether the document is loading.      *)
AttachAndClose ==
  /\ ~attached
  /\ parsed > 0
  /\ attached' = TRUE
  /\ received' = queue
  /\ queue' = <<>>
  /\ ended' = TRUE
  /\ UNCHANGED <<sourceVars, htmlVars, flightVars, stream, output, wanted, lagging, parsed, loaded>>

(* The client's script, which the head names, runs.                        *)
Attach ==
  /\ ~attached
  /\ parsed > 0
  /\ attached' = TRUE
  /\ received' = queue
  /\ queue' = <<>>
  /\ ended' = loaded
  /\ UNCHANGED <<sourceVars, htmlVars, flightVars, stream, output, wanted, lagging, parsed, loaded>>

Next ==
  \/ RenderHtml \/ Transform \/ TimerFires \/ Flush \/ Finish
  \/ EmbedChunk \/ CancelFlight \/ EndFlight \/ FailFlight \/ Abort
  \/ Want \/ Parse \/ DocumentParsed \/ Attach

Spec == Init /\ [][Next]_vars

(* React renders, Flight ends, timers fire, and the consumer reads on.     *)
FairSpec ==
  /\ Spec
  /\ WF_vars(RenderHtml) /\ WF_vars(Transform) /\ WF_vars(TimerFires)
  /\ WF_vars(Flush) /\ WF_vars(Finish)
  /\ WF_vars(EmbedChunk) /\ WF_vars(CancelFlight) /\ WF_vars(EndFlight)
  /\ WF_vars(Want) /\ WF_vars(Parse) /\ WF_vars(DocumentParsed) /\ WF_vars(Attach)

-----------------------------------------------------------------------------
(* The document with its closing tags, added if it has none.               *)
CompletedLength ==
  IF Ends(document, Len(Trailer)) THEN Len(document) ELSE Len(document) + Len(Trailer)

CompletedByte(i) ==
  IF i <= Len(document) THEN document[i].byte ELSE Trailer[i - Len(document)]

Scripts == {i \in DOMAIN output : IsScript(output[i])}
HtmlItems == DOMAIN output \ Scripts

(* What the items at the given places of the output stand for: the first   *)
(* n of their kind, each once and in order.                                *)
InOrder(places, n) ==
  /\ {output[i].at : i \in places} = 1..n
  /\ \A i, j \in places : i < j => output[i].at < output[j].at

(* Types of the state.                                                     *)
TypeOK ==
  /\ document \in Documents
  /\ rendered \in 0..Len(document)
  /\ embedded \in 0..FlightChunks
  /\ reader \in {"idle", "reading", "released"}
  /\ stream \in {"open", "flushing", "closed", "errored"}
  /\ Len(tail) <= Len(Trailer) /\ Ends(tail, Len(tail))
  /\ {flushScheduled, sleeping, completion, wanted, lagging, loaded, attached, ended} \subseteq BOOLEAN
  /\ parsed \in 0..Len(output)

(* The HTML goes out as it was rendered, in order, with the closing tags   *)
(* once at its end, however chunks split them and timers fell.             *)
HtmlIntact ==
  /\ \E n \in 0..CompletedLength :
       InOrder(HtmlItems, n) /\ (stream = "closed" => n = CompletedLength)
  /\ \A i \in HtmlItems : output[i].byte = CompletedByte(output[i].at)

(* A response that ends well has every Flight chunk in order, all of them  *)
(* before the closing tags.                                                *)
FlightInsideBody ==
  /\ \E n \in 0..FlightChunks :
       InOrder(Scripts, n) /\ (stream = "closed" => n = FlightChunks)
  /\ stream = "closed" => Ends(output, Len(Trailer))

(* The document survives the Flight embedded in it: no byte of the HTML is *)
(* lost, repeated or displaced, and no Flight is lost or comes too late.   *)
DocumentIntact == HtmlIntact /\ FlightInsideBody

(* Some text of the batch is on each side of the script.                   *)
Splits(script) ==
  \E i, j \in DOMAIN output :
    /\ i < script /\ script < j
    /\ output[i].byte = "text" /\ output[j].byte = "text"
    /\ Batch(output[i]) = Batch(output[j])

(* tests/server/flight-html-stream.test.ts: "interleaves Flight only       *)
(* between complete HTML batches".                                         *)
FlightBetweenBatches ==
  \A s \in DOMAIN output : IsScript(output[s]) => ~Splits(s)

(* No script lands inside a batch while the consumer keeps up.             *)
EagerFlightBetweenBatches == ~lagging => FlightBetweenBatches

(* The browser's stream gets the chunks in order whenever the client       *)
(* attaches, and a complete document never closes it early.                *)
FlightReachesBrowser ==
  /\ \E n \in 0..FlightChunks : received \o queue = [i \in 1..n |-> i]
  /\ ended /\ stream # "errored" => Len(received) = FlightChunks

(* The response ends, and hydration is never left waiting for more Flight. *)
ResponseSettles ==
  /\ <>(stream \in {"closed", "errored"})
  /\ attached ~> ended
=============================================================================
