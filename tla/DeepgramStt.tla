------------------------------ MODULE DeepgramStt ------------------------------
(***************************************************************************)
(* A Deferred SttProvider: Deepgram's streaming STT                        *)
(* (crates/vendor-deepgram/src/stt.rs) on the output queue that such       *)
(* providers share (crates/speech/src/stt_deferred.rs), as operators on    *)
(* one value, with the vendor at the other end of its socket. Each         *)
(* operator is one critical section of the provider's mutex.               *)
(* Audio is a chunk of an utterance; a text is the set of chunks it was    *)
(* heard in. Positions in the audio stream are counted in chunks, each of  *)
(* which is longer than the tolerance BOUNDARY_EPS_S.                      *)
(***************************************************************************)
EXTENDS Integers, Sequences, SequencesExt

Partial(text) == [kind |-> "partial", text |-> text]
Final(text) == [kind |-> "final", text |-> text]
FinalizeDone == [kind |-> "done", text |-> {}]
Failure == [kind |-> "failure", text |-> {}]

(***************************************************************************)
(* DeferredFinals                                                          *)
(***************************************************************************)
Finals0 == [queue |-> <<>>,       \* outputs the actor has not polled
            pending |-> 0,        \* finalizes requested and not answered
            segments |-> {}]      \* text of the utterance in progress

Interim(finals, text) ==
    IF text = {} THEN finals
    ELSE [finals EXCEPT !.queue = Append(@, Partial(finals.segments \union text))]

Segment(finals, text) ==
    IF text = {} THEN finals
    ELSE [finals EXCEPT !.segments = @ \union text,
                        !.queue = Append(@, Partial(finals.segments \union text))]

Request(finals) == [finals EXCEPT !.pending = @ + 1]

\* The n oldest finalizes are answered: the text so far goes to the first of
\* them, then one marker each.
Answer_DropsText(finals, n) ==
    IF n = 0 THEN finals
    ELSE [finals EXCEPT !.pending = @ - n,
                        !.queue = @ \o [i \in 1 .. n |-> FinalizeDone]]
Answer(finals, n) ==
    IF n = 0 THEN finals
    ELSE LET flushed == IF finals.segments = {} THEN <<>> ELSE <<Final(finals.segments)>>
         IN  [queue |-> finals.queue \o flushed \o [i \in 1 .. n |-> FinalizeDone],
              pending |-> finals.pending - n,
              segments |-> {}]

\* lost: an idle close is silent; text without a pending finalize is dropped.
Lost(finals) ==
    IF finals.pending = 0 /\ finals.segments = {} THEN finals
    ELSE LET failed == [finals EXCEPT !.queue = Append(@, Failure)]
         IN  IF finals.pending = 0
               THEN [failed EXCEPT !.segments = {}]
               ELSE Answer(failed, finals.pending)

\* What polling until nothing more or an error takes, and what it leaves.
FirstFailure(queue) == SelectInSeq(queue, LAMBDA item : item = Failure)
Polled(queue) == IF FirstFailure(queue) = 0 THEN queue ELSE SubSeq(queue, 1, FirstFailure(queue) - 1)
Unpolled(queue) == IF FirstFailure(queue) = 0 THEN <<>>
                   ELSE SubSeq(queue, FirstFailure(queue) + 1, Len(queue))

(***************************************************************************)
(* The provider                                                            *)
(***************************************************************************)
\* start: a fresh connection with empty books.
Opened == [alive |-> TRUE,
           finals |-> Finals0,
           pushed |-> 0,          \* chunks pushed on this connection
           boundary |-> 0,        \* of which before the last finalize
           socket |-> <<>>,       \* sent and not yet processed by the vendor
           heard |-> {},          \* vendor: audio without a final segment
           position |-> 0]        \* vendor: chunks processed

SocketAudio(chunk) == [kind |-> "audio", chunk |-> {chunk}]
SocketFinalize == [kind |-> "finalize", chunk |-> {}]

\* push_audio: a dead connection swallows the chunk.
PushAudio(stt, chunk) ==
    IF ~stt.alive THEN stt
    ELSE [stt EXCEPT !.socket = Append(@, SocketAudio(chunk)), !.pushed = @ + 1]

\* request_finalize, refused on a dead stream. With nothing pushed since the
\* last one there is no flush to wait for.
CanFinalize(stt) == stt.alive
RequestFinalize(stt) ==
    LET requested == Request(stt.finals)
        hadAudio == stt.pushed > stt.boundary
    IN  IF ~hadAudio /\ requested.segments = {}
          THEN [stt EXCEPT !.finals = Answer(requested, 1)]
          ELSE [stt EXCEPT !.finals = requested, !.boundary = stt.pushed,
                           !.socket = Append(@, SocketFinalize)]

\* on_results for the answer to a finalize, and for other results: what belongs
\* to a finalize already closed is dropped when none is pending.
OnFinalizeAnswer(finals, text) ==
    IF finals.pending = 0 THEN finals ELSE Answer(Segment(finals, text), 1)
IsLate(stt) == stt.finals.pending = 0 /\ stt.position <= stt.boundary
OnSegment(stt) == IF IsLate(stt) THEN stt.finals ELSE Segment(stt.finals, stt.heard)
OnInterim(stt) == IF IsLate(stt) THEN stt.finals ELSE Interim(stt.finals, stt.heard)

\* connection_lost: what is in the socket and at the vendor is gone.
ConnectionLost(stt) ==
    [stt EXCEPT !.alive = FALSE, !.finals = Lost(@), !.socket = <<>>, !.heard = {}]

(***************************************************************************)
(* The vendor, in the order of the socket                                  *)
(***************************************************************************)
VendorTakes(stt) == [stt EXCEPT !.socket = Tail(@)]
VendorHears(stt) ==
    [VendorTakes(stt) EXCEPT !.heard = @ \union Head(stt.socket).chunk, !.position = @ + 1]
VendorFinalizes(stt) ==
    [VendorTakes(stt) EXCEPT !.finals = OnFinalizeAnswer(@, stt.heard), !.heard = {}]
VendorSegments(stt) == [stt EXCEPT !.finals = OnSegment(stt), !.heard = {}]
VendorInterims(stt) == [stt EXCEPT !.finals = OnInterim(stt)]

=============================================================================
