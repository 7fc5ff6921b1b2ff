------------------------------- MODULE Client -------------------------------
(***************************************************************************)
(* What the pages of apps/web make of what the API sends: its errors       *)
(* (apps/api/src/middleware/errors.ts), the proxy between them             *)
(* (app/api/[...path]/route.ts), answers of requests                       *)
(* (lib/api-client.ts), the stream of the copilot                          *)
(* (lib/project-actions.ts) and its sheet, and the dialog that starts a    *)
(* scan (features/uploads/new-scan-dialog.tsx).  Each keeps its state in   *)
(* the page only, so that it is the fold of what happened to it.           *)
(***************************************************************************)
EXTENDS Integers, SequencesExt

CONSTANT None   \* an absent value

---------------------------------------------------------------------------
(***************************************************************************)
(* Requests                                                                *)
(***************************************************************************)
\* What a handler may throw, by class and code.
Errors ==
  {[class |-> "api", code |-> code, status |-> status] :
     code \in {"asset_not_found", "duplicate"}, status \in {404, 409, 413, 416, 422}}
  \cup {[class |-> class, code |-> code] :
          class \in {"repository", "asset", "domain", "schema", "other"},
          code \in {"project_not_found", "asset_not_found", "invalid_asset_range",
                    "human_owned_status", "revision_conflict", "duplicate"}}

\* errorResponse
ErrorResponse(error) ==
  LET Coded(status) == [code |-> error.code, status |-> status]
  IN  CASE error.class = "api" -> Coded(error.status)
        [] error.class = "repository" -> Coded(IF error.code = "project_not_found" THEN 404 ELSE 500)
        [] error.class = "asset" ->
             Coded(CASE error.code = "asset_not_found" -> 404
                     [] error.code = "invalid_asset_range" -> 416
                     [] OTHER -> 400)
        [] error.class = "domain" ->
             Coded(CASE error.code = "human_owned_status" -> 403
                     [] error.code = "revision_conflict" -> 409
                     [] OTHER -> 422)
        [] error.class = "schema" -> [code |-> "validation_error", status |-> 422]
        [] error.class = "other" -> [code |-> "internal_error", status |-> 500]

\* The proxy drops the encoding the upstream named, which the runtime has
\* undone, and compresses what is not an event stream.
Proxied(response, acceptsGzip) ==
  [response EXCEPT !.encoding =
     IF acceptsGzip /\ response.type # "event-stream" THEN "gzip" ELSE None]

\* A response has [status, body]; a body is "blank", "page" (what is not
\* JSON), "problem" (an error of the API), "value" (what was asked for) or
\* "json" (any other).
ReadJsonBody(response) == IF response.body \in {"blank", "page"} THEN None ELSE response.body

\* apiRequest: the value, or the code of the error that is thrown.
ApiRequest(response) ==
  LET body == ReadJsonBody(response)
      ok   == response.status \in 200 .. 299
  IN  CASE ~ok /\ body = "problem" -> "problem"
        [] ~ok /\ body # "problem" -> "request_failed"
        [] ok /\ body = None       -> "unreadable_response"
        [] ok /\ body = "value"    -> "value"
        [] OTHER                   -> "schema"

---------------------------------------------------------------------------
(***************************************************************************)
(* The copilot's stream                                                    *)
(***************************************************************************)
NL == [end |-> "line"]

\* An event of the stream is [type, of]: a frame is a line with its type, a
\* line with its data, and a blank line.
Frame(event) == <<[type |-> event.type], NL, [data |-> event.of], NL, NL>>

\* The route: the deltas, and the citations or how the answer failed.
ChatStream(answer, citations) ==
  LET deltas == [n \in DOMAIN answer.deltas |-> [type |-> "delta", of |-> answer.deltas[n]]]
  IN  Append(deltas, IF answer.error = "none" THEN [type |-> "done", of |-> citations]
                     ELSE [type |-> "error", of |-> <<answer.error>>])

Wire(events) == FlattenSeq([n \in DOMAIN events |-> Frame(events[n])])

\* Where the first frame of a buffer ends, 0 if it has not.
Split(buffer) ==
  LET ends == {i \in 1 .. Len(buffer) - 1 : buffer[i] = NL /\ buffer[i + 1] = NL}
  IN  IF ends = {} THEN 0 ELSE Min(ends)

\* What a frame says. The API writes its data on one line.
Parse(frame) ==
  LET lines == SelectSeq(frame, LAMBDA piece : piece # NL)
      Of(field) == SelectSeq(lines, LAMBDA line : field \in DOMAIN line)
  IN  IF Of("data") = << >> THEN << >>
      ELSE <<[type |-> IF Of("type") = << >> THEN "message" ELSE Last(Of("type")).type,
              of   |-> Last(Of("data")).data]>>

\* Every frame that is complete, and what is left.
RECURSIVE Frames(_)
Frames(buffer) ==
  LET split == Split(buffer)
  IN  IF split = 0 THEN [said |-> << >>, left |-> buffer]
      ELSE LET rest == Frames(SubSeq(buffer, split + 2, Len(buffer)))
           IN  [rest EXCEPT !.said = Parse(SubSeq(buffer, 1, split - 1)) \o @]

\* The reader: chunks come as the network cut them.
Read(chunks) ==
  FoldLeft(LAMBDA state, chunk :
             LET next == Frames(state.left \o chunk)
             IN  [next EXCEPT !.said = state.said \o @],
           [said |-> << >>, left |-> << >>], chunks).said

\* The message of the sheet: deltas are appended, an error replaces them.
Heard(message, event) ==
  CASE event.type = "delta" -> [message EXCEPT !.text = @ \o event.of]
    [] event.type = "done"  -> [message EXCEPT !.cites = event.of, !.streaming = FALSE]
    [] event.type = "error" -> [message EXCEPT !.text = event.of, !.streaming = FALSE]
    [] OTHER -> message

\* send: the message when the stream is over.  `broke' says that reading it
\* threw, which is shown if nothing else is.
Send(chunks, broke) ==
  LET heard == FoldLeft(Heard, [text |-> << >>, cites |-> << >>, streaming |-> TRUE], Read(chunks))
  IN  [heard EXCEPT !.streaming = FALSE,
                    !.text = IF broke /\ @ = << >> THEN <<"broken">> ELSE @]

---------------------------------------------------------------------------
(***************************************************************************)
(* The dialog that starts a scan                                           *)
(***************************************************************************)
Slots == {"screenplay", "cut"}

EmptySlot == [file |-> None, status |-> "empty"]

\* What can happen to it: a file is chosen for a slot, which asks for its
\* preflight; a preflight answers, whatever the slot holds by then; a slot is
\* emptied.
Happens(form, act) ==
  LET Put(file, status) == [form EXCEPT ![act.slot] = [file |-> file, status |-> status]]
  IN  CASE act.type = "choose" -> Put(act.file, "checking")
        [] act.type = "answer" -> Put(act.file, IF act.accepted THEN "ready" ELSE "error")
        [] act.type = "remove" -> [form EXCEPT ![act.slot] = EmptySlot]

Form(acts) == FoldLeft(Happens, [slot \in Slots |-> EmptySlot], acts)

\* validScreenplay and validCut
Valid(form, slot) == IF form[slot].status = "ready" THEN form[slot].file ELSE None

CanSubmit(form) == \E slot \in Slots : Valid(form, slot) # None

=============================================================================
