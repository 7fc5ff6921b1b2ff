------------------------------- MODULE Agents -------------------------------
(***************************************************************************)
(* How the model answers (packages/integrations/src/gemini/client.ts):     *)
(* one call of an agent, its retries, the staging of a cut, and the        *)
(* streamed answer of the copilot.                                         *)
(*                                                                         *)
(* A call ends as [is |-> "answer", of |-> ...], "throttled" or "broken".  *)
(* A text is a sequence of pieces.                                         *)
(***************************************************************************)
EXTENDS Integers, SequencesExt

RateLimitAttempts == 5

Throttled == [is |-> "throttled", of |-> << >>]
Broken    == [is |-> "broken", of |-> << >>]
Answer(v) == [is |-> "answer", of |-> v]

---------------------------------------------------------------------------
(***************************************************************************)
(* One agent, run to its final response                                    *)
(***************************************************************************)
\* An event of a run: [error, mine, text].  `error' is "none" or how the turn
\* failed, `mine' says that the agent is its author.
Text(event) == IF event.mine THEN event.text ELSE << >>

\* The last thing the agent said, or how its first failed turn failed.  An
\* answer that is not among the texts fitting the stage's schema breaks the call.
RunAgent(events, fitting) ==
  LET failed == SelectInSeq(events, LAMBDA event : event.error # "none")
      said   == SelectLastInSeq(events, LAMBDA event : Text(event) # << >>)
  IN  IF failed # 0 THEN [is |-> events[failed].error, of |-> << >>]
      ELSE IF said = 0 \/ Text(events[said]) \notin fitting THEN Broken
      ELSE Answer(Text(events[said]))

\* A call the model's quota throttled is made again, five times at most; any
\* other failure is final.  `calls' are the outcomes of calls made in a row.
Structured(calls) ==
  LET last == SelectInSeq(calls, LAMBDA call : call.is # "throttled")
  IN  IF last \in 1 .. RateLimitAttempts + 1 THEN calls[last] ELSE Throttled

---------------------------------------------------------------------------
(***************************************************************************)
(* The cut                                                                 *)
(***************************************************************************)
\* A cut within the inline ceiling travels with the call.  A larger one is
\* uploaded, and asked about until the provider has processed it or `patience'
\* questions are over.  `states' are what the provider answers, the upload's
\* answer first; "limited" is its quota.
VideoPart(inline, states, patience) ==
  LET settled == SelectInSeq(states, LAMBDA state : state # "PROCESSING")
  IN  IF inline THEN Answer("inline")
      ELSE IF settled = 0 \/ settled > patience + 1 THEN Broken
      ELSE IF states[settled] = "limited" THEN Throttled
      ELSE IF states[settled] = "FAILED" THEN Broken
      ELSE Answer("staged")

\* The cut is staged before the call that is retried, and staged once.
ScanCut(inline, states, patience, calls) ==
  LET part == VideoPart(inline, states, patience)
  IN  IF part.is # "answer" THEN part ELSE Structured(calls)

---------------------------------------------------------------------------
(***************************************************************************)
(* streamCopilot                                                           *)
(***************************************************************************)
\* What is new in a text: events repeat the turn so far, or are taken as new.
Delta(emitted, text) ==
  IF IsPrefix(emitted, text) THEN SubSeq(text, Len(emitted) + 1, Len(text)) ELSE text

\* What has been emitted, and the deltas that were yielded.
Emit(state, event) ==
  LET delta == Delta(state.emitted, Text(event))
  IN  IF state.error # "none" THEN state
      ELSE IF event.error # "none" THEN [state EXCEPT !.error = event.error]
      ELSE IF delta = << >> \/ Text(event) = << >> THEN state
      ELSE [state EXCEPT !.emitted = @ \o delta, !.deltas = Append(@, delta)]

\* The deltas, and how the stream ends.
StreamCopilot(events) ==
  LET end == FoldLeft(Emit, [emitted |-> << >>, deltas |-> << >>, error |-> "none"], events)
  IN  [deltas |-> end.deltas,
       error  |-> IF end.error = "none" /\ end.emitted = << >> THEN "broken" ELSE end.error]

=============================================================================
