---------------------------- MODULE MCAlgorithms ----------------------------
(***************************************************************************)
(* The algorithms that keep no state, over all short inputs: what TLC      *)
(* evaluates before it starts on the instance that extends this module.    *)
(***************************************************************************)
EXTENDS Transfers, SequencesExt

---------------------------------------------------------------------------
(***************************************************************************)
(* Transfers, with parts of 2 and 4 bytes, 3 of them at most               *)
(***************************************************************************)
Sizes   == 0 .. 40
Headers == [first : {Absent} \cup 0 .. 5, last : {Absent} \cup 0 .. 5] \cup {Absent, Malformed}

\* The parts are few enough, none is too small and none too many.
ASSUME PartsFit ==
  \A size \in Sizes \ {0} :
    /\ PartCount(size) \in 1 .. MaxParts /\ PartSize(size) >= MinPart
    /\ PartCount(size) * PartSize(size) >= size
    /\ (PartCount(size) - 1) * PartSize(size) < size

\* Whichever store keeps the file: the length an answer names is the length of
\* the range it names, and no store refuses what the API has accepted.
ASSUME AnswersAgree ==
  \A store \in Stores, header \in Headers, total \in 0 .. 4 :
    LET answer == CutResponse(store, header, total, total)
    IN  /\ answer.status = 206 =>
             /\ answer.range.start \in 0 .. total - 1 /\ answer.range.end \in 0 .. total - 1
             /\ answer.length = answer.range.end - answer.range.start + 1
        /\ answer.status = 416 <=> ApiRange(header, total) = Refused

\* What a store accepts it keeps whole.  What it refuses is gone, except that
\* the edge keeps it, under a key no record names.
ASSUME PutsAreWhole ==
  \A store \in Stores, declared, arrived \in 0 .. 2 :
    LET file == [size |-> arrived, type |-> "video", filename |-> "cut"]
        put  == Put(store, file, declared)
    IN  /\ put.accepted => Stat(store, put.kept, FALSE) = file /\ arrived = declared
        /\ ~put.accepted => put.kept = Absent \/ store = "r2"
        /\ put.accepted => ServedType("video", Stat(store, put.kept, TRUE)) = "video"

---------------------------------------------------------------------------
(***************************************************************************)
(* Agents                                                                  *)
(***************************************************************************)
A == INSTANCE Agents

Calls == [1 .. A!RateLimitAttempts + 2 -> {A!Answer(<< >>), A!Throttled, A!Broken}]

\* A throttled call is made again, five times at most, and no other is.
ASSUME RetriesAbsorb ==
  \A calls \in Calls :
    LET Made  == {n \in DOMAIN calls : \A m \in 1 .. n - 1 : calls[m] = A!Throttled}
        tries == {n \in Made : n <= A!RateLimitAttempts + 1}
    IN  \/ A!Structured(calls) # A!Throttled
           /\ \E n \in tries : calls[n] = A!Structured(calls)
        \/ A!Structured(calls) = A!Throttled /\ \A n \in tries : calls[n] = A!Throttled

Turns == {<<"a">>, <<"a", "b">>, <<"a", "b", "c">>, << >>}
Said(text) == [error |-> "none", mine |-> TRUE, text |-> text]
Speech == {[n \in DOMAIN texts |-> Said(texts[n])] : texts \in SeqOf(Turns, 4)}

\* When every event repeats the turn so far, the deltas say its longest once.
Grows(events) ==
  \A n \in 2 .. Len(events) : IsPrefix(events[n - 1].text, events[n].text)

ASSUME DeltasRestate ==
  \A events \in Speech : Grows(events) =>
    LET stream == A!StreamCopilot(events)
    IN  IF events # << >> /\ Last(events).text # << >>
        THEN stream.error = "none" /\ FlattenSeq(stream.deltas) = Last(events).text
        ELSE stream = [deltas |-> << >>, error |-> "broken"]

\* An agent answers with the last thing it said, and says nothing by failing.
ASSUME AgentsAnswer ==
  \A events \in Speech :
    LET answer == A!RunAgent(events, Turns)
        failed == A!RunAgent(Append(events, [Said(<<"a">>) EXCEPT !.error = "throttled"]),
                             Turns)
    IN  /\ answer.is = "answer" => \E n \in DOMAIN events : events[n].text = answer.of
        /\ answer.is = "broken" <=> \A n \in DOMAIN events : events[n].text = << >>
        /\ failed = A!Throttled

\* A cut that was not staged is not scanned, and a staged one is scanned as
\* any stage is.
ASSUME CutsAreStaged ==
  \A inline \in BOOLEAN, states \in SeqOf({"PROCESSING", "ACTIVE", "FAILED", "limited"}, 3) :
    LET scan == A!ScanCut(inline, states, 1, <<A!Answer(<<"found">>)>>)
    IN  scan.is = "answer" <=>
          \/ inline
          \/ states # << >> /\ states[1] = "ACTIVE"
          \/ Len(states) > 1 /\ states[1] = "PROCESSING" /\ states[2] = "ACTIVE"

---------------------------------------------------------------------------
(***************************************************************************)
(* Client                                                                  *)
(***************************************************************************)
C == INSTANCE Client WITH None <- Absent

\* Chunks: every way to cut a wire in three.
Cuts(wire) ==
  {<<SubSeq(wire, 1, i), SubSeq(wire, i + 1, j), SubSeq(wire, j + 1, Len(wire))>> :
     <<i, j>> \in {p \in (0 .. Len(wire)) \X (0 .. Len(wire)) : p[1] <= p[2]}}

Streamed(events) == C!ChatStream(A!StreamCopilot(events), <<"u1">>)

\* However the network cuts the stream, the sheet shows what the agent said
\* and the citations, or how it failed.
ASSUME SheetShowsAnswer ==
  \A events \in {<<Said(<<"a">>), Said(<<"a", "b">>)>>, << >>} :
    \A chunks \in Cuts(C!Wire(Streamed(events))) :
      LET message == C!Send(chunks, FALSE)
      IN  /\ ~message.streaming
          /\ IF events = << >> THEN message.text = <<"broken">> /\ message.cites = << >>
             ELSE message.text = Last(events).text /\ message.cites = <<"u1">>

\* A stream that is cut short shows part of the answer, and no citations.
ASSUME SheetShowsPart ==
  LET events == <<Said(<<"a">>), Said(<<"a", "b">>)>>
      wire   == C!Wire(Streamed(events))
  IN  \A n \in 0 .. Len(wire) - 1 :
        LET message == C!Send(<<SubSeq(wire, 1, n)>>, FALSE)
        IN  IsPrefix(message.text, <<"a", "b">>) /\ message.cites = << >>

\* The code of what a handler threw is the code the page is shown, also through
\* the proxy, and no error is taken for a value.
ASSUME ProblemsArrive ==
  \A error \in C!Errors, gzip \in BOOLEAN :
    LET answer == C!ErrorResponse(error)
        sent   == C!Proxied([status |-> answer.status, body |-> "problem", type |-> "json",
                             encoding |-> "gzip"], gzip)
    IN  answer.status >= 400 /\ C!ApiRequest(sent) = "problem"

\* A response names the encoding it has, and an event stream has none.
ASSUME StreamsStayPlain ==
  \A gzip \in BOOLEAN, type \in {"json", "event-stream"} :
    LET sent == C!Proxied([status |-> 200, body |-> "value", type |-> type, encoding |-> "gzip"], gzip)
    IN  sent.encoding \in {"gzip"} <=> gzip /\ type # "event-stream"

\* A value is only taken from an answer that is a success.
ASSUME ValuesAreAnswers ==
  \A status \in {200, 201, 404, 413, 502}, body \in {"blank", "page", "problem", "value", "json"} :
    C!ApiRequest([status |-> status, body |-> body]) = "value" <=> status < 300 /\ body = "value"

Files == {"one", "two"}
Acts  == [type : {"choose", "remove", "answer"}, slot : {"screenplay"}, file : Files,
          accepted : BOOLEAN]

\* A preflight answers once a file has been chosen, and always alike.
Possible(acts) ==
  \A n \in DOMAIN acts : acts[n].type = "answer" =>
    /\ \E m \in 1 .. n - 1 : acts[m].type = "choose" /\ acts[m].file = acts[n].file
    /\ acts[n].accepted = (acts[n].file = "one")

\* What the dialog lets a person submit has been accepted, also when answers
\* come late: two files chosen one after the other, or one that was removed.
ASSUME SubmitsAccepted ==
  \A acts \in {s \in SeqOf(Acts, 4) : Possible(s)} :
    C!Valid(C!Form(acts), "screenplay") \in {Absent, "one"}

---------------------------------------------------------------------------
(***************************************************************************)
(* Packet                                                                  *)
(***************************************************************************)
KeyOf == [label \in {"Film", " film", "tv", " "} |->
            IF label = " " THEN Absent ELSE IF label = "tv" THEN "tv" ELSE "film"]

P == INSTANCE Packet WITH None <- Absent, Key <- KeyOf

Dates  == {1, 2, Absent, Malformed}
Labels == {{}} \cup {{label} : label \in DOMAIN KeyOf}
Uses   == [media : Labels, territories : {{}, {"tv"}}, starts : Dates, ends : Dates]
Scopes == [media : Labels, territories : {{}, {"tv"}}, starts : Dates, ends : Dates,
           perpetual : BOOLEAN]

\* A document said to cover the use covers it as far as dates can be read;
\* one said not to has a gap to name.
ASSUME OutcomesHold ==
  \A use \in Uses, scope \in Scopes :
    LET assessment == P!AssessScope(use, scope)
    IN  /\ assessment.outcome = "covers" <=> assessment.gaps = {}
        /\ assessment.outcome = "covers" => P!Covers(use, scope)
        /\ assessment.outcome = "expired" <=>
             ~scope.perpetual /\ {scope.ends, use.starts} \subseteq Int /\ scope.ends < use.starts

Use       == [media |-> {"Film"}, territories |-> {}, starts |-> 1, ends |-> Absent]
Good      == [media |-> {" film"}, territories |-> {"tv"}, starts |-> Absent, ends |-> Absent,
              perpetual |-> TRUE]
Documents == {{}, {Good}, {Good, [Good EXCEPT !.media = {"tv"}]}}
Items     == [status : {"reopened_by_monitor", "unresolved", "evidence_ready", "counsel_approved"},
              error : BOOLEAN, documents : Documents, sources : {<< >>, <<"u", "v", "u">>}, name : {1}]
Projects  == {[phase |-> "ready", use |-> Use,
               items |-> <<one, [two EXCEPT !.name = 2]>>] : one, two \in Items}

\* A packet that does not warn its reader has nothing open, nothing without a
\* source and no document that falls short; every item is in it, those a
\* change reopened before those that wait for evidence and those a person
\* settled, and cites each source once.
ASSUME PacketsWarn ==
  \A project \in Projects :
    LET packet == P!PacketMarkdown(project)
        items  == ToSet(project.items)
    IN  /\ ~packet.banner => \A item \in items :
             /\ item.status \in {"evidence_ready", "counsel_approved"} /\ ~item.error
             /\ item.sources # << >>
             /\ \A document \in item.documents : P!Covers(Use, document)
        /\ {packet.sections[n].name : n \in {1, 2}} = {1, 2}
        /\ packet.sections[1].name = 2 =>
             P!Priority(project.items[2].status) < P!Priority(project.items[1].status)
        /\ \A n \in {1, 2} : packet.sections[n].sources \in {<< >>, <<"u", "v">>}

=============================================================================
