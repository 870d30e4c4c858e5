------------------------------ MODULE Material ------------------------------
(***************************************************************************)
(* What is made of one document for one reader: spoken overviews           *)
(* (controllers/audio_overview.go), slides with their speech               *)
(* (presentation.go), summaries kept in Redis (summary.go), the mind map   *)
(* (studytools.go) and extractions, whole or as a stream of events         *)
(* (extract.go, extract_stream.go).                                        *)
(*                                                                         *)
(* An overview and slides are rows: a handler inserts a pending row and    *)
(* leaves a goroutine that ends it.  A reader without access, a document   *)
(* without text and a request that does not parse change nothing.          *)
(***************************************************************************)
EXTENDS Naturals, Sequences, FiniteSets

CONSTANTS
    Handlers,       \* requests at work at a time
    MaxParts,       \* lines of a script, slides of a presentation
    Polls,          \* times FPT's address is asked for the speech (20 in the code)
    MaxRows, MaxRequests, MaxFaults,    \* bounds on the model
    None

MaterialAssumption ==
    /\ MaxParts \in Nat /\ Polls \in Nat \ {0}
    /\ MaxRows \in Nat \ {0} /\ MaxRequests \in Nat /\ MaxFaults \in Nat

Kinds == {"audio", "slides"}
Modes == {"quick", "academic"}
Extractions == {"keywords", "formulas", "mindmap", "timeline", "compare"}

VARIABLES
    rows,           \* audio_overviews and study_presentations, the newest last, with their goroutines
    summary,        \* summary:<mode>:<document>:<persona>
    mindmap,        \* mindmap:<document>
    h, begun, faults,
    shown,          \* history: what QuickSummary gave last
    abandoned       \* history: rows whose goroutine was killed, or its last UPDATE failed

vars == <<rows, summary, mindmap, h, begun, faults, shown, abandoned>>

Idle == [op |-> "none", step |-> "idle", what |-> None, sent |-> << >>, raced |-> FALSE]
NewRow == [status |-> "pending", step |-> "script", parts |-> 0, at |-> 0, polls |-> 0,
           voiced |-> {}, again |-> FALSE]

Init ==
    /\ rows = [k \in Kinds |-> << >>]
    /\ summary = [m \in Modes |-> None]
    /\ mindmap = None
    /\ h = [w \in Handlers |-> Idle] /\ begun = 0 /\ faults = 0
    /\ shown = None /\ abandoned = {}

At(w, op, step) == h[w].op = op /\ h[w].step = step

Begins(w, request) ==
    /\ h[w] = Idle
    /\ begun < MaxRequests /\ begun' = begun + 1
    /\ h' = [h EXCEPT ![w] = request]
    /\ UNCHANGED <<rows, summary, mindmap, faults, shown, abandoned>>

Leaves(w) == h' = [h EXCEPT ![w] = Idle] /\ UNCHANGED begun
Fails == faults < MaxFaults /\ faults' = faults + 1

-----------------------------------------------------------------------------
(* Spoken overviews and slides: the handlers.                              *)

Latest(kind) == IF rows[kind] = << >> THEN None ELSE rows[kind][Len(rows[kind])].status

(* Mutant of SlidesWanted: slides being made are not waited for.           *)
SlidesWantedTwice == Latest("slides") # "done"

(* GeneratePresentation gives a newest row that is done, and says wait     *)
(* when it is pending.                                                     *)
SlidesWanted == Latest("slides") \notin {"done", "pending"}

(* GenerateAudioOverview has the same two returns, but reads audio_url     *)
(* into a string: on a row where it is NULL, pending or failed, Scan       *)
(* returns an error, and neither return is taken.                          *)
AudioWanted == Latest("audio") # "done"

ReadSlides(w) == SlidesWanted /\ Begins(w, [Idle EXCEPT !.op = "slides", !.step = "insert"])
ReadAudio(w) == AudioWanted /\ Begins(w, [Idle EXCEPT !.op = "audio", !.step = "insert"])

(* The pending row, and its goroutine.  A row is made again when the       *)
(* handler read before another one wrote; handlers that have read by now   *)
(* are raced.                                                              *)
InsertRow(w, kind) ==
    /\ At(w, kind, "insert")
    /\ Len(rows[kind]) < MaxRows
    /\ rows' = [rows EXCEPT ![kind] = Append(@, [NewRow EXCEPT !.again = h[w].raced])]
    /\ h' = [v \in Handlers |->
                IF v = w THEN Idle
                ELSE IF At(v, kind, "insert") THEN [h[v] EXCEPT !.raced = TRUE] ELSE h[v]]
    /\ UNCHANGED <<summary, mindmap, begun, faults, shown, abandoned>>

InsertSlides(w) == InsertRow(w, "slides")
InsertAudio(w) == InsertRow(w, "audio")

(* The rows or the text cannot be read, or the row not be inserted.        *)
GiveUp(w) ==
    /\ h[w].step = "insert"
    /\ Leaves(w)
    /\ UNCHANGED <<rows, summary, mindmap, faults, shown, abandoned>>

-----------------------------------------------------------------------------
(* ... and their goroutines.                                               *)

Rows(kind) == DOMAIN rows[kind]
Working(kind, i, step) == rows[kind][i].step = step

Row(kind, i, row) == rows' = [rows EXCEPT ![kind][i] = row]
OthersKept == UNCHANGED <<summary, mindmap, h, begun, shown>>

(* The last UPDATE of a goroutine, whose error is at most logged.          *)
Ends(kind, i, row, status) ==
    /\ \/ /\ Row(kind, i, [row EXCEPT !.status = status, !.step = "none", !.at = 0, !.polls = 0])
          /\ UNCHANGED <<faults, abandoned>>
       \/ /\ Fails
          /\ Row(kind, i, [rows[kind][i] EXCEPT !.step = "none", !.at = 0, !.polls = 0, !.voiced = {}])
          /\ abandoned' = abandoned \cup {<<kind, i>>}
    /\ OthersKept

Continues(kind, i, row) ==
    Row(kind, i, row) /\ OthersKept /\ UNCHANGED <<faults, abandoned>>

(* The answer of ChatNonStream fails or is no list, or the goroutine       *)
(* panics and recovers.                                                    *)
ScriptFails(kind, i) ==
    /\ Working(kind, i, "script")
    /\ Ends(kind, i, rows[kind][i], "failed")

(* To the next part of n; after the last one an overview is uploaded and   *)
(* slides are saved.  An overview without a line has no bytes.             *)
Onwards(kind, row) ==
    [row EXCEPT !.at = IF row.at < row.parts THEN row.at + 1 ELSE 0,
                !.polls = 0,
                !.step = IF row.at < row.parts THEN "speak"
                         ELSE IF kind = "slides" THEN "save" ELSE "upload"]

ScriptComes(kind, i) ==
    /\ Working(kind, i, "script")
    /\ \E n \in 0..MaxParts :
        IF kind = "audio" /\ n = 0 THEN Ends(kind, i, rows[kind][i], "failed")
        ELSE Continues(kind, i, Onwards(kind, [rows[kind][i] EXCEPT !.parts = n]))

(* A part has its speech: a line goes to the bytes of the overview, a      *)
(* slide's is uploaded at once, and a failed upload leaves it silent.      *)
Spoken(kind, i) ==
    LET row == rows[kind][i]
        silent == Onwards(kind, row)
        voiced == Onwards(kind, [row EXCEPT !.voiced = @ \cup {row.at}])
    IN  \/ Continues(kind, i, voiced)
        \/ kind = "slides" /\ Continues(kind, i, silent)

(* No speech: the end of an overview, a silent slide.                      *)
Unspoken(kind, i) ==
    IF kind = "audio" THEN Ends(kind, i, rows[kind][i], "failed")
    ELSE Continues(kind, i, Onwards(kind, rows[kind][i]))

(* generateTTSForLine: edge-tts, else FPT, whose address is asked again    *)
(* and again.  A slide without narration is not spoken.                    *)
EdgeSpeaks(kind, i) == Working(kind, i, "speak") /\ Spoken(kind, i)

NoNarration(i) ==
    /\ Working("slides", i, "speak")
    /\ Continues("slides", i, Onwards("slides", rows["slides"][i]))

FptTakesOver(kind, i) ==
    /\ Working(kind, i, "speak")
    /\ \/ Continues(kind, i, [rows[kind][i] EXCEPT !.step = "poll", !.polls = Polls])
       \/ Unspoken(kind, i)

FptSpeaks(kind, i) == Working(kind, i, "poll") /\ Spoken(kind, i)

FptIsNotReady(kind, i) ==
    /\ Working(kind, i, "poll")
    /\ IF rows[kind][i].polls = 1 THEN Unspoken(kind, i)
       ELSE Continues(kind, i, [rows[kind][i] EXCEPT !.polls = @ - 1])

(* The overview's file is uploaded, and must get an address.               *)
UploadAudio(i) ==
    /\ Working("audio", i, "upload")
    /\ \/ Continues("audio", i, [rows["audio"][i] EXCEPT !.step = "save"])
       \/ Ends("audio", i, rows["audio"][i], "failed")

SaveAudio(i) == Working("audio", i, "save") /\ Ends("audio", i, rows["audio"][i], "done")
SaveSlides(i) == Working("slides", i, "save") /\ Ends("slides", i, rows["slides"][i], "done")

(* The process ends: rows stay as they are, and nothing takes them up      *)
(* again when it starts.                                                   *)
Restart ==
    /\ Fails
    /\ abandoned' = abandoned \cup
         {row \in Kinds \X (1..MaxRows) :
            row[2] \in Rows(row[1]) /\ rows[row[1]][row[2]].step # "none"}
    /\ rows' = [k \in Kinds |-> [i \in Rows(k) |->
                 IF rows[k][i].step = "none" THEN rows[k][i]
                 ELSE [rows[k][i] EXCEPT !.step = "none", !.at = 0, !.polls = 0, !.voiced = {}]]]
    /\ h' = [w \in Handlers |-> Idle]
    /\ UNCHANGED <<summary, mindmap, begun, shown>>

-----------------------------------------------------------------------------
(* Summaries and the mind map.                                             *)

(* Mutant of Fits: what is cached is given as it is.                       *)
FitsAnyway(value) == value # None

(* QuickSummary takes a cached value only if it is JSON; DetailedSummary   *)
(* streams whatever is cached for its mode, and its mode may be "quick".   *)
Fits(value) == value = "json"

QuickHit(w) ==
    /\ h[w] = Idle /\ Fits(summary["quick"])
    /\ shown' = summary["quick"]
    /\ UNCHANGED <<rows, summary, mindmap, h, begun, faults, abandoned>>

QuickMiss(w) ==
    /\ ~Fits(summary["quick"])
    /\ Begins(w, [Idle EXCEPT !.op = "quick", !.step = "ask"])

(* An answer that is no JSON becomes the overview of one.                  *)
QuickAnswer(w) ==
    /\ At(w, "quick", "ask")
    /\ summary' = [summary EXCEPT !["quick"] = "json"]
    /\ shown' = "json"
    /\ Leaves(w)
    /\ UNCHANGED <<rows, mindmap, faults, abandoned>>

(* A hit: the events info, token and done.                                 *)
DetailedHit(w, mode) ==
    /\ summary[mode] # None
    /\ Begins(w, [Idle EXCEPT !.op = "detailed", !.step = "ended", !.what = mode,
                              !.sent = <<"status", "result", "done">>])

DetailedMiss(w, mode) ==
    /\ summary[mode] = None
    /\ Begins(w, [Idle EXCEPT !.op = "detailed", !.step = "ask", !.what = mode])

Sends(w, step, events) == h' = [h EXCEPT ![w].step = step, ![w].sent = @ \o events]

(* ChatStream has sent its tokens; an answer is kept if it came whole.     *)
DetailedAnswer(w) ==
    /\ At(w, "detailed", "ask")
    /\ summary' = [summary EXCEPT ![h[w].what] = "text"]
    /\ Sends(w, "ended", <<"result", "done">>)
    /\ UNCHANGED <<rows, mindmap, begun, faults, shown, abandoned>>

(* ... and a failure ends with the same event, and no other.               *)
DetailedFails(w) ==
    /\ At(w, "detailed", "ask")
    /\ Sends(w, "ended", <<"done">>)
    /\ UNCHANGED <<rows, summary, mindmap, begun, faults, shown, abandoned>>

SummaryExpires(mode) ==
    /\ summary[mode] # None
    /\ summary' = [summary EXCEPT ![mode] = None]
    /\ UNCHANGED <<rows, mindmap, h, begun, faults, shown, abandoned>>

(* GenerateMindmap: cached for a week if it is a JSON object.              *)
MindmapMiss(w) ==
    /\ mindmap = None
    /\ Begins(w, [Idle EXCEPT !.op = "mindmap", !.step = "ask"])

MindmapAnswer(w) ==
    /\ At(w, "mindmap", "ask")
    /\ mindmap' = "json"
    /\ Leaves(w)
    /\ UNCHANGED <<rows, summary, faults, shown, abandoned>>

MindmapExpires ==
    /\ mindmap # None /\ mindmap' = None
    /\ UNCHANGED <<rows, summary, h, begun, faults, shown, abandoned>>

(* No provider answers, or nothing that parses.                            *)
AskFails(w) ==
    /\ h[w].step = "ask" /\ h[w].op \in {"quick", "mindmap"}
    /\ Leaves(w)
    /\ UNCHANGED <<rows, summary, mindmap, faults, shown, abandoned>>

-----------------------------------------------------------------------------
(* Extractions.                                                            *)

Extract(w, what) == Begins(w, [Idle EXCEPT !.op = "extract", !.step = "ask", !.what = what])

(* The reply of a failed call: an error, but of a timeline empty data.     *)
ReplyWithout(w) ==
    IF h[w].what = "timeline" THEN <<"result">> ELSE <<"error">>

ExtractKeywords(w) == Extract(w, "keywords")
ExtractFormulas(w) == Extract(w, "formulas")
ExtractMindMap(w) == Extract(w, "mindmap")
ExtractTimeline(w) == Extract(w, "timeline")

(* A document the caller does not have ends the comparison.                *)
ExtractCompare(w, allowed) ==
    IF allowed THEN Extract(w, "compare")
    ELSE Begins(w, [Idle EXCEPT !.op = "extract", !.step = "ended", !.what = "compare",
                                !.sent = <<"error">>])

Reply(w) ==
    /\ At(w, "extract", "ask")
    /\ \E answer \in {<<"result">>, ReplyWithout(w)} : Sends(w, "ended", answer)
    /\ UNCHANGED <<rows, summary, mindmap, begun, faults, shown, abandoned>>

(* The same as a stream of events: received, then what run sends.          *)
Stream(w, what) ==
    Begins(w, [Idle EXCEPT !.op = "stream", !.step = "read", !.what = what, !.sent = <<"status">>])

ExtractKeywordsStream(w) == Stream(w, "keywords")
ExtractFormulasStream(w) == Stream(w, "formulas")
ExtractTimelineStream(w) == Stream(w, "timeline")
ExtractMindMapStream(w) == Stream(w, "mindmap")
ExtractCompareStream(w) == Stream(w, "compare")

(* Mutant of Ending: no return after the error.                            *)
EndingGoesOn(error) == IF error THEN <<"error", "done", "result", "done">> ELSE <<"result", "done">>

(* streamExtractResponse.                                                  *)
Ending(error) == IF error THEN <<"error", "done">> ELSE <<"result", "done">>

(* readExtractDocumentText, and the status before the call.                *)
StreamReads(w) ==
    /\ At(w, "stream", "read")
    /\ \/ Sends(w, "ask", <<"status", "insight", "status">>)
       \/ h[w].what = "compare" /\ Sends(w, "ended", <<"status">> \o Ending(TRUE))
    /\ UNCHANGED <<rows, summary, mindmap, begun, faults, shown, abandoned>>

StreamAnswers(w) ==
    /\ At(w, "stream", "ask")
    /\ \/ Sends(w, "ended", <<"status">> \o Ending(FALSE))
       \/ Sends(w, "ended", Ending(TRUE))
    /\ UNCHANGED <<rows, summary, mindmap, begun, faults, shown, abandoned>>

Close(w) ==
    /\ h[w].step = "ended"
    /\ Leaves(w)
    /\ UNCHANGED <<rows, summary, mindmap, faults, shown, abandoned>>

-----------------------------------------------------------------------------
Job ==
    \/ \E k \in Kinds : \E i \in Rows(k) :
        ScriptFails(k, i) \/ ScriptComes(k, i) \/ EdgeSpeaks(k, i)
        \/ FptTakesOver(k, i) \/ FptSpeaks(k, i) \/ FptIsNotReady(k, i)
    \/ \E i \in Rows("audio") : UploadAudio(i) \/ SaveAudio(i)
    \/ \E i \in Rows("slides") : NoNarration(i) \/ SaveSlides(i)

Kept ==
    \/ \E w \in Handlers :
        QuickHit(w) \/ QuickMiss(w) \/ QuickAnswer(w) \/ DetailedAnswer(w) \/ DetailedFails(w)
        \/ MindmapMiss(w) \/ MindmapAnswer(w) \/ AskFails(w)
        \/ \E m \in Modes : DetailedHit(w, m) \/ DetailedMiss(w, m)
    \/ \E m \in Modes : SummaryExpires(m)
    \/ MindmapExpires

Extraction == \E w \in Handlers :
    \/ ExtractKeywords(w) \/ ExtractFormulas(w) \/ ExtractMindMap(w) \/ ExtractTimeline(w)
    \/ \E allowed \in BOOLEAN : ExtractCompare(w, allowed)
    \/ ExtractKeywordsStream(w) \/ ExtractFormulasStream(w) \/ ExtractTimelineStream(w)
    \/ ExtractMindMapStream(w) \/ ExtractCompareStream(w)
    \/ Reply(w) \/ StreamReads(w) \/ StreamAnswers(w) \/ Close(w)

Generation == \E w \in Handlers :
    ReadSlides(w) \/ ReadAudio(w) \/ InsertSlides(w) \/ InsertAudio(w) \/ GiveUp(w)

Next == Generation \/ Job \/ Kept \/ Extraction \/ Restart

Spec == Init /\ [][Next]_vars

-----------------------------------------------------------------------------
(* The types of the variables.                                             *)
TypeOK ==
    /\ \A k \in Kinds : rows[k] \in Seq([status : {"pending", "done", "failed"},
          step : {"none", "script", "speak", "poll", "upload", "save"}, parts : Nat, at : Nat,
          polls : 0..Polls, voiced : SUBSET Nat, again : BOOLEAN])
    /\ summary \in [Modes -> {None, "json", "text"}] /\ mindmap \in {None, "json"}
    /\ \A w \in Handlers : h[w].step \in {"idle", "insert", "ask", "read", "ended"}
    /\ shown \in {None, "json", "text"}

(* Slides are made once: a row follows another only if that failed, or if  *)
(* its request had read before the other was written.                      *)
SlidesAreMadeOnce ==
    \A i \in Rows("slides") \ {1} :
        rows["slides"][i - 1].status = "failed" \/ rows["slides"][i].again

(* Every generation is ended: a pending row has its goroutine, but for a   *)
(* restart or an UPDATE that failed.                                       *)
PendingIsAtWork ==
    \A k \in Kinds : \A i \in Rows(k) :
        rows[k][i].status = "pending" => rows[k][i].step # "none" \/ <<k, i>> \in abandoned

(* An overview that is done has every line spoken; slides may be silent.   *)
OverviewIsWhole ==
    \A i \in Rows("audio") :
        rows["audio"][i].status = "done" => rows["audio"][i].voiced = 1..rows["audio"][i].parts

(* QuickSummary never gives what DetailedSummary left under its key.       *)
QuickIsStructured == shown \in {None, "json"}

(* A stream of events tells its end once: a result or an error, then done. *)
Count(seq, event) == Cardinality({i \in DOMAIN seq : seq[i] = event})
StreamEndsOnce ==
    \A w \in Handlers :
        At(w, "stream", "ended") =>
            /\ Count(h[w].sent, "done") = 1
            /\ Count(h[w].sent, "result") + Count(h[w].sent, "error") = 1
            /\ h[w].sent[Len(h[w].sent)] = "done"
=============================================================================
