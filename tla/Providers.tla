----------------------------- MODULE Providers -----------------------------
(***************************************************************************)
(* Asking a language model: utils/ai_orchestrator.go with its adapters     *)
(* (openai_adapter.go, gemini.go, groq.go, hf.go), the pool of keys        *)
(* (keypool.go) and the cache of answers (answer_cache.go).                *)
(*                                                                         *)
(* A service has a list of providers, tried in order.  A provider that     *)
(* streams sends its tokens to the client as they come; a token is the     *)
(* place in the list of the provider it came from.                         *)
(***************************************************************************)
EXTENDS Naturals, Sequences, FiniteSets

CONSTANTS
    Requests,       \* requests at work at a time
    Priorities,     \* of each service, the kinds of its providers whose pool has keys
    PoolSize,       \* keys of the pool of Gemini
    MaxTokens, MaxRequests,     \* bounds on the model
    None

PrioritiesAssumption ==
    /\ \A s \in DOMAIN Priorities : Priorities[s] \in Seq({"openai", "gemini", "hf"})
    /\ {"chat", "summary"} \subseteq DOMAIN Priorities
PoolAssumption ==
    /\ PoolSize \in Nat \ {0} /\ MaxTokens \in Nat \ {0} /\ MaxRequests \in Nat

Services == DOMAIN Priorities
Keys == 0..(PoolSize - 1)

VARIABLES
    counter,        \* of the pool, modulo its size
    answers,        \* ai_answer:<question>, or None
    req, begun

vars == <<counter, answers, req, begun>>

(* tried: keys taken by the loop at work; left: its turns; held: it has a  *)
(* key; alone: history, no other request took one since it began; broke:   *)
(* history, Gemini failed after its first token.                           *)
Idle == [op |-> "none", service |-> None, step |-> "idle", at |-> 0, part |-> << >>,
         shown |-> << >>, answer |-> << >>, tried |-> {}, left |-> 0,
         held |-> FALSE, alone |-> TRUE, broke |-> FALSE]

Init ==
    /\ counter = 0 /\ answers = None
    /\ req = [r \in Requests |-> Idle] /\ begun = 0

Kind(r) == Priorities[req[r].service][req[r].at]
Trying(r, op, kind) == req[r].op = op /\ req[r].step = "try" /\ Kind(r) = kind

Begins(r, request) ==
    /\ req[r] = Idle
    /\ begun < MaxRequests /\ begun' = begun + 1
    /\ req' = [req EXCEPT ![r] = request]
    /\ UNCHANGED <<counter, answers>>

-----------------------------------------------------------------------------
(* The pool of keys.                                                       *)

(* A fresh turn of a loop over the keys of a pool.                         *)
Loop(request) == [request EXCEPT !.tried = {}, !.left = PoolSize, !.alone = TRUE]

(* Mutant of GiveUp: the last key is not waited for.                       *)
GiveUpEarly(request) == request.left <= 1

GiveUp(request) == request.left = 0

Becomes(r, request) ==
    /\ req' = [req EXCEPT ![r] = request]
    /\ UNCHANGED <<counter, answers, begun>>

(* Whether r is in a loop over the keys, between two of its turns.         *)
Turning(r) ==
    /\ ~req[r].held
    /\ \/ req[r].op = "embed" /\ req[r].step = "key"
       \/ req[r].step = "try" /\ Kind(r) = "gemini" /\ req[r].op # "tools"

(* GetKey: the counter is atomic.                                          *)
GetKey(r) ==
    /\ Turning(r)
    /\ counter' = (counter + 1) % PoolSize
    /\ req' = [q \in Requests |->
                IF q = r THEN [req[r] EXCEPT !.held = TRUE, !.tried = @ \cup {counter}, !.left = @ - 1]
                ELSE [req[q] EXCEPT !.alone = @ /\ req[q] = Idle]]
    /\ UNCHANGED <<answers, begun>>

(* EmbedWithRetry.                                                         *)
Embed(r) == Begins(r, Loop([Idle EXCEPT !.op = "embed", !.step = "key"]))

EmbedFails(r) ==
    /\ req[r].op = "embed" /\ req[r].held
    /\ Becomes(r, [req[r] EXCEPT !.step = IF GiveUp(req[r]) THEN "failed" ELSE "key",
                                 !.held = FALSE])

EmbedWorks(r) ==
    /\ req[r].op = "embed" /\ req[r].held
    /\ Becomes(r, [req[r] EXCEPT !.step = "done", !.held = FALSE])

-----------------------------------------------------------------------------
(* One provider after the other.                                           *)

(* Keys of its pool that an adapter of Hugging Face tries.                 *)
HFTries == 2

(* To the next provider of the list, or to the end.                        *)
Fallback(request) ==
    LET rest == [request EXCEPT !.part = << >>, !.tried = {}, !.left = 0, !.held = FALSE]
    IN  IF request.at < Len(Priorities[request.service])
        THEN LET next == [rest EXCEPT !.at = @ + 1]
             IN  CASE Priorities[request.service][next.at] = "gemini" -> Loop(next)
                   [] Priorities[request.service][next.at] = "hf" -> [next EXCEPT !.left = HFTries]
                   [] OTHER -> next
        ELSE [rest EXCEPT !.step = "failed"]

(* An answer of blanks is an error too.                                    *)
Returns(request) ==
    IF request.part = << >> THEN Fallback(request)
    ELSE [request EXCEPT !.step = "done", !.answer = request.part, !.held = FALSE]

First(op, service) ==
    Fallback([Idle EXCEPT !.op = op, !.service = service, !.step = "try"])

(* ChatStream for a question whose answer is not cached, or a summary.     *)
ChatStream(r, service) ==
    /\ service = "chat" => answers = None
    /\ Begins(r, First("stream", service))

ChatNonStream(r, service) == Begins(r, First("whole", service))

(* Only providers of one kind can be given tools.                          *)
ChatNonStreamWithTools(r) == Begins(r, First("tools", "chat"))

Piece(request) == [request EXCEPT !.part = Append(@, request.at), !.shown = Append(@, request.at)]

(* StreamOpenAIChat: no connection, or a status other than 200; an error   *)
(* that names a broken pipe ends the request.                              *)
Refused(r) ==
    /\ Trying(r, "stream", "openai") /\ req[r].part = << >>
    /\ Becomes(r, Fallback(req[r])) \/ Becomes(r, [req[r] EXCEPT !.step = "failed"])

Token(r) ==
    /\ Trying(r, "stream", "openai") /\ Len(req[r].part) < MaxTokens
    /\ Becomes(r, Piece(req[r]))

(* Mutant of BreaksOff: the broken connection is an error like others.     *)
BreaksOffWithError(request) == Fallback(request)

(* The scanner's error is not looked at: a stream that breaks off is       *)
(* returned like one that has ended.                                       *)
BreaksOff(request) == Returns(request)

StreamEnds(r) ==
    /\ Trying(r, "stream", "openai")
    /\ Becomes(r, Returns(req[r])) \/ Becomes(r, BreaksOff(req[r]))

-----------------------------------------------------------------------------
(* StreamGeminiChatWithModel: 429 and 503 before the first token cost a    *)
(* key, and then the provider; any other error, or one after it, ends the  *)
(* provider at once, whatever the client has been shown.                   *)

GeminiToken(r) ==
    /\ Trying(r, "stream", "gemini") /\ req[r].held /\ Len(req[r].part) < MaxTokens
    /\ Becomes(r, Piece(req[r]))

(* The next turn, or the next provider.                                    *)
Retry(request) ==
    IF GiveUp(request) THEN Fallback(request) ELSE [request EXCEPT !.held = FALSE]

GeminiBusy(r) ==
    /\ Trying(r, "stream", "gemini") /\ req[r].held /\ req[r].part = << >>
    /\ Becomes(r, Retry(req[r]))

GeminiFails(r) ==
    /\ Trying(r, "stream", "gemini") /\ req[r].held
    /\ LET failed == [req[r] EXCEPT !.broke = @ \/ req[r].part # << >>]
       IN  \/ Becomes(r, Fallback(failed))
           \/ Becomes(r, [failed EXCEPT !.step = "failed", !.held = FALSE])

GeminiEnds(r) ==
    /\ Trying(r, "stream", "gemini") /\ req[r].held
    /\ Becomes(r, Returns(req[r]))

(* RoundTrip looks at the headers of an answer that a failed connection    *)
(* does not have: the handler ends there.                                  *)
GeminiUnreachable(r) ==
    /\ req[r].step = "try" /\ req[r].held /\ req[r].part = << >>
    /\ Becomes(r, [req[r] EXCEPT !.step = "panic", !.held = FALSE])

-----------------------------------------------------------------------------
(* Answers in one piece.                                                   *)

Answers(r) ==
    Becomes(r, [req[r] EXCEPT !.step = "done", !.answer = <<req[r].at>>, !.held = FALSE])

(* ChatOpenAINonStream has one key and one attempt.                        *)
WholeFails(r) ==
    /\ Trying(r, "whole", "openai")
    /\ Becomes(r, Fallback(req[r]))

(* ClassifyPersonaWithHF and RewriteQueryForSearch: a connection that      *)
(* fails, a busy server or an empty answer costs one of two turns; after   *)
(* them a search goes on with the query as it is.                          *)
HFBusy(r) ==
    /\ Trying(r, "whole", "hf")
    /\ IF req[r].left > 1 THEN Becomes(r, [req[r] EXCEPT !.left = @ - 1])
       ELSE IF req[r].service = "search" THEN Answers(r) ELSE Becomes(r, Fallback(req[r]))

(* Any other status of a classification, or an answer that does not parse. *)
HFErrs(r) ==
    /\ Trying(r, "whole", "hf")
    /\ Becomes(r, Fallback(req[r]))

(* GeminiChatNonStreamWithModel: a quota error costs a key.                *)
WholeBusy(r) ==
    /\ Trying(r, "whole", "gemini") /\ req[r].held
    /\ Becomes(r, Retry(req[r]))

WholeErrs(r) ==
    /\ Trying(r, "whole", "gemini") /\ req[r].held
    /\ Becomes(r, Fallback(req[r]))

WholeAnswers(r) ==
    /\ req[r].op = "whole" /\ req[r].step = "try"
    /\ Kind(r) = "gemini" => req[r].held
    /\ Answers(r)

ToolsSkipOrFail(r) ==
    /\ req[r].op = "tools" /\ req[r].step = "try"
    /\ Becomes(r, Fallback(req[r]))

(* Text, or calls of tools, or both.                                       *)
ToolsAnswer(r) ==
    /\ Trying(r, "tools", "openai")
    /\ Answers(r)

-----------------------------------------------------------------------------
(* The cache of answers.                                                   *)

(* SetAnswerCache, in a goroutine of its own; or no cache for this answer. *)
Leave(r) ==
    /\ req[r].step \in {"done", "failed", "panic"}
    /\ \/ /\ req[r].step = "done" /\ req[r].op = "stream" /\ req[r].service = "chat"
          /\ answers' = req[r].answer
       \/ UNCHANGED answers
    /\ req' = [req EXCEPT ![r] = Idle]
    /\ UNCHANGED <<counter, begun>>

AnswerExpires ==
    /\ answers # None /\ answers' = None
    /\ UNCHANGED <<counter, req, begun>>

-----------------------------------------------------------------------------

Next ==
    \/ \E r \in Requests :
        \/ GetKey(r) \/ Embed(r) \/ EmbedFails(r) \/ EmbedWorks(r)
        \/ \E s \in {"chat", "summary"} : ChatStream(r, s)
        \/ \E s \in Services : ChatNonStream(r, s)
        \/ ChatNonStreamWithTools(r)
        \/ Refused(r) \/ Token(r) \/ StreamEnds(r)
        \/ GeminiToken(r) \/ GeminiBusy(r) \/ GeminiFails(r) \/ GeminiEnds(r)
        \/ GeminiUnreachable(r)
        \/ WholeFails(r) \/ HFBusy(r) \/ HFErrs(r) \/ WholeBusy(r) \/ WholeErrs(r) \/ WholeAnswers(r)
        \/ ToolsSkipOrFail(r) \/ ToolsAnswer(r)
        \/ Leave(r)
    \/ AnswerExpires

Spec == Init /\ [][Next]_vars

-----------------------------------------------------------------------------

(* Places in the lists of providers, and what was said from them.          *)
Places == UNION {1..Len(Priorities[s]) : s \in Services}
Said == {said \in Seq(Places) : Len(said) <= MaxTokens}

TypeOK ==
    /\ counter \in Keys
    /\ answers = None \/ answers \in Said
    /\ begun \in 0..MaxRequests
    /\ \A r \in Requests :
        /\ req[r].op \in {"none", "embed", "stream", "whole", "tools"}
        /\ req[r].step \in {"idle", "key", "try", "done", "failed", "panic"}
        /\ req[r].service \in Services \cup {None} /\ req[r].at \in Places \cup {0}
        /\ req[r].part \in Said /\ req[r].answer \in Said
        /\ req[r].tried \subseteq Keys /\ req[r].left \in 0..(PoolSize + HFTries) /\ req[r].held \in BOOLEAN

(* What a client was shown while it waited is the answer that is then      *)
(* returned, saved and cached, and comes from one provider, whatever       *)
(* failed before it: an adapter that has shown something never lets the    *)
(* next one begin, but for Gemini failing in the middle (ChatStream).      *)
OneVoice ==
    \A r \in Requests :
        /\ req[r].op = "stream" /\ req[r].step = "done" /\ ~req[r].broke =>
            req[r].shown = req[r].answer
        /\ \A i, j \in 1..Len(req[r].answer) : req[r].answer[i] = req[r].answer[j]

(* An embedding is given up when every key of the pool has failed, as its  *)
(* error says, unless another request took keys in between: the counter is *)
(* common to all, and two loops may each skip what the other took          *)
(* (EmbedWithRetry).                                                       *)
EveryKeyIsTried ==
    \A r \in Requests :
        req[r].op = "embed" /\ req[r].step = "failed" /\ req[r].alone =>
            req[r].tried = Keys
=============================================================================
