---------------------------- MODULE MCAssistant ----------------------------
(***************************************************************************)
(* What answers a user's questions and makes material from a document:     *)
(* the session, the assistant's tools, the providers, generated material,  *)
(* the files sent with a question, and how a document is cut into chunks   *)
(* and these are found again; and the feedback chat, in which              *)
(* administrators answer.  None of them reads what another writes, so each *)
(* is checked alone: side names the one a behaviour is of, the variables   *)
(* of the others are None, and the states are the sum of theirs.  Each     *)
(* takes its handlers and its rows from the same names.  The tools are the *)
(* part whose names are used as they are.                                  *)
(***************************************************************************)
EXTENDS ToolDispatch, TLC

CONSTANTS
    m1, m2, n1, n2, c1, c2,
    Handlers, Names, Contents, MaxFaults,   \* at work at a time, of turns and files, what a file has in it
    KeptMessages, KeptPairs, TierPairs, Lanes, MaxTasks,        \* ChatSession
    Priorities, PoolSize, MaxTokens, MaxRequests,               \* Providers
    MaxParts, Polls, MaxMade, MaxMakings,                       \* Material
    VideoLimit, MessageImages, MaxUploads,                      \* Attachments
    Sockets, Users, Admins, UserOf, Cap, MaxMessages,           \* Feedback
    TargetTokens, WindowSize, WindowOverlap, Sizes, MaxBlocks, MaxWords,    \* Chunker
    Texts, Documents, DocOf, Smoothing, Whole, TopK, PerDocument, Boosts    \* Retrieval

VARIABLES
    side,
    scope, row, list, lives, turn, naming, task, link, taskFaults, born, named,
    began, sessionShown, calm,
    counter, answers, req, asked,
    rows, summary, mindmap, making, makings, makingFaults, shown, abandoned,
    videos, analysed, files, images, attached, queue, results, start, h, begun,
    faults, sweeping, lost, overlap, late,
    members, closed, stopped, buffer, conn, reader, writer, dropping, messages, full, got,
    way, blocks, current, crumbs, page, repeated, chunks, words, at, ended,
    searched, step, vector, fts, score, boost, fused, chosen

Session == INSTANCE ChatSession WITH
    Turns <- Names, Tasks <- Handlers, faults <- taskFaults, shown <- sessionShown

Providing == INSTANCE Providers WITH Requests <- Handlers, begun <- asked

Making == INSTANCE Material WITH
    MaxRows <- MaxMade, MaxRequests <- MaxMakings,
    h <- making, begun <- makings, faults <- makingFaults

Files == INSTANCE Attachments WITH Videos <- Names, MaxRequests <- MaxUploads

Talking == INSTANCE FeedbackProofs WITH Clients <- Sockets, rows <- messages

Cutting == INSTANCE Chunker WITH overlap <- repeated

Searching == INSTANCE Retrieval WITH Chunks <- Texts, scope <- searched, results <- chosen

(* Values of constants.  The providers of each service whose pool has      *)
(* keys; two sockets of a user, and one of an administrator; a document    *)
(* with enough chunks to fill an answer alone.                             *)
MCPriorities ==
    [chat |-> <<"openai", "openai">>, summary |-> <<"openai", "gemini", "openai">>,
     classify |-> <<"gemini", "openai", "hf">>, search |-> <<"openai", "hf">>]
MCUserOf == [c \in {n1, n2, m1} |-> IF c = m1 THEN "admin" ELSE "user"]
MCDocOf == [a1 |-> "a", a2 |-> "a", a3 |-> "a", b1 |-> "b"]

ASSUME AssistantAssumption ==
    /\ Session!ChatAssumption /\ ToolAssumption
    /\ Providing!PrioritiesAssumption /\ Providing!PoolAssumption
    /\ Making!MaterialAssumption /\ Files!AttachmentAssumption /\ Files!NoneAssumption
    /\ Talking!FeedbackAssumption
    /\ Cutting!ChunkerAssumption /\ Searching!RetrievalAssumption

sessionVars == <<scope, row, list, lives, turn, naming, task, link, taskFaults,
                 born, named, began, sessionShown, calm>>
providerVars == <<counter, answers, req, asked>>
materialVars == <<rows, summary, mindmap, making, makings, makingFaults, shown,
                  abandoned>>
fileVars == <<videos, analysed, files, images, attached, queue, results,
              start, h, begun, faults, sweeping, lost, overlap, late>>
feedbackVars == <<members, closed, stopped, buffer, conn, reader, writer, dropping,
                  messages, full, got>>
chunkVars == <<way, blocks, current, crumbs, page, repeated, chunks, words, at, ended>>
searchVars == <<searched, step, vector, fts, score, boost, fused, chosen>>

(* The variables of a part whose turn it is not.  Those of the tools are   *)
(* such that ToolsRunOnce can be stated as it stands there.                *)
NoSession ==
    /\ scope = None /\ row = None /\ list = None /\ lives = None
    /\ turn = None /\ naming = None /\ task = None /\ link = None
    /\ taskFaults = None /\ born = None /\ named = None /\ began = None
    /\ sessionShown = None /\ calm = None
NoTools ==
    /\ executed = [p \in Slips |-> 0] /\ worker = [w \in Workers |-> NoWork]
    /\ raced = {} /\ lapsed = FALSE
    /\ loop = None /\ asker = None /\ slip = None /\ used = None
    /\ cached = None /\ lock = None /\ facts = None /\ read = None
NoProviders ==
    /\ counter = None /\ answers = None /\ req = None /\ asked = None
NoMaterial ==
    /\ rows = None /\ summary = None /\ mindmap = None /\ making = None
    /\ makings = None /\ makingFaults = None /\ shown = None
    /\ abandoned = None
NoFiles ==
    /\ videos = None /\ analysed = None /\ files = None /\ images = None
    /\ attached = None /\ queue = None /\ results = None /\ start = None
    /\ h = None /\ begun = None /\ faults = None /\ sweeping = None
    /\ lost = None /\ overlap = None /\ late = None
NoFeedback ==
    /\ members = None /\ closed = None /\ stopped = None /\ buffer = None
    /\ conn = None /\ reader = None /\ writer = None /\ dropping = None
    /\ messages = None /\ full = None /\ got = None
NoChunks ==
    /\ way = None /\ blocks = None /\ current = None /\ crumbs = None
    /\ page = None /\ repeated = None /\ chunks = None /\ words = None
    /\ at = None /\ ended = None
NoSearch ==
    /\ searched = None /\ step = None /\ vector = None /\ fts = None
    /\ score = None /\ boost = None /\ fused = None /\ chosen = None

AssistantInit ==
    \/ /\ side = "session" /\ Session!Init
       /\ NoTools /\ NoProviders /\ NoMaterial /\ NoFiles /\ NoFeedback
       /\ NoChunks /\ NoSearch
    \/ /\ side = "tools" /\ Init
       /\ NoSession /\ NoProviders /\ NoMaterial /\ NoFiles /\ NoFeedback
       /\ NoChunks /\ NoSearch
    \/ /\ side = "providers" /\ Providing!Init
       /\ NoSession /\ NoTools /\ NoMaterial /\ NoFiles /\ NoFeedback
       /\ NoChunks /\ NoSearch
    \/ /\ side = "material" /\ Making!Init
       /\ NoSession /\ NoTools /\ NoProviders /\ NoFiles /\ NoFeedback
       /\ NoChunks /\ NoSearch
    \/ /\ side = "files" /\ Files!Init
       /\ NoSession /\ NoTools /\ NoProviders /\ NoMaterial /\ NoFeedback
       /\ NoChunks /\ NoSearch
    \/ /\ side = "feedback" /\ Talking!Init
       /\ NoSession /\ NoTools /\ NoProviders /\ NoMaterial /\ NoFiles
       /\ NoChunks /\ NoSearch
    \/ /\ side = "chunks" /\ Cutting!Init
       /\ NoSession /\ NoTools /\ NoProviders /\ NoMaterial /\ NoFiles
       /\ NoFeedback /\ NoSearch
    \/ /\ side = "search" /\ Searching!Init
       /\ NoSession /\ NoTools /\ NoProviders /\ NoMaterial /\ NoFiles
       /\ NoFeedback /\ NoChunks

AssistantNext ==
    /\ UNCHANGED side
    /\ \/ /\ side = "session" /\ Session!Next
          /\ UNCHANGED <<vars, providerVars, materialVars, fileVars, feedbackVars,
                         chunkVars, searchVars>>
       \/ /\ side = "tools" /\ Next
          /\ UNCHANGED <<sessionVars, providerVars, materialVars, fileVars, feedbackVars,
                         chunkVars, searchVars>>
       \/ /\ side = "providers" /\ Providing!Next
          /\ UNCHANGED <<sessionVars, vars, materialVars, fileVars, feedbackVars,
                         chunkVars, searchVars>>
       \/ /\ side = "material" /\ Making!Next
          /\ UNCHANGED <<sessionVars, vars, providerVars, fileVars, feedbackVars,
                         chunkVars, searchVars>>
       \/ /\ side = "files" /\ Files!Next
          /\ UNCHANGED <<sessionVars, vars, providerVars, materialVars, feedbackVars,
                         chunkVars, searchVars>>
       \/ /\ side = "feedback" /\ Talking!Next
          /\ UNCHANGED <<sessionVars, vars, providerVars, materialVars, fileVars,
                         chunkVars, searchVars>>
       \/ /\ side = "chunks" /\ Cutting!Next
          /\ UNCHANGED <<sessionVars, vars, providerVars, materialVars, fileVars,
                         feedbackVars, searchVars>>
       \/ /\ side = "search" /\ Searching!Next
          /\ UNCHANGED <<sessionVars, vars, providerVars, materialVars, fileVars,
                         feedbackVars, chunkVars>>

assistantVars == <<side, sessionVars, vars, providerVars, materialVars, fileVars,
                   feedbackVars, chunkVars, searchVars>>
AssistantSpec == AssistantInit /\ [][AssistantNext]_assistantVars

(* Handlers are alike, and so are turns, workers and files, and contents.  *)
Symmetry == Permutations({m1, m2}) \cup Permutations({n1, n2}) \cup Permutations({c1, c2})

-----------------------------------------------------------------------------

(* The state of the part has its type.                                     *)
Typed ==
    /\ side = "session" => Session!TypeOK
    /\ side = "tools" => TypeOK
    /\ side = "providers" => Providing!TypeOK
    /\ side = "material" => Making!TypeOK
    /\ side = "files" => Files!TypeOK
    /\ side = "feedback" => Talking!TypeOK
    /\ side = "chunks" => Cutting!TypeOK
    /\ side = "search" => Searching!TypeOK

(* The history, the title and the shared link of a session are what the    *)
(* user made them, whatever runs beside a question (ChatSession).          *)
SessionsAreHonest ==
    side = "session" =>
        Session!HistoryIsHonest /\ Session!TitleIsTheUsers /\ Session!LinkHidesDeleted

(* An answer comes from one provider, and none is given up while a key of  *)
(* the pool has not been tried (Providers).                                *)
ProvidersKeepFaith ==
    side = "providers" => Providing!OneVoice /\ Providing!EveryKeyIsTried

(* Material is made once, whole, and ends (Material); the text it is made  *)
(* from is cut without loss into chunks that know their place (Chunker),   *)
(* and what is found of it is what both searches agree on, spread over     *)
(* documents (Retrieval).                                                  *)
MaterialIsWhole ==
    /\ side = "material" =>
        /\ Making!SlidesAreMadeOnce /\ Making!PendingIsAtWork
        /\ Making!OverviewIsWhole /\ Making!QuickIsStructured /\ Making!StreamEndsOnce
    /\ side = "chunks" =>
        /\ Cutting!NothingIsLost /\ Cutting!ChunksAreBounded
        /\ Cutting!BreadcrumbNamesTheSection /\ Cutting!OverlapIsFromBefore
    /\ side = "search" => Searching!FusionAgrees /\ Searching!AnswerIsSpread

(* A question is answered from the video it came with, the videos of a day *)
(* are bounded, and every file in the store has a row, but for those of    *)
(* failures and of deleted sessions (Attachments).                         *)
AttachmentsAreKept ==
    side = "files" =>
        Files!ContextIsOfTheVideo /\ Files!VideosWithinQuota /\ Files!FilesAreNamed

(* No message meets a closed channel, the hub stops only after an overflow *)
(* and a message is shown once (Feedback).                                 *)
FeedbackIsServed ==
    side = "feedback" =>
        Talking!MembersAreOpen /\ Talking!StopsAfterOverflow /\ Talking!ShownOnce
=============================================================================
