------------------------------ MODULE MCCursor ------------------------------
(***************************************************************************)
(* The providers that answer: Cursor's streams, tool calls, bridge and     *)
(* catalogs, the thinking tags, and Google's streams and slots.  The turns *)
(* of Cursor are the module's own CursorStream.                            *)
(***************************************************************************)
EXTENDS CursorStream, Naturals, Sequences, TLC

CONSTANTS
  Scenarios

VARIABLES
  scenario,  \* the instance this behaviour is one of, of Scenarios
  execTools, execAsked, execSent, execPending, execTool, quest, blobs, given,
  touched,  \* CursorExec
  stdin, bridgeStdout, child, h2, handle, bridgePending, client, bridgeGot,  \* CursorBridge
  thinkingText, buffer, inside, thinkingContent, reasoning,  \* ThinkingFilter
  offered, cached, registered, hooked, reading, next,  \* CursorModels
  googlePhase, aborted, googleData, size, total, googleEnded, frame, frames,
  googleCurrent, googleContent, calls, terminal, googleOut,  \* GoogleStream
  spent, version, clock, slotStored, entries, account, updatedAt, binding,
  slotCurrent, pc, cred, slotAnswer, login, slotKnown, slotSent  \* AntigravitySlot

cursorVars == vars
execVars == <<execTools, execAsked, execSent, execPending, execTool, quest,
    blobs, given, touched>>
bridgeVars == <<stdin, bridgeStdout, child, h2, handle, bridgePending, client,
    bridgeGot>>
thinkingVars == <<thinkingText, buffer, inside, thinkingContent, reasoning>>
modelsVars == <<offered, cached, registered, hooked, reading, next>>
googleVars == <<googlePhase, aborted, googleData, size, total, googleEnded,
    frame, frames, googleCurrent, googleContent, calls, terminal, googleOut>>
slotVars == <<spent, version, clock, slotStored, entries, account, updatedAt,
    binding, slotCurrent, pc, cred, slotAnswer, login, slotKnown, slotSent>>
allVars == <<scenario, cursorVars, execVars, bridgeVars, thinkingVars,
             modelsVars, googleVars, slotVars>>

\* Calls of the server: for Pi's tools, answered at once, streams, and unknown ones.
ExecCases == {"mcpArgs", "requestContextArgs", "readArgs", "lsArgs", "grepArgs", "writeArgs", "deleteArgs",
              "shellArgs", "shellStreamArgs", "fetchArgs", "diagnosticsArgs", "recordScreenArgs", "unknown"}

\* Catalogs of models with efforts, fast and thinking variants: any of some
\* names, and every set of efforts of one model.
Named == {<<"grok">>, <<"grok", "low">>, <<"grok", "high">>, <<"grok", "high", "fast">>,
          <<"codex">>, <<"codex", "max", "high">>, <<"codex", "max", "low", "fast">>,
          <<"opus", "high", "thinking">>}
Grok(es) == {IF e = "" THEN <<"grok">> ELSE <<"grok", e>> : e \in es}
AllEfforts == {Grok(es) : es \in SUBSET {"", "none", "low", "medium", "high", "xhigh", "max"} \ {{}}}
AllCatalogs == (SUBSET Named \ {{}}) \union AllEfforts
SomeFallback == {<<"grok", "low">>, <<"grok", "high">>, <<"codex">>, <<"opus", "high", "thinking">>}
GrokFallback == Grok({"", "low", "medium", "high"})
Common == {Grok({""}), Grok({"high"}), Grok({"", "high"}), Grok({"low", "medium", "high"}),
           Grok({"", "low", "high", "xhigh"}), Grok({"high", "max"}),
           Grok({"high"}) \union {<<"grok", "high", "fast">>},
           {<<"codex">>, <<"codex", "max", "high">>, <<"codex", "max", "low">>}}

\* Parts of Gemini's frames: well formed, or not.
TextAndCalls == {<<"text", 0>>, <<"thinking", 0>>, <<"call", 1>>, <<"call", 2>>}
BadParts == {<<"text", 0>>, <<"call", 1>>, <<"badcall", 0>>, <<"junk", 0>>}

OneByOne == INSTANCE CursorStream WITH
  MaxExec <- 2, Partial <- TRUE, Moves <- {FALSE},
  ExitWindow <- FALSE, LateFrames <- FALSE, MaxCompact <- 0, MaxEnds <- 1,
  MaxForeign <- 0, StatusPiped <- TRUE, Faults <- {"error", "status"}
LateFaults == INSTANCE CursorStream WITH
  MaxExec <- 1, Partial <- FALSE, Moves <- {FALSE},
  ExitWindow <- TRUE, LateFrames <- TRUE, MaxCompact <- 1, MaxEnds <- 0,
  MaxForeign <- 0, StatusPiped <- TRUE, Faults <- {}
Aborted == INSTANCE CursorStream WITH
  MaxExec <- 1, Partial <- FALSE, Moves <- {FALSE},
  ExitWindow <- FALSE, LateFrames <- FALSE, MaxCompact <- 0, MaxEnds <- 0,
  MaxForeign <- 0, StatusPiped <- TRUE, Faults <- {"abort", "death"}
Others == INSTANCE CursorStream WITH
  MaxExec <- 0, Partial <- FALSE, Moves <- {FALSE, TRUE},
  ExitWindow <- FALSE, LateFrames <- FALSE, MaxCompact <- 0, MaxEnds <- 1,
  MaxForeign <- 1, StatusPiped <- TRUE, Faults <- {"abort", "death"}
ServerCalls == INSTANCE CursorExec WITH
  Rpc <- {1, 2}, Cases <- ExecCases,
  Questions <- {"askQuestionInteractionQuery", "setupVmEnvironmentArgs"},
  Toolset <- {{}, {"read", "bash"}, {"read", "ls", "grep", "write", "bash"}},
  Blob <- {"turn"}, tools <- execTools, asked <- execAsked, sent <- execSent,
  pending <- execPending, tool <- execTool
Unary == INSTANCE CursorBridge WITH
  unary <- TRUE, Requests <- <<2>>, Answers <- <<2, 1, 2>>, MaxPiece <- 4,
  stdout <- bridgeStdout, pending <- bridgePending, got <- bridgeGot
Duplex == INSTANCE CursorBridge WITH
  unary <- FALSE, Requests <- <<1, 2>>, Answers <- <<1, 2>>, MaxPiece <- 3,
  stdout <- bridgeStdout, pending <- bridgePending, got <- bridgeGot
Thinking == INSTANCE ThinkingFilter WITH
  Letter <- {"<", "/", ">", "t", "h"}, Name <- <<"t", "h">>, MaxText <- 6,
  MaxDelta <- 2, MaxHeld <- 8, text <- thinkingText,
  content <- thinkingContent
Catalogs == INSTANCE CursorModels WITH
  Slots <- 1, Offers <- AllCatalogs, Fallback <- SomeFallback
Slotted == INSTANCE CursorModels WITH
  Slots <- 2, Offers <- Common, Fallback <- GrokFallback
Google == INSTANCE GoogleStream WITH
  Call <- {1, 2}, Part <- TextAndCalls, Finish <- {"STOP", "MAX_TOKENS"},
  Noise <- {}, PerFrame <- 1, MaxEvent <- 2, MaxTotal <- 5,
  phase <- googlePhase, data <- googleData, ended <- googleEnded,
  current <- googleCurrent, content <- googleContent, out <- googleOut
Framing == INSTANCE GoogleStream WITH
  Call <- {1}, Part <- BadParts, Finish <- {"STOP", "OTHER"},
  Noise <- {"field", "unknown", "broken", "done"}, PerFrame <- 1,
  MaxEvent <- 2, MaxTotal <- 4, phase <- googlePhase, data <- googleData,
  ended <- googleEnded, current <- googleCurrent, content <- googleContent,
  out <- googleOut
OwnLogin == INSTANCE AntigravitySlot WITH
  Accounts <- {"a", "b"}, None <- "none", Requests <- {"q"},
  Refreshes <- {"f"}, Kinds <- {"offline", "network"}, LoginAccounts <- {"b"},
  MaxTokens <- 1, MaxVersion <- 0, MaxClock <- 1, stored <- slotStored,
  current <- slotCurrent, answer <- slotAnswer, known <- slotKnown,
  sent <- slotSent
Quota == INSTANCE AntigravitySlot WITH
  Accounts <- {"a"}, None <- "none", Requests <- {"q", "r"},
  Refreshes <- {"f"}, Kinds <- {"network"}, LoginAccounts <- {},
  MaxTokens <- 1, MaxVersion <- 1, MaxClock <- 1, stored <- slotStored,
  current <- slotCurrent, answer <- slotAnswer, known <- slotKnown,
  sent <- slotSent

ASSUME
  /\ CursorStreamAssumption
  /\ OneByOne!CursorStreamAssumption
  /\ LateFaults!CursorStreamAssumption
  /\ Aborted!CursorStreamAssumption
  /\ Others!CursorStreamAssumption
  /\ ServerCalls!ExecAssumption
  /\ Unary!BridgeAssumption
  /\ Duplex!BridgeAssumption
  /\ Thinking!FilterAssumption
  /\ Catalogs!CatalogAssumption
  /\ Slotted!CatalogAssumption
  /\ Google!StreamAssumption
  /\ Framing!StreamAssumption
  /\ OwnLogin!SlotAssumption
  /\ Quota!SlotAssumption

\* A behaviour moves one component; the others rest in an initial state.
Rest(moving) ==
  /\ IF moving = "cursor" THEN TRUE ELSE Init
  /\ IF moving = "exec" THEN TRUE ELSE ServerCalls!Init /\ execTools = {}
  /\ IF moving = "bridge" THEN TRUE ELSE Unary!Init
  /\ IF moving = "thinking" THEN TRUE ELSE Thinking!Init
  /\ IF moving = "models" THEN TRUE ELSE Catalogs!Init /\ offered = [s \in {1} |-> GrokFallback]
  /\ IF moving = "google" THEN TRUE ELSE Google!Init
  /\ IF moving = "slot" THEN TRUE ELSE OwnLogin!Init /\ account = "a" /\ updatedAt = 0 /\ ~spent[0]

Stays(moving) ==
  /\ IF moving = "cursor" THEN TRUE ELSE UNCHANGED cursorVars
  /\ IF moving = "exec" THEN TRUE ELSE UNCHANGED execVars
  /\ IF moving = "bridge" THEN TRUE ELSE UNCHANGED bridgeVars
  /\ IF moving = "thinking" THEN TRUE ELSE UNCHANGED thinkingVars
  /\ IF moving = "models" THEN TRUE ELSE UNCHANGED modelsVars
  /\ IF moving = "google" THEN TRUE ELSE UNCHANGED googleVars
  /\ IF moving = "slot" THEN TRUE ELSE UNCHANGED slotVars

SuiteInit ==
  /\ scenario \in Scenarios
  /\ \/ scenario = "turns" /\ Init /\ Rest("cursor")
     \/ scenario = "partial" /\ OneByOne!Init /\ Rest("cursor")
     \/ scenario = "late" /\ LateFaults!Init /\ Rest("cursor")
     \/ scenario = "aborted" /\ Aborted!Init /\ Rest("cursor")
     \/ scenario = "others" /\ Others!Init /\ Rest("cursor")
     \/ scenario = "calls" /\ ServerCalls!Init /\ Rest("exec")
     \/ scenario = "call" /\ Unary!Init /\ Rest("bridge")
     \/ scenario = "stream" /\ Duplex!Init /\ Rest("bridge")
     \/ scenario = "cuts" /\ Thinking!Init /\ Rest("thinking")
     \/ scenario = "catalogs" /\ Catalogs!Init /\ Rest("models")
     \/ scenario = "slots" /\ Slotted!Init /\ Rest("models")
     \/ scenario = "google" /\ Google!Init /\ Rest("google")
     \/ scenario = "framing" /\ Framing!Init /\ Rest("google")
     \/ scenario = "account" /\ OwnLogin!Init /\ Rest("slot")
     \/ scenario = "quota" /\ Quota!Init /\ Rest("slot")

\* How many requests the session makes when the bridge, the workspace or other
\* providers act too: two, and three otherwise.
Two == pi'.n <= 2

SuiteNext ==
  /\ scenario' = scenario
  /\ \/ scenario = "turns" /\ Next /\ Stays("cursor")
     \/ scenario = "partial" /\ OneByOne!Next /\ Two /\ Stays("cursor")
     \/ scenario = "late" /\ LateFaults!Next /\ Two /\ Stays("cursor")
     \/ scenario = "aborted" /\ Aborted!Next /\ Two /\ Stays("cursor")
     \/ scenario = "others" /\ Others!Next /\ Two /\ Stays("cursor")
     \/ scenario = "calls" /\ ServerCalls!Next /\ Stays("exec")
     \/ scenario = "call" /\ Unary!Next /\ Stays("bridge")
     \/ scenario = "stream" /\ Duplex!Next /\ Stays("bridge")
     \/ scenario = "cuts" /\ Thinking!Next /\ Stays("thinking")
     \/ scenario = "catalogs" /\ Catalogs!Next /\ Stays("models")
     \/ scenario = "slots" /\ Slotted!Next /\ Stays("models")
     \/ scenario = "google" /\ Google!Next /\ Stays("google")
     \/ scenario = "framing" /\ Framing!Next /\ Stays("google")
     \/ scenario = "account" /\ OwnLogin!Next /\ Stays("slot")
     \/ scenario = "quota" /\ Quota!Next /\ Stays("slot")

SuiteSpec == SuiteInit /\ [][SuiteNext]_allVars

-----------------------------------------------------------------------------

\* Every call of the server is answered once, in its form, with whole files
\* and closed streams, and blobs have no hole; over the bridge bytes arrive
\* whole and in order and the outcome is settled once.
CallsExact ==
  /\ [](/\ (scenario = "calls" => ServerCalls!TypeOK)
       /\ (scenario = "call" => Unary!TypeOK)
       /\ (scenario = "calls" => ServerCalls!AnsweredOnce)
       /\ (scenario = "calls" => ServerCalls!StreamsClosed)
       /\ (scenario = "calls" => ServerCalls!RightForm)
       /\ (scenario = "calls" => ServerCalls!WholeFiles)
       /\ (scenario = "call" => Unary!InOrder)
       /\ (scenario = "stream" => Duplex!InOrder)
       /\ (scenario = "call" => Unary!WholeAnswer)
       /\ (scenario = "call" => Unary!NoOrphan)
       /\ (scenario = "stream" => Duplex!NoOrphan)
       /\ (scenario = "stream" => Duplex!SentInOrder))
  /\ ServerCalls!OnlyUseful
  /\ ServerCalls!NoHole
  /\ Unary!SettledOnce

AbortedFair ==
  \A w \in Aborted!Request : WF_cursorVars(scenario = "aborted" /\ Aborted!StallTimeout(w))

UnaryFair == WF_bridgeVars(scenario = "call" /\ Unary!GiveUp)

\* No call waits for ever: every turn that was begun is answered, whatever
\* becomes of the bridge, and a call over the bridge ends.
CallsEnd ==
  /\ ((scenario = "aborted" /\ AbortedFair) => Aborted!Answered)
  /\ ((scenario = "call" /\ UnaryFair) => Unary!CallEnds)

\* A streamed answer arrives as it was: thinking is cut where its tags stand
\* wherever the pieces break; blocks nest, calls wait for a turn that
\* finished, and nothing follows the terminator.
StreamsWhole ==
  /\ [](/\ (scenario = "framing" => Framing!TypeOK)
       /\ (scenario = "cuts" => Thinking!CutAnywhere)
       /\ (scenario = "google" => Google!Nests)
       /\ (scenario = "google" => Google!Whole)
       /\ (scenario = "google" => Google!CallsWithheld)
       /\ (scenario = "google" => Google!DoneIsFinished))
  /\ [][/\ (scenario = "framing" => Framing!TerminatorLastStep)]_allVars

\* A slot offers the models of its own account: entries apart, each level and
\* bare name going out as a listed model; a request leaves on the newest
\* evidence of its account's quota and never for a quota known to be spent.
CatalogsOwn ==
  /\ [](/\ (scenario = "catalogs" => Catalogs!TypeOK)
       /\ (scenario = "catalogs" => Catalogs!EntriesApart)
       /\ (scenario = "catalogs" => Catalogs!BareIsListed)
       /\ (scenario = "slots" => Slotted!PickIsListed))
  /\ [][/\ (scenario = "account" => OwnLogin!TypeOK')
        /\ (scenario = "account" => OwnLogin!OwnCatalog')
        /\ (scenario = "quota" => Quota!LatestEvidence')
        /\ (scenario = "quota" => Quota!KnownZeroStops')]_allVars
=============================================================================
