----------------------------- MODULE Platforms ------------------------------
(***************************************************************************)
(* The two consoles that keep their data on the demo server: Zero Trust    *)
(* over securityEngine.ts and the AI platform over aiEngine.ts.  The       *)
(* engines share no state and App shows one console at a time: a behaviour *)
(* is one of the part it names.                                            *)
(***************************************************************************)
EXTENDS ZeroTrust

CONSTANTS Jobs, Sessions, SeedSession, Window, Documents, SeedDocuments,
          Prompts, SeedPrompts, LogCap, SeedLogs, Live, ChatTexts, RagTexts,
          Overrides, Settings, NewMemories, MaxLoads, Strangers
VARIABLES gatewayConfig, gatewayLogs, sessions, prompts, vectors, jobs,
          config, shown, active, spinning, fetches, aiLoaded, loads, aiCalls,
          wanted, aiRaced, crowded

AI == INSTANCE AIPlatform WITH loaded <- aiLoaded, calls <- aiCalls,
                               raced <- aiRaced

ASSUME PlatformAssumption == AI!ConsoleAssumption

VARIABLE part

aiVars == <<gatewayConfig, gatewayLogs, sessions, prompts, vectors, jobs,
            config, shown, active, spinning, fetches, aiLoaded, loads, aiCalls,
            wanted, aiRaced, crowded>>

PlatformsInit == Init /\ AI!Init /\ part \in {"zero trust", "ai"}

OfZeroTrust == part = "zero trust" /\ UNCHANGED <<part, aiVars>>
OfAI == part = "ai" /\ UNCHANGED <<part, vars>>

PlatformsNext ==
    \/ OfZeroTrust /\ Next
    \/ OfAI /\ AI!Next

PlatformsSpec == PlatformsInit /\ [][PlatformsNext]_<<part, vars, aiVars>>

-----------------------------------------------------------------------------
(* Properties *)

\* The gateway policy: types, and a setting stays as it was last chosen.
SettingsStick == AI!TypeOK /\ AI!SettingsStick

\* Chats: the page shows the messages the server keeps, questions and replies
\* come in turn, and every finished chat and retrieval is logged once, by its
\* outcome.
ChatsAreTold ==
    AI!ConversationsAgree /\ AI!TurnsAlternate /\ AI!LogsTellTruth
=============================================================================
