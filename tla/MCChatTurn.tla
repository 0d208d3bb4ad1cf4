----------------------------- MODULE MCChatTurn -----------------------------
(***************************************************************************)
(* The requested model, a fallback whose provider has a key and a second   *)
(* fallback whose provider has none.                                       *)
(***************************************************************************)
EXTENDS ChatTurn

CONSTANTS claude, gemini, gpt, anthropic, google, openai

MCModels == {claude, gemini, gpt}
MCProviders == {anthropic, google, openai}
MCConfigured == {anthropic, google}
MCProviderOf == [m \in MCModels |->
    CASE m = claude -> anthropic [] m = gemini -> google [] OTHER -> openai]
MCFallbacks == <<gemini, gpt>>
=============================================================================
