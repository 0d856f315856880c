-------------------------- MODULE MCMistralRouter --------------------------
(* fallback_order of RouterConfig's default.  gpt-4-turbo's endpoint is    *)
(* an OpenAI one, a provider _initialize_clients builds no client for, so  *)
(* calling it raises KeyError.                                             *)
EXTENDS MistralRouter

MCFallbackOrder == <<"mistral-8x22b", "claude-3-opus", "gpt-4-turbo">>

MCEndpointProvider ==
    [m \in {"mistral-8x22b", "claude-3-opus", "gpt-4-turbo"} |->
        CASE m = "mistral-8x22b" -> "huggingface"
          [] m = "claude-3-opus" -> "anthropic"
          [] OTHER               -> "openai"]
=============================================================================
