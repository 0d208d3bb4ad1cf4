SPECIFICATION Spec
CONSTANTS
    claude = claude
    gemini = gemini
    gpt = gpt
    anthropic = anthropic
    google = google
    openai = openai
    Models <- MCModels
    Providers <- MCProviders
    Known <- MCModels
    Configured <- MCConfigured
    ProviderOf <- MCProviderOf
    Requested = claude
    Fallbacks <- MCFallbacks
    MaxRetries = 1
    MaxDeltas = 2
INVARIANT FailureIsShielded
