\* A user is disabled while a credential is active; nothing fails.
SPECIFICATION CredentialsSpec
CONSTANTS
    Calls = {w, a}
    Worker = w
    Groups = {g1}
    MaxDisables = 1
    MaxFaults = 0
    MaxUpsets = 0
    MaxTokens = 2
PROPERTIES
    UserTokensDisabled
