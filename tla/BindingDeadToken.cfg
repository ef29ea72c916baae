\* Two calls provision a new user at the same time; nothing fails.
SPECIFICATION CredentialsSafetySpec
CONSTANTS
    Calls = {w, a}
    Worker = w
    Groups = {g1}
    MaxDisables = 0
    MaxFaults = 0
    MaxUpsets = 0
    MaxTokens = 1
INVARIANTS
    ActiveBindingWorks
