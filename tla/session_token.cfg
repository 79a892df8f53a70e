SPECIFICATION Spec
CONSTANTS
    None = None
    MaxTokens = 5
INVARIANTS DropboxRetryUsesRefreshed NewTokenIsKept
