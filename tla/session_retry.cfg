SPECIFICATION Spec
CONSTANTS
    None = None
    MaxTokens = 3
INVARIANT RetryUsesRefreshed
