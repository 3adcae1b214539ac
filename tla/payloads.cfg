CONSTANTS
    MaxRetries = 3
    Lengths <- MCLengths
    Widths <- MCWidths
    Ages <- MCAges
SPECIFICATION Spec
INVARIANTS SuccessIsDocumented DocumentedNeedsNoRetry FormFailuresAreKnown
           HopelessJobsAreTriedOut
CHECK_DEADLOCK FALSE
