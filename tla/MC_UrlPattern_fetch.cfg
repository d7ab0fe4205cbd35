CONSTANTS
  Patterns <- MCPatterns
  Urls <- MCUrls
SPECIFICATION Spec
INVARIANT FetchPausesIntercepted
