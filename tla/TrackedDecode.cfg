\* Documents of four messages, ended after nine tokens.
CONSTANTS
    Schemas <- MCSchemas
    MapKeys = {"k", "o"}
    Stranger = "?"
    Contents <- MCContents
    MaxTokens = 9
SPECIFICATION DecodeSpec
INVARIANTS AcceptsTheDocument ErrorsOnce
