SPECIFICATION Spec
CONSTANTS
  Calls = {c1, c2}
  Enabled <- MCEnabled
  Schemes = {"", "http", "https", "ftp"}
INVARIANTS
  AnswersAreRight
