SPECIFICATION Spec
CONSTANTS
  Dirs <- MCDirs
  Files <- MCFiles
  NameOrder <- MCNameOrder
  RoleOf <- MCRoleOf
  Markdown <- MCMarkdown
  Indexes = {"AGENTS"}
  Intents = {"finance_lookup", "contact_lookup", "inbox_process_next"}
  MaxDepth = 1
  MaxFiles = 5
INVARIANTS
  CompleteUnlessFailed
  OneVersion
PROPERTIES
  LoadEnds
