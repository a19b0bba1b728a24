SPECIFICATION Spec
CONSTANTS
  None = None
  Nodes = {n1, n2}
  Submitters = {n1}
  Capabilities = {"c"}
  Slots = {"a", "b"}
  Names = {"a", "b", "f", "p"}
  Reserved = {"p"}
  Declarations <- MCDeclarations
  Bindings <- MCBindings
  Schemas <- MCSchemas
  Submissions <- MCSubmissions
  RuleLists <- MCRuleLists
  MaxStages = 2
  Texts = {"k"}
INVARIANTS
  RefsResolve
  NoDanglingForward
  SentFieldsSurvive
  BindingMovesValues
PROPERTIES
  StaleMappingsAreSafe
