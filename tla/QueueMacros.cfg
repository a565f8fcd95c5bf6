CONSTANTS
  Heads = {h1, h2}
  Elms = {e1, e2, e3, e4}
  NULL = NULL
  Trash = Trash
SPECIFICATION Spec
INVARIANTS
  ListsAgree
  EndsAgree
  NoPanic
  VisitsAll
