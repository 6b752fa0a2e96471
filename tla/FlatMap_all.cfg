SPECIFICATION Spec
CONSTANTS
  Keys <- FewKeys
  Values = {u, v}
  Default = u
  Nothing = Nothing
INVARIANTS TypeOK OneEntryPerKey LayoutsAgree
PROPERTIES EntriesStay ImplementMap
