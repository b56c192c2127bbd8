SPECIFICATION Spec
CONSTANTS
  Requests = {r1, r2}
  Recordings <- MCRecordings
  Rules <- MCRules
  MaxCustomer = 2
  MaxDept = 2
  MaxUser = 2
SYMMETRY Symmetry
INVARIANTS AccountsInv ExplainAgrees BrowsingNarrows
PROPERTIES AnswersDoNotWiden AccessChangesByAuthority SuperadminStays
