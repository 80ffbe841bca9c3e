CONSTANTS
    dialog = dialog
    editor = editor
    other = other
    Windows = {dialog, editor, other}
    HutOf <- MCHutOf
    AppOf <- MCAppOf
    Rules <- MCRules
    Ids = {1, 2, 3, 4, 5, 6, 7}
    NoApp = NoApp
    Nothing = Nothing
    MaxEvents = 2
    MaxRequests = 2
SPECIFICATION TagsSpec
CHECK_DEADLOCK FALSE
INVARIANT CaughtUp
PROPERTY TaggedByRule
