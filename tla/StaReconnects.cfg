CHECK_DEADLOCK FALSE
SPECIFICATION Spec
INVARIANTS
    EventsFit
    BitIsCurrent
    NeverStranded
PROPERTIES
    ProvidesLink
