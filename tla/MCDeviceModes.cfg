SPECIFICATION FairSpec
INVARIANTS
    ParentKnows
    PowerFitsMode
PROPERTIES
    ImplementsHasModes
    TransitionsEnd
