SPECIFICATION Spec
CONSTANTS
    Scenarios <- AllScenarios
    MaxDistance = 2
    TransitNetworks <- TransitNets
INVARIANTS
    TypeOK
    GradesAgreeWithIssues
    ListsExpand
    UnusedVlansHide
    SubinterfacesAreCircuits
    ComparedDataAgrees
    CircuitChangesAreExplained
    PlansFollowImpacts
    
PROPERTIES
    ReferencesSettle
