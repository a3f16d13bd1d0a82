CONSTANTS
    Pins <- MCPins
    Buttons <- MCButtons
    DevPins <- MCDevPins
    IcrVals <- MCIcrVals
SPECIFICATION FairSpec
INVARIANTS TypeOK ButtonConfigIntact
PROPERTIES ButtonPressDispatched
