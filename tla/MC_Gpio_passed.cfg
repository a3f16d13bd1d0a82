CONSTANTS
    Pins <- MCPins
    Buttons <- MCButtons
    DevPins <- MCDevPins
    IcrVals <- MCIcrVals
SPECIFICATION Spec
INVARIANT PassedPending
