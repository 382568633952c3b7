\* A browser that moves its pad at any time; frames overlap on their way.
SPECIFICATION IRSpec
CONSTANTS
    Unit = 1000
    MaxQueue = 5
    Pads <- MCPads
INVARIANT IRTypeOK
PROPERTIES UntouchedIsExact ConsoleConverges
