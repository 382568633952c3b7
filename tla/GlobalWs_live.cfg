\* One controller, added, removed and crashing at any time, and a browser that connects at any time.
SPECIFICATION GSpec
CONSTANTS
    off = off
    on = on
    Statuses = {off, on}
    Unpaired = off
    MaxAdds = 1
    MaxPipe = 1
    Capacity = 2
INVARIANTS CMTypeOK GTypeOK LiveIsListed QuietViewExact
PROPERTIES RemoveServed ViewConverges ImplementsRegistry
