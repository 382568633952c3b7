\* A worker that ends before it is inserted stays registered.
SPECIFICATION CMSpec
CONSTANTS
    off = off
    on = on
    Statuses = {off, on}
    Unpaired = off
    MaxAdds = 1
    MaxPipe = 1
    Capacity = 1
PROPERTY RemoveUnregisters
