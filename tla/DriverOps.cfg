\* Two driver requests and a browser that refreshes, with dongles plugged and unplugged.
SPECIFICATION DOSpec
CONSTANTS
    csr = csr
    realtek = realtek
    r1 = r1
    r2 = r2
    b1 = b1
    Dongles = {1, 2}
    KindOf <- MCKindOf
    VendorKinds = {realtek}
    Requests = {r1, r2}
    Browsers = {b1}
    MaxPolls = 2
INVARIANTS DOTypeOK CacheCatchesUp
PROPERTIES LostOnRequest RequestsAnswered
