\* A frame of PriceDaily rows.
SPECIFICATION Spec
CONSTANTS
    Thread = {t1}
    Frames <- Priced
    SampleRows = 1
    MaxHead = 2
INVARIANTS
    PayloadsAccepted
