\* git fails or takes more than two seconds.
SPECIFICATION Spec
CONSTANTS
    Thread = {t1}
    Frames <- AllFrames
    SampleRows = 1
    MaxHead = 2
PROPERTIES
    DirtyRefused
