CONSTANTS
    Cases = 3
    Clean = {1, 2}
    MaxRestarts = 1
    MaxNoise = 1
    MaxForged = 0
    NoCase = NoCase
    NoRecord = NoRecord
SPECIFICATION Spec
PROPERTY WholeRecordsOnly
