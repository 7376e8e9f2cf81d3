CONSTANTS
    fat_count = 1
    sectors_per_fat = 1
    EntriesPerSector = 5
    FAT_CACHE_SIZE = 1
    Value = {0, 1, 2, 3, 4, 5}
    Failures = {"read", "refused"}
    Name = {a, b}
    Parents <- OneOrTwo
    Datum = {x}
    FAT16_MAX_OPEN = 1
    MaxSectors = 2
    MaxFaults = 1
SPECIFICATION CrashSpec
INVARIANTS  ChainsSurviveStops ContentSurvivesStops
CHECK_DEADLOCK FALSE
SYMMETRY NameSymmetry
