SPECIFICATION DogstatsdSpec
CONSTANTS
    None = None
    Floats <- SomeFloats
    Ints <- SomeInts
    DWords <- SomeDWords
    HostTags <- SomeHostTags
    Traffic <- SameName
INVARIANTS
    TextInSetsOnly
CHECK_DEADLOCK FALSE
