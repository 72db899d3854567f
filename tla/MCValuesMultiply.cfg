CONSTANTS
    ByteBits = 4
    Operands <- MCOperands
    Shifts <- MCShifts
    Magnitude = 67108864
    MaxSteps = 2
    MantissaBits = 13
    ParseDigits = 2
    PrintDigits = 2
    Types <- MCTypes
    Samples <- MCSamples
    Versions <- MCVersions
    KeyParts <- MCKeyParts
    ColumnTypes <- MCColumnTypes
    SimpleNames <- MCSimpleNames
    Udts <- MCUdts
    Prefixed <- MCPrefixed
    Clock = {1, 2}
    TicksInMs = 3
    GivenTicks = {0, 3}
    UnixToGregorian = 3
    LowBits = 2
    MidBits = 1
    TopBits = 2
    MaxCalls = 5
    NotGiven = NotGiven
    maxInt32 = 50
    maxLong = 400
    nanosPer <- MCNanosPer
    MaxGroup = 3
    MaxJsDate = 100000000
    SecondDigits = 2
    MilliDigits = 1
    PartBits = 2
    ChunkDigits = 2
    Durations <- MCDurations
    DurationTexts <- MCDurationTexts
    Decimals <- MCDecimals
    Addresses <- MCAddresses
    AddressTexts <- MCAddressTexts
    Dates <- MCDates
    Days <- MCDays
    Times <- MCTimes
    Millis <- MCMillis
    Longs <- MCLongs
    LongTexts <- MCLongTexts
SPECIFICATION ValuesSpec
CHECK_DEADLOCK FALSE
INVARIANTS
    CarriesKept
