SPECIFICATION Spec
CONSTANTS
    Block = 3
    Byte <- MCByte
    MaxBytes = 4
    Word <- MCWord
    ListedDevice <- MCListedDevice
    MaxListed = 2
    FieldOrder <- MCFieldOrder
    UnitHeader <- MCUnitHeader
    MaxUnits = 4
    Char <- MCChar
    Param <- MCParam
    MaxParams = 3
CHECK_DEADLOCK FALSE
INVARIANTS UnpadInvertsPad ListedDevicesFound OwnModelOrNone KeyframesMarked CallbackGetsWhatWasSent
