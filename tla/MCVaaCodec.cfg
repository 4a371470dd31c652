SPECIFICATION Spec
CONSTANTS
    None = None
    Base = 5
    Infinity = 1000
    Word = 2
    Long = 1
    Half = 2
    Short = 1
    ChainIds = {1, 2}
    EvmChainIds = {2}
    Signed <- MCSigned
    Families <- MCFamilies
    Loose <- MCLoose
    MaxDamage = 1
    SerializeLayout <- serializeLayout
    DeserializeLayout <- deserializeLayout
    DeserializePart <- internalDeserializeLayout
    AddFixedValues <- addFixedValues
    GenerateLayoutDiscriminator <- generateLayoutDiscriminator
    LayoutDiscriminator <- layoutDiscriminator
INVARIANTS SubmitsWhatCame ReadsWhatWasSigned EachGuardianSignsOnce Discriminates
CHECK_DEADLOCK FALSE
