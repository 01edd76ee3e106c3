\* The file builder's extension order against the descriptor's (spec section 4.5 step 3).
CONSTANTS
    GreaseSample = {1, 2570, 6682}
    MaxGreaseLen = 3
    MaxPositions = 2
    JA3Strings <- ConstJA3Strings
    ServerNames <- ConstServerNames
    TLSVersions = {768, 771, 772, 1}
    CipherLists <- ConstCipherLists
    ExtensionLists <- ConstExtensionLists
    JA4Strings <- ConstJA4Strings
    ProfileNames <- ConstProfileNames
    WireNames <- ConstWireNames
    JSONObjects <- ConstJSONObjects
    MaxJSONExts = 3
    H2Names <- ConstH2Names
    MaxH2Configures = 2
    FileObjects <- ConstFileObjects
    MaxFileExts = 2
SPECIFICATION Spec
INVARIANT FileBuildKeepsOrder
