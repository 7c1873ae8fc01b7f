\* No tool's name is a prefix of another's.
SPECIFICATION Spec
CONSTANTS
    am = am
    amps = amps
    net = net
    sch = sch
    a = a
    b = b
    AnyTool = AnyTool
    AnyView = AnyView
    APPEND = APPEND
    Nothing = Nothing
    Tools <- MCTools
    Views <- MCViews
    ToolPrefix <- NoPrefixes
    Names <- MCNames
    Elements = {a, b}
    Texts <- MCTexts
    DefaultValue <- MCDefault
    MaxDefinitions = 4
CHECK_DEADLOCK FALSE
INVARIANTS TypeOK LookupPriority OneEntryPerName
PROPERTIES ImplementsPolicyMap
