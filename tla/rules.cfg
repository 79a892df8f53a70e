SPECIFICATION RulesSpec
CONSTANTS
    ItemsOf <- MCItemsOf
    MaxItems <- MCMaxItems
    Days <- MCDays
    PageSize = 2
    DayTicks = 2
    WindowDays = 7
    None = None
    NoDate = NoDate
CHECK_DEADLOCK FALSE
INVARIANTS ExportReadRight SearchIsSubstring FoldersAgree RunsListedRight
