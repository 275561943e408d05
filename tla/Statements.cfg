SPECIFICATION Spec
CONSTANTS
    Uploads = {u1, u2}
    Downloads = {d1}
    Workbooks <- TheWorkbooks
    FolderFiles <- TheFiles
    LegacyBook <- Older
    Texts <- TheTexts
    Classes <- TheClasses
    MaxImports = 2
    MaxEdits = 2
    None = None
SYMMETRY Symmetry
INVARIANT StatementsAreWhole
INVARIANT ClassificationsStayOnTheirRows
