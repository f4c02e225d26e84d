CONSTANTS
    Names = {t1, t2}
    Schemas = {s1, s2}
    NoSchema = NoSchema
    RemoveFails = TRUE
SPECIFICATION Spec
INVARIANTS
    TypeOK
    CatalogCurrent
    RowsFitSchema
    KnownTablesComeBack
PROPERTY RestartKeepsContents
