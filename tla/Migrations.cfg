CONSTANTS
  Texts <- MCTexts
  Statements <- MCStatements
  Releases <- MCReleases
  DomainTables <- MCDomainTables
  OtherTables = {"invoices"}
  NoLedger = NoLedger
  Incompatible = Incompatible
  Foreign = Foreign
  NoRun = NoRun
SPECIFICATION Spec
INVARIANTS
  TypeOK
  SchemaMatchesLedger
  NoStatementCollides
  SuccessInstallsRelease
PROPERTIES
  ImplementsReleaseLog
