SPECIFICATION LiveSpec
CONSTANTS
  admins = admins
  viewers = viewers
  manage = manage
  look = look
  BaseScript <- MCBaseline
  MigrationScripts <- MCMigrations
  FirstTables <- MCFirst
  Groups = {admins, viewers}
  Permissions = {manage, look}
  Declared = {c1}
  DefaultGrants <- MCDefaults
  Released <- MCReleased
  MaxCrashes = 2
INVARIANTS
  LedgerIsTruthful
  ServesFullSchema
PROPERTIES
  RevokedStaysRevoked
  StartsUp
