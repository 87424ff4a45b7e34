\* Three containers that all migrate, of two releases, with three and two files.
SPECIFICATION Spec
CONSTANTS
    migrate = migrate
    app = app
    wrapper = wrapper
    Containers = {migrate, app, wrapper}
    Kind <- MCKind
    Release <- MCRelease
    Migrates = {app, wrapper}
    Waits = {app}
INVARIANTS
    TypeOK
    EachOnceInOrder
    SomebodyFinishes
    ServesOnItsSchema
PROPERTY
    StartsEnd
