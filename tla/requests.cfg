SPECIFICATION FairSpec
CONSTANT Roles = {"super_admin", "school_manager", "parent"}
INVARIANTS TypeOK ReachesItsOwn DecidedByRoles
PROPERTIES  RequestEnds
