SPECIFICATION Spec
CONSTANTS
    Blanks = {" "}
    Lower <- LowerCase
    Configs <- SomeConfigs
    OriginLists <- SomeOriginLists
    Slugs <- SomeSlugs
    Emails <- SomeEmails
    Origins <- SomeOrigins
INVARIANTS
    TypeOK
    SlugFindsOne
    DomainFindsAll
    ListedOriginsRead
CHECK_DEADLOCK FALSE
