SPECIFICATION Spec
CONSTANTS
    org = org  team = team  commons = commons
    ann = ann  eve = eve  Nobody = Nobody
    create = create  add = add  remove = remove  again = again
    facets = facets  item = item  search = search  graph = graph  archive = archive  forAnn = forAnn
    bot = bot  plan = plan  note = note  guide = guide  faq = faq
    AuthMode = "rbac"
    SpaceOrg <- OneOrg
    ProjectSpace <- NoProjects
    OwnerOf <- NoOwners
    Dev = FALSE
    DevUser = ann
    JwtEnabled = TRUE
    DefaultOrg = org
    Apps <- OneBot
    Changes = {create, add, remove, again}
    Change <- TeamChanges
    TeamSlug = team
    TeamSpace = team
    SeededGrants <- CommonsForAll
    Reads = {facets, item, search, graph, archive, forAnn}
    Ask <- EveReads
    Items <- SomeItems
    InitLinks <- LinksAtFirst
    MirrorLinks <- LinksOfMirror
    Keyword <- Keywords
    Vector <- Vectors
    MinSimilarity = 1
    Decay = 1
    TopHits = 2
    PerHit = 2
    Limit = 3
    Together <- WithArchive
    MinScore = 0
INVARIANTS TypeOK AdminsAreMembers MembershipDecides HitsExplained GraphOfAnyOrder
