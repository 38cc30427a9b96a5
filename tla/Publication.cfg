SPECIFICATION FairSpec
CONSTANTS
    first = first
    second = second
    other = other
    app = app
    tool = tool
    Paths = {first, second, other}
    Apps = {app, tool}
    AppOf <- MCAppOf
    Revisions <- MCRevisions
    Sound <- MCSound
    Methods = {"squash", "merge"}
    None = None
INVARIANTS CatalogIsSound SelectsLatestMerged
PROPERTIES MergesSurvive MergedIsNoticed
