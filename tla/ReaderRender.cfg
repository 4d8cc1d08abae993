SPECIFICATION FairSpec
CONSTANTS
    Pages = {1, 2}
    Sizes = {small, large}
    Places <- MCPlaces
    NearAt <- MCNear
    KeptAt <- MCKept
    PageAt <- MCPageAt
    None = None
    MaxRenders = 2
INVARIANTS VisiblePageIsCurrent PageModeSettles ScrollModeSettles
PROPERTY NearPageIsDrawn
