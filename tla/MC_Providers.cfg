SPECIFICATION ProvidersSpec
CONSTANTS
  Nothing = Nothing
  l1 = l1
  e1 = e1
  e2 = e2
  Engines = {e1, e2}
  MaxGrants = 3
  MaxTime = 1
  Bridges = {l1}
  MaxModels = 2
  Providers <- TwoIds
  Registered = 1
  RegisterApi = "responses"
  Configs <- FiveConfigs
  Models <- TwoIds
  Listings <- ThreeListings
  Options <- FourOptions
  Responses <- EightResponses
  Texts <- FieldTexts
INVARIANTS NothingIsLostWithoutOverlap PlaceholderOnlyForResponses EnrichmentSettles
PROPERTIES TokensOnlyAdvance 
SYMMETRY Symmetry
CHECK_DEADLOCK TRUE
