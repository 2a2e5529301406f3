SPECIFICATION FairSpec
CONSTANTS
  Orders = {1, 2}
  Contents <- ThreeOffers
  Buyer = "buyer"
  Sold <- SoldByNumber
  Named = {1}
  Game = "cs2"
  OfferPolls = 2
  Cooldown = 2
  MaxClock = 3
  MaxOffers = 2
INVARIANT DeliveryHonest PolledAsWanted
PROPERTY CooldownKept StoppedGivesTheRest PassEnds
